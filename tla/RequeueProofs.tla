--------------------------- MODULE RequeueProofs ---------------------------
(***************************************************************************)
(* Theorems about Requeue, for any number of supervisors and bridges.      *)
(*                                                                         *)
(* Two arguments.  The claim files: every launch has used up a claim file  *)
(* that its process created, and a claim file is created only where there  *)
(* is none; so the launches of a trigger and the processes about to launch *)
(* it are at most the claim files that stand or were removed.  The state   *)
(* file: a single supervisor decides on a trigger only above the           *)
(* watermark, and moves the watermark up to it before it launches.         *)
(***************************************************************************)
EXTENDS Requeue, FiniteSetTheorems, TLAPS

-----------------------------------------------------------------------------
(* A step to a known place keeps the type of "at". *)
LEMMA PlaceType ==
  ASSUME at \in [Processes -> Places], NEW p \in Processes, NEW x \in Places,
         GoTo(p, x)
  PROVE  at' \in [Processes -> Places]
BY DEF GoTo

(* A process that leaves requeue_ticket goes to a place of the protocol. *)
LEMMA LeaveType ==
  ASSUME at \in [Processes -> Places], NEW p \in Processes, Leave(p)
  PROVE  at' \in [Processes -> Places]
<1>1. { "clear", "loop", "down" } \subseteq Places
  BY DEF Places
<1> QED
  BY <1>1, PlaceType DEF Leave, AfterRound

(* The contents of the state file keep their type. *)
LEMMA FileType ==
  ASSUME NEW f \in StateFile, NEW n \in 0..MaxChanges,
         changes \in 0..MaxChanges
  PROVE  /\ CaughtUp(f) \in StateFile
         /\ Requeued(f, n) \in StateFile
         /\ Synced(f, n) \in StateFile
<1>1. /\ f.cursor \in 0..MaxChanges
      /\ f.watermark \in 0..MaxChanges
      /\ f.round \in Nat /\ f.round + 1 \in Nat
  BY DEF StateFile
<1>2. CaughtUp(f) \in StateFile
  BY DEF CaughtUp, StateFile
<1>3. Synced(f, n) \in StateFile
  BY DEF Synced, StateFile
<1>4. Requeued(f, n) \in StateFile
  <2> DEFINE r == f.round + 1
  <2>1. r \in Nat
    BY <1>1
  <2>2. Requeued(f, n) = [f EXCEPT !.there = TRUE, !.watermark = n, !.round = r]
    BY DEF Requeued, StateFile
  <2> HIDE DEF r
  <2> QED
    BY <2>1, <2>2 DEF StateFile
<1> QED
  BY <1>2, <1>3, <1>4

(* So do the defaults and the file a forced close leaves. *)
LEMMA ResetType ==
  ASSUME changes \in 0..MaxChanges
  PROVE  /\ Missing \in StateFile
         /\ [ there |-> TRUE, cursor |-> changes, watermark |-> 0, round |-> 0 ]
              \in StateFile
<1>1. 0 \in 0..MaxChanges
  BY RequeueAssumption
<1> QED
  BY <1>1 DEF Missing, StateFile

(* A save of supervisor_state.json keeps the types. *)
LEMMA SaveType ==
  ASSUME at \in [Processes -> Places], file \in StateFile, NEW p \in Processes,
         NEW f \in StateFile, NEW x \in Places, SaveFile(p, f, x)
  PROVE  file' \in StateFile /\ at' \in [Processes -> Places]
<1>1. "down" \in Places
  BY DEF Places
<1> QED
  BY <1>1, PlaceType DEF SaveFile, Raise

(* The count of the removals stays one. *)
LEMMA RemoveType ==
  ASSUME TypeOK, RemoveClaims PROVE removed' \in [Triggers -> Nat]
BY DEF TypeOK, RemoveClaims, Standing

(* The variables keep their types in every state. *)
LEMMA TypeInit == Init => TypeOK
<1> SUFFICES ASSUME Init PROVE TypeOK
  OBVIOUS
<1>1. /\ 0 \in 0..MaxChanges
      /\ 0 \in 0..budget.crashes
      /\ 0 \in 0..budget.closes
      /\ 0 \in 0..budget.reopens
      /\ 0 \in 0..budget.visits
  BY RequeueAssumption DEF Init
<1>2. file \in StateFile
  BY <1>1, ResetType DEF Init
<1>3. at \in [Processes -> Places]
  BY DEF Init, Places
<1> QED
  BY <1>1, <1>2, <1>3 DEF Init, TypeOK, Blocked

(* Every step keeps the types. *)
LEMMA TypeStep == TypeOK /\ [Next]_vars => TypeOK'
<1> SUFFICES ASSUME TypeOK, [Next]_vars PROVE TypeOK'
  OBVIOUS
<1> USE DEF world, files, processes, bounds, history
<1>a. /\ at \in [Processes -> Places]
      /\ file \in StateFile
      /\ changes \in 0..MaxChanges
      /\ changes \in Nat
      /\ budget \in [ rejections : 0..MaxChanges, crashes : Nat, expiries : Nat,
                    closes : Nat, reopens : Nat, visits : Nat ]
      /\ closes \in 0..budget.closes
      /\ crashes \in 0..budget.crashes
      /\ reopens \in 0..budget.reopens
      /\ visits \in 0..budget.visits
  BY RequeueAssumption DEF TypeOK
<1>b. ASSUME NEW p \in Processes, ComesBy(p)
      PROVE  visits' \in 0..budget.visits /\ UNCHANGED << budget, crashes, closes, reopens >>
  BY <1>a, <1>b DEF ComesBy
<1>1. CASE Reject
  <2>1. changes' \in 0..MaxChanges
    BY <1>1, <1>a, RequeueAssumption DEF Reject
  <2> QED
    BY <1>1, <2>1 DEF TypeOK, Reject
<1>2. CASE MarkReady
  BY <1>2 DEF MarkReady, TypeOK
<1>3. CASE Escalate
  BY <1>3 DEF Escalate, TypeOK, Blocked
<1>14. CASE Closing
  <2>0. ASSUME NEW x \in { "clear", "discard", "reset" }, Close(x)
        PROVE  closes' \in 0..budget.closes /\ closing' \subseteq { "clear", "discard", "reset" }
    BY <1>a, <2>0, RequeueAssumption DEF Close, TypeOK
  <2>1. CASE Approve
    BY <2>0, <2>1 DEF Approve, Close, TypeOK, Blocked
  <2>2. CASE ForceClose
    BY <2>0, <2>2 DEF ForceClose, Close, TypeOK, Blocked
  <2>3. CASE ClearAuxiliary
    <3>1. file' \in StateFile
      BY <2>3, <1>a, ResetType DEF ClearAuxiliary
    <3> QED
      BY <2>3, <3>1 DEF ClearAuxiliary, TypeOK
  <2>4. CASE ResetState
    <3>1. file' \in StateFile
      BY <2>4, <1>a, ResetType DEF ResetState
    <3> QED
      BY <2>4, <3>1 DEF ResetState, TypeOK
  <2>5. CASE DiscardClaims
    <3>1. claim' \in [Triggers -> { "none", "fresh", "stale" }] /\ marker' \in [Triggers -> BOOLEAN]
      BY <2>5 DEF DiscardClaims, RemoveClaims
    <3>2. removed' \in [Triggers -> Nat]
      BY <2>5, RemoveType DEF DiscardClaims
    <3> QED
      BY <2>5, <3>1, <3>2 DEF DiscardClaims, TypeOK
  <2> QED
    BY <1>14, <2>1, <2>2, <2>3, <2>4, <2>5 DEF Closing
<1>4. CASE Resume
  BY <1>4 DEF Resume, TypeOK
<1>5. CASE Reopen
  <2>1. reopens' \in 0..budget.reopens
    BY <1>5, <1>a, RequeueAssumption DEF Reopen
  <2> QED
    BY <1>5, <2>1 DEF Reopen, TypeOK
<1>6. CASE HandoffBlocked
  BY <1>6 DEF HandoffBlocked, TypeOK
<1>7. CASE BuilderLost
  BY <1>7 DEF BuilderLost, TypeOK
<1>8. ASSUME NEW n \in Triggers, Expire(n) PROVE TypeOK'
  <2>1. claim' \in [Triggers -> { "none", "fresh", "stale" }]
    BY <1>8 DEF Expire, TypeOK
  <2>2. expired' \in [Triggers -> Nat]
    BY <1>8 DEF Expire, TypeOK
  <2> QED
    BY <1>8, <2>1, <2>2 DEF Expire, TypeOK
<1>9. ASSUME NEW p \in Processes, Start(p) PROVE TypeOK'
  <2>1. at' \in [Processes -> Places]
    BY <1>9, <1>a, PlaceType DEF Start, Places
  <2>2. visits' \in 0..budget.visits /\ UNCHANGED << budget, crashes, closes, reopens >>
    BY <1>9, <1>b DEF Start
  <2> QED
    BY <1>9, <2>1, <2>2 DEF Start, TypeOK
<1>10. ASSUME NEW p \in Processes, Work(p) PROVE TypeOK'
  <2>a. /\ todo[p] \in 0..MaxChanges
        /\ read[p] \in StateFile
        /\ { "down", "look", "decide", "process", "advance", "claim", "won",
             "stat", "check", "mark", "unlink", "recreate", "unmark", "fail",
             "save", "relaunch", "report", "loop", "synced" } \subseteq Places
    BY DEF TypeOK, Places
  <2>b. /\ CaughtUp(read[p]) \in StateFile
        /\ Requeued(read[p], todo[p]) \in StateFile
        /\ Synced(read[p], todo[p]) \in StateFile
    BY <1>a, <2>a, FileType
  <2>1. CASE Reconcile(p)
    <3>1. file' \in StateFile /\ at' \in [Processes -> Places]
      BY <2>1, <1>a, <2>a, <2>b, SaveType, PlaceType DEF Reconcile
    <3> QED
      BY <2>1, <3>1 DEF Reconcile, TypeOK
  <2>2. CASE BootRequeue(p)
    <3>1. at' \in [Processes -> Places]
      BY <2>2, <1>a, <2>a, PlaceType, LeaveType DEF BootRequeue
    <3>2. todo' \in [Processes -> 0..MaxChanges]
      BY <2>2, <1>a DEF BootRequeue, TypeOK
    <3> QED
      BY <2>2, <3>1, <3>2 DEF BootRequeue, TypeOK
  <2>3. CASE ClearTerminal(p)
    <3>1. at' \in [Processes -> Places]
      BY <2>3, <1>a, <2>a, PlaceType DEF ClearTerminal, Raise
    <3>2. claim' \in [Triggers -> { "none", "fresh", "stale" }] /\ marker' \in [Triggers -> BOOLEAN]
      BY <2>3 DEF ClearTerminal, RemoveClaims, TypeOK
    <3>3. removed' \in [Triggers -> Nat]
      BY <2>3, RemoveType DEF ClearTerminal, TypeOK
    <3> QED
      BY <2>3, <3>1, <3>2, <3>3 DEF ClearTerminal, TypeOK
  <2>4. CASE LoopRead(p)
    <3>1. at' \in [Processes -> Places]
      BY <2>4, <1>a, <2>a, PlaceType DEF LoopRead
    <3>2. Unread(file.cursor) \in 0..MaxChanges
      BY <1>a, RequeueAssumption DEF Unread
    <3>3. todo' \in [Processes -> 0..MaxChanges]
      BY <2>4, <3>2 DEF LoopRead, TypeOK
    <3> QED
      BY <2>4, <3>1, <3>3 DEF LoopRead, TypeOK
  <2>5. CASE ProcessLoad(p)
    <3>1. at' \in [Processes -> Places]
      BY <2>5, <1>a, <2>a, PlaceType DEF ProcessLoad
    <3> QED
      BY <2>5, <3>1 DEF ProcessLoad, TypeOK
  <2>6. CASE ProcessSave(p)
    <3>1. file' \in StateFile /\ at' \in [Processes -> Places]
      BY <2>6, <1>a, <2>a, <2>b, SaveType, PlaceType DEF ProcessSave
    <3> QED
      BY <2>6, <3>1 DEF ProcessSave, TypeOK
  <2>7. CASE LoopDecide(p)
    <3>1. at' \in [Processes -> Places]
      BY <2>7, <1>a, <2>a, PlaceType, LeaveType DEF LoopDecide
    <3> QED
      BY <2>7, <3>1 DEF LoopDecide, TypeOK
  <2>8. CASE Create(p)
    <3>1. at' \in [Processes -> Places]
      BY <2>8, <1>a, <2>a, PlaceType DEF Create
    <3> QED
      BY <2>8, <3>1 DEF Create, TypeOK
  <2>9. CASE Stat(p)
    <3>1. at' \in [Processes -> Places]
      BY <2>9, <1>a, <2>a, PlaceType, LeaveType DEF Stat
    <3> QED
      BY <2>9, <3>1 DEF Stat, TypeOK
  <2>10. CASE Check(p)
    <3>1. at' \in [Processes -> Places]
      BY <2>10, <1>a, <2>a, PlaceType, LeaveType DEF Check
    <3> QED
      BY <2>10, <3>1 DEF Check, TypeOK
  <2>11. CASE Mark(p)
    <3>1. at' \in [Processes -> Places]
      BY <2>11, <1>a, <2>a, PlaceType, LeaveType DEF Mark
    <3> QED
      BY <2>11, <3>1 DEF Mark, TypeOK
  <2>12. CASE Unlink(p)
    <3>1. at' \in [Processes -> Places]
      BY <2>12, <1>a, <2>a, PlaceType DEF Unlink
    <3>2. removed' \in [Triggers -> Nat]
      <4> DEFINE k == Standing(todo[p])
      <4>1. k \in Nat
        BY DEF Standing
      <4>2. removed' = [removed EXCEPT ![todo[p]] = @ + k]
        BY <2>12 DEF Unlink
      <4>3. removed \in [Triggers -> Nat]
        BY DEF TypeOK
      <4> HIDE DEF k
      <4>4. \A n \in Triggers : removed'[n] = IF n = todo[p] THEN removed[n] + k
                                            ELSE removed[n]
        BY <4>2, <4>3
      <4>5. \A n \in Triggers : removed'[n] \in Nat
        BY <4>1, <4>3, <4>4
      <4>6. removed' = [n \in Triggers |-> removed'[n]]
        BY <4>2, <4>3
      <4> QED
        BY <4>5, <4>6
    <3>3. claim' \in [Triggers -> { "none", "fresh", "stale" }]
      BY <2>12 DEF Unlink, TypeOK
    <3> QED
      BY <2>12, <3>1, <3>2, <3>3 DEF Unlink, TypeOK
  <2>13. CASE Recreate(p)
    <3>1. at' \in [Processes -> Places]
      BY <2>13, <1>a, <2>a, PlaceType DEF Recreate
    <3>2. claim' \in [Triggers -> { "none", "fresh", "stale" }]
      BY <2>13 DEF Recreate, TypeOK
    <3>3. recovered' \in [Triggers -> Nat]
      BY <2>13 DEF Recreate, TypeOK
    <3> QED
      BY <2>13, <3>1, <3>2, <3>3 DEF Recreate, TypeOK
  <2>14. CASE Unmark(p)
    <3>1. at' \in [Processes -> Places]
      BY <2>14, <1>a, <2>a, PlaceType DEF Unmark, Raise
    <3> QED
      BY <2>14, <3>1 DEF Unmark, TypeOK
  <2>15. CASE Load(p)
    <3>1. at' \in [Processes -> Places]
      BY <2>15, <1>a, <2>a, PlaceType, LeaveType DEF Load
    <3> QED
      BY <2>15, <3>1 DEF Load, TypeOK
  <2>16. CASE Save(p)
    <3>1. file' \in StateFile /\ at' \in [Processes -> Places]
      BY <2>16, <1>a, <2>a, <2>b, SaveType DEF Save
    <3> QED
      BY <2>16, <3>1 DEF Save, TypeOK
  <2>17. CASE Relaunch(p)
    <3>1. at' \in [Processes -> Places]
      BY <2>17, <1>a, <2>a, PlaceType, LeaveType DEF Relaunch
    <3>2. launched' \in [Triggers -> Nat]
      BY <2>17 DEF Relaunch, TypeOK
    <3>3. told' \in [Triggers -> BOOLEAN] /\ builder' \in BOOLEAN
      BY <2>17 DEF Relaunch, TypeOK
    <3> QED
      BY <2>17, <3>1, <3>2, <3>3 DEF Relaunch, TypeOK
  <2>18. CASE Report(p)
    <3>1. at' \in [Processes -> Places]
      BY <2>18, <1>a, LeaveType DEF Report
    <3> QED
      BY <2>18, <3>1 DEF Report, TypeOK
  <2>19. CASE SyncLoad(p)
    <3>1. at' \in [Processes -> Places]
      BY <2>19, <1>a, <2>a, PlaceType DEF SyncLoad
    <3> QED
      BY <2>19, <3>1 DEF SyncLoad, TypeOK
  <2>20. CASE SyncSave(p)
    <3>1. file' \in StateFile /\ at' \in [Processes -> Places]
      BY <2>20, <1>a, <2>a, <2>b, SaveType DEF SyncSave
    <3> QED
      BY <2>20, <3>1 DEF SyncSave, TypeOK
  <2> QED
    BY <1>10, <2>1, <2>2, <2>3, <2>4, <2>5, <2>6, <2>7, <2>8, <2>9, <2>10,
       <2>11, <2>12, <2>13, <2>14, <2>15, <2>16, <2>17, <2>18, <2>19, <2>20
       DEF Work
<1>11. ASSUME NEW p \in Processes, Crash(p) PROVE TypeOK'
  <2>1. at' \in [Processes -> Places]
    BY <1>11, <1>a, PlaceType DEF Crash, Places
  <2>2. crashes' \in 0..budget.crashes
    BY <1>11, <1>a, RequeueAssumption DEF Crash
  <2> QED
    BY <1>11, <2>1, <2>2 DEF Crash, TypeOK
<1>12. CASE UNCHANGED vars
  BY <1>12 DEF vars, TypeOK
<1>13. ASSUME NEW p \in Processes, SyncRead(p) PROVE TypeOK'
  <2>1. at' \in [Processes -> Places]
    BY <1>13, <1>a, PlaceType DEF SyncRead, Places
  <2>2. visits' \in 0..budget.visits /\ UNCHANGED << budget, crashes, closes, reopens >>
    BY <1>13, <1>b DEF SyncRead
  <2>3. todo' \in [Processes -> 0..MaxChanges]
    BY <1>13, <1>a DEF SyncRead, TypeOK
  <2> QED
    BY <1>13, <2>1, <2>2, <2>3 DEF SyncRead, TypeOK
<1> QED
  BY <1>1, <1>2, <1>3, <1>4, <1>5, <1>6, <1>7, <1>8, <1>9, <1>10, <1>11, <1>12,
     <1>13, <1>14 DEF Next, Environment

(* Type correctness of the requeue protocol. *)
THEOREM TypeCorrect == Spec => []TypeOK
  BY TypeInit, TypeStep, PTL DEF Spec
-----------------------------------------------------------------------------
(* The claim files.                                                        *)

(* A process that has created the claim and not launched yet, one that has *)
(* launched and not reported.                                              *)
OwnPlaces == { "unmark", "won", "save", "relaunch" }
Owners(n) == { p \in Processes : at[p] \in OwnPlaces /\ todo[p] = n }
Reporters(n) == { p \in Processes : at[p] = "report" /\ todo[p] = n }

(* From the claim on a process works on a trigger of the bus. *)
Claiming == OwnPlaces \cup { "claim", "stat", "check", "mark", "unlink",
                             "recreate", "report" }
ClaimsTriggers == \A p \in Processes : at[p] \in Claiming => todo[p] \in Triggers

(* What the claim files of trigger n are worth. *)
Worth(n) == removed[n] + Standing(n)

Accounted ==
  /\ ClaimsTriggers
  /\ \A n \in Triggers :
       /\ launched[n] + Cardinality(Owners(n)) <= Worth(n)
       /\ Cardinality(Reporters(n)) <= launched[n]

(* Sizes of sets of processes. *)
LEMMA Sizes ==
  ASSUME NEW S \in SUBSET Processes, NEW T \in SUBSET Processes, NEW p \in Processes
  PROVE  /\ Cardinality(S) \in Nat
         /\ S \subseteq T => Cardinality(S) <= Cardinality(T)
         /\ S \subseteq T \cup { p } => Cardinality(S) <= Cardinality(T) + 1
         /\ p \in T /\ S \subseteq T \ { p } => Cardinality(S) + 1 <= Cardinality(T)
<1>1. IsFiniteSet(Processes)
  BY RequeueAssumption, FS_Union DEF Processes
<1>2. /\ IsFiniteSet(S) /\ IsFiniteSet(T)
      /\ Cardinality(S) \in Nat /\ Cardinality(T) \in Nat
  BY <1>1, FS_Subset, FS_CardinalityType
<1>3. /\ IsFiniteSet(T \cup { p }) /\ IsFiniteSet(T \ { p })
      /\ Cardinality(T \cup { p }) <= Cardinality(T) + 1
      /\ p \in T => Cardinality(T \ { p }) = Cardinality(T) - 1
  <2>1. /\ IsFiniteSet(T \cup { p })
        /\ Cardinality(T \cup { p }) = IF p \in T THEN Cardinality(T)
                                       ELSE Cardinality(T) + 1
    BY <1>2, FS_AddElement
  <2>2. /\ IsFiniteSet(T \ { p })
        /\ Cardinality(T \ { p }) = IF p \in T THEN Cardinality(T) - 1
                                     ELSE Cardinality(T)
    BY <1>2, FS_RemoveElement
  <2> QED
    BY <1>2, <2>1, <2>2
<1>4. S \subseteq T => Cardinality(S) <= Cardinality(T)
  BY <1>2, FS_Subset
<1>5. S \subseteq T \cup { p } => Cardinality(S) <= Cardinality(T) + 1
  <2>1. S \subseteq T \cup { p } => Cardinality(S) <= Cardinality(T \cup { p })
    BY <1>3, FS_Subset
  <2>2. Cardinality(T \cup { p }) \in Nat
    BY <1>3, FS_CardinalityType
  <2> QED
    BY <1>2, <1>3, <2>1, <2>2
<1>6. p \in T /\ S \subseteq T \ { p } => Cardinality(S) + 1 <= Cardinality(T)
  <2>1. S \subseteq T \ { p } => Cardinality(S) <= Cardinality(T \ { p })
    BY <1>3, FS_Subset
  <2> QED
    BY <1>2, <1>3, <2>1
<1> QED
  BY <1>2, <1>4, <1>5, <1>6

(* The processes of a step: everybody else stays where he is. *)
LEMMA OthersStay ==
  ASSUME TypeOK, NEW p \in Processes, NEW x, GoTo(p, x),
         \A q \in Processes : q # p => todo'[q] = todo[q]
  PROVE  /\ at'[p] = x
         /\ \A q \in Processes : q # p => at'[q] = at[q] /\ todo'[q] = todo[q]
BY DEF TypeOK, GoTo

(* Nobody becomes an owner or a reporter, and no claim file is created. *)
LEMMA FewerKeepAccounted ==
  ASSUME TypeOK, TypeOK', Accounted, ClaimsTriggers', launched' = launched,
         \A n \in Triggers : /\ Owners(n)' \subseteq Owners(n)
                             /\ Reporters(n)' \subseteq Reporters(n)
                             /\ Worth(n)' = Worth(n)
  PROVE  Accounted'
<1> SUFFICES ASSUME NEW n \in Triggers
             PROVE  /\ launched'[n] + Cardinality(Owners(n)') <= Worth(n)'
                    /\ Cardinality(Reporters(n)') <= launched'[n]
  BY DEF Accounted
<1>1. /\ Owners(n)' \in SUBSET Processes /\ Owners(n) \in SUBSET Processes
      /\ Reporters(n)' \in SUBSET Processes /\ Reporters(n) \in SUBSET Processes
  BY DEF Owners, Reporters
<1>2. /\ launched[n] \in Nat /\ removed[n] \in Nat /\ Standing(n) \in Nat
      /\ Worth(n) \in Nat
  BY DEF TypeOK, Standing, Worth
<1>3. CASE Processes = {}
  <2>1. /\ Owners(n)' = Owners(n) /\ Reporters(n)' = Reporters(n)
    BY <1>1, <1>3
  <2> QED
    BY <2>1 DEF Accounted
<1>4. ASSUME NEW p \in Processes
      PROVE  /\ launched'[n] + Cardinality(Owners(n)') <= Worth(n)'
             /\ Cardinality(Reporters(n)') <= launched'[n]
  <2>1. /\ Cardinality(Owners(n)') \in Nat /\ Cardinality(Owners(n)) \in Nat
        /\ Cardinality(Owners(n)') <= Cardinality(Owners(n))
        /\ Cardinality(Reporters(n)') \in Nat /\ Cardinality(Reporters(n)) \in Nat
        /\ Cardinality(Reporters(n)') <= Cardinality(Reporters(n))
    BY <1>1, <1>4, Sizes
  <2> QED
    BY <1>2, <2>1 DEF Accounted
<1> QED
  BY <1>3, <1>4

(* What happens to no process. *)
LEMMA WorldKeepsAccounted ==
  ASSUME TypeOK, TypeOK', Accounted, UNCHANGED << launched, at, todo >>,
         \A n \in Triggers : Worth(n)' = Worth(n)
  PROVE  Accounted'
<1>1. \A n \in Triggers : Owners(n)' = Owners(n) /\ Reporters(n)' = Reporters(n)
  BY DEF Owners, Reporters
<1>2. ClaimsTriggers'
  BY DEF Accounted, ClaimsTriggers
<1> QED
  BY <1>1, <1>2, FewerKeepAccounted

(* A step of a process that neither creates a claim nor launches. *)
LEMMA MoveKeepsAccounted ==
  ASSUME TypeOK, TypeOK', Accounted, NEW p \in Processes, NEW x, GoTo(p, x),
         \A q \in Processes : q # p => todo'[q] = todo[q],
         x \in Claiming => todo'[p] \in Triggers,
         x \in OwnPlaces => at[p] \in OwnPlaces /\ todo'[p] = todo[p],
         x # "report", launched' = launched,
         \A n \in Triggers : Worth(n)' = Worth(n)
  PROVE  Accounted'
<1>1. /\ at'[p] = x
      /\ \A q \in Processes : q # p => at'[q] = at[q] /\ todo'[q] = todo[q]
  BY OthersStay
<1>2. \A n \in Triggers : /\ Owners(n)' \subseteq Owners(n)
                          /\ Reporters(n)' \subseteq Reporters(n)
  BY <1>1 DEF Owners, Reporters
<1>3. ClaimsTriggers'
  BY <1>1 DEF Accounted, ClaimsTriggers
<1> QED
  BY <1>2, <1>3, FewerKeepAccounted

(* The same for the end of a requeue, for an exception, ... *)
LEMMA LeaveKeepsAccounted ==
  ASSUME TypeOK, TypeOK', Accounted, NEW p \in Processes, Leave(p) \/ Raise(p),
         UNCHANGED << todo, launched >>, \A n \in Triggers : Worth(n)' = Worth(n)
  PROVE  Accounted'
<1>1. PICK x \in { "clear", "loop", "down" } : GoTo(p, x)
  BY DEF Leave, AfterRound, Raise
<1>2. x \notin Claiming /\ x \notin OwnPlaces /\ x # "report"
  BY DEF Claiming, OwnPlaces
<1> QED
  BY <1>1, <1>2, MoveKeepsAccounted

(* ... and for a save, which may raise. *)
LEMMA SaveKeepsAccounted ==
  ASSUME TypeOK, TypeOK', Accounted, NEW p \in Processes, NEW f, NEW x,
         SaveFile(p, f, x), x \notin Claiming,
         UNCHANGED << todo, launched >>, \A n \in Triggers : Worth(n)' = Worth(n)
  PROVE  Accounted'
<1>1. x \notin OwnPlaces /\ x # "report"
  BY DEF Claiming
<1> QED
  BY <1>1, MoveKeepsAccounted, LeaveKeepsAccounted DEF SaveFile

(* The claim is created: p becomes an owner of its trigger. *)
LEMMA CreatedKeepsAccounted ==
  ASSUME TypeOK, TypeOK', Accounted, NEW p \in Processes, NEW x \in OwnPlaces,
         GoTo(p, x), at[p] \in Claiming, claim[todo[p]] = "none",
         claim' = [claim EXCEPT ![todo[p]] = "fresh"],
         UNCHANGED << todo, launched, removed >>
  PROVE  Accounted'
<1>1. /\ at'[p] = x
      /\ \A q \in Processes : q # p => at'[q] = at[q]
      /\ todo[p] \in Triggers
      /\ x # "report" /\ x \in Claiming
  BY OthersStay DEF Accounted, ClaimsTriggers, OwnPlaces, Claiming
<1>2. ClaimsTriggers'
  BY <1>1 DEF Accounted, ClaimsTriggers
<1> SUFFICES ASSUME NEW n \in Triggers
             PROVE  /\ launched[n] + Cardinality(Owners(n)') <= Worth(n)'
                    /\ Cardinality(Reporters(n)') <= launched[n]
  BY <1>2 DEF Accounted
<1>3. /\ Owners(n)' \in SUBSET Processes /\ Owners(n) \in SUBSET Processes
      /\ Reporters(n)' \in SUBSET Processes /\ Reporters(n) \in SUBSET Processes
  BY DEF Owners, Reporters
<1>4. /\ Reporters(n)' \subseteq Reporters(n)
      /\ Owners(n)' \subseteq Owners(n) \cup { p }
      /\ n # todo[p] => Owners(n)' \subseteq Owners(n)
  BY <1>1 DEF Owners, Reporters
<1>5. /\ launched[n] \in Nat /\ removed[n] \in Nat
      /\ claim \in [Triggers -> { "none", "fresh", "stale" }]
  BY DEF TypeOK
<1>6. /\ Worth(n) \in Nat /\ Worth(n)' \in Nat
      /\ n = todo[p] => Worth(n)' = Worth(n) + 1
      /\ n # todo[p] => Worth(n)' = Worth(n)
  BY <1>1, <1>5 DEF Worth, Standing
<1>7. /\ Cardinality(Owners(n)') \in Nat /\ Cardinality(Owners(n)) \in Nat
      /\ Cardinality(Reporters(n)') \in Nat /\ Cardinality(Reporters(n)) \in Nat
      /\ Cardinality(Reporters(n)') <= Cardinality(Reporters(n))
      /\ Cardinality(Owners(n)') <= Cardinality(Owners(n)) + 1
      /\ n # todo[p] => Cardinality(Owners(n)') <= Cardinality(Owners(n))
  BY <1>3, <1>4, Sizes
<1>8. /\ launched[n] + Cardinality(Owners(n)) <= Worth(n)
      /\ Cardinality(Reporters(n)) <= launched[n]
  BY DEF Accounted
<1> QED
  BY <1>5, <1>6, <1>7, <1>8

(* The launch uses up what p owned. *)
LEMMA LaunchKeepsAccounted ==
  ASSUME TypeOK, TypeOK', Accounted, NEW p \in Processes, at[p] = "relaunch",
         GoTo(p, "report"), launched' = [launched EXCEPT ![todo[p]] = @ + 1],
         UNCHANGED << todo, claim, removed >>
  PROVE  Accounted'
<1>1. /\ at'[p] = "report"
      /\ \A q \in Processes : q # p => at'[q] = at[q]
      /\ todo[p] \in Triggers
      /\ "relaunch" \in OwnPlaces /\ "report" \notin OwnPlaces
  BY OthersStay DEF Accounted, ClaimsTriggers, OwnPlaces, Claiming
<1>2. ClaimsTriggers'
  BY <1>1 DEF Accounted, ClaimsTriggers
<1> SUFFICES ASSUME NEW n \in Triggers
             PROVE  /\ launched'[n] + Cardinality(Owners(n)') <= Worth(n)'
                    /\ Cardinality(Reporters(n)') <= launched'[n]
  BY <1>2 DEF Accounted
<1>3. /\ Owners(n)' \in SUBSET Processes /\ Owners(n) \in SUBSET Processes
      /\ Reporters(n)' \in SUBSET Processes /\ Reporters(n) \in SUBSET Processes
  BY DEF Owners, Reporters
<1>4. /\ Reporters(n)' \subseteq Reporters(n) \cup { p }
      /\ Owners(n)' \subseteq Owners(n)
      /\ n # todo[p] => Reporters(n)' \subseteq Reporters(n)
      /\ n = todo[p] => p \in Owners(n) /\ Owners(n)' \subseteq Owners(n) \ { p }
  BY <1>1 DEF Owners, Reporters
<1>5. /\ launched[n] \in Nat /\ Worth(n) \in Nat
      /\ Worth(n)' = Worth(n)
      /\ n = todo[p] => launched'[n] = launched[n] + 1
      /\ n # todo[p] => launched'[n] = launched[n]
  BY <1>1 DEF TypeOK, Worth, Standing
<1>6. /\ Cardinality(Owners(n)') \in Nat /\ Cardinality(Owners(n)) \in Nat
      /\ Cardinality(Reporters(n)') \in Nat /\ Cardinality(Reporters(n)) \in Nat
      /\ Cardinality(Owners(n)') <= Cardinality(Owners(n))
      /\ n = todo[p] => Cardinality(Owners(n)') + 1 <= Cardinality(Owners(n))
      /\ Cardinality(Reporters(n)') <= Cardinality(Reporters(n)) + 1
      /\ n # todo[p] => Cardinality(Reporters(n)') <= Cardinality(Reporters(n))
  BY <1>3, <1>4, Sizes
<1>7. /\ launched[n] + Cardinality(Owners(n)) <= Worth(n)
      /\ Cardinality(Reporters(n)) <= launched[n]
  BY DEF Accounted
<1> QED
  BY <1>5, <1>6, <1>7

(* Claim files that go are counted. *)
LEMMA RemovalIsCounted ==
  ASSUME TypeOK, RemoveClaims PROVE \A n \in Triggers : Worth(n)' = Worth(n)
<1> SUFFICES ASSUME NEW n \in Triggers PROVE Worth(n)' = Worth(n)
  OBVIOUS
<1>1. claim'[n] = "none" /\ removed'[n] = removed[n] + Standing(n)
  BY DEF RemoveClaims
<1>2. Standing(n)' = 0 /\ Standing(n) \in Nat /\ removed[n] \in Nat
  BY <1>1 DEF Standing, TypeOK
<1> QED
  BY <1>1, <1>2 DEF Worth

(* Every step keeps the account. *)
LEMMA AccountedStep ==
  ASSUME TypeOK, TypeOK', Accounted, [Next]_vars
  PROVE  Accounted'
<1> USE DEF world, files, processes, bounds, history
<1>a. UNCHANGED << claim, removed >> => \A n \in Triggers : Worth(n)' = Worth(n)
  BY DEF Worth, Standing
<1>1. CASE Environment
  <2>1. CASE \/ Reject \/ MarkReady \/ Escalate \/ Resume \/ Reopen
             \/ HandoffBlocked \/ BuilderLost \/ Approve \/ ForceClose
             \/ ClearAuxiliary \/ ResetState
    <3>1. UNCHANGED << launched, at, todo, claim, removed >>
      BY <2>1 DEF Reject, MarkReady, Escalate, Resume, Reopen, HandoffBlocked,
                  BuilderLost, Approve, ForceClose, Close, ClearAuxiliary,
                  ResetState
    <3> QED
      BY <1>a, <3>1, WorldKeepsAccounted
  <2>2. CASE DiscardClaims
    BY <2>2, RemovalIsCounted, WorldKeepsAccounted DEF DiscardClaims
  <2>3. ASSUME NEW n \in Triggers, Expire(n) PROVE Accounted'
    <3>1. \A m \in Triggers : Standing(m)' = Standing(m)
      BY <2>3 DEF Expire, Standing, TypeOK
    <3>2. \A m \in Triggers : Worth(m)' = Worth(m)
      BY <2>3, <3>1 DEF Expire, Worth
    <3> QED
      BY <2>3, <3>2, WorldKeepsAccounted DEF Expire
  <2> QED
    BY <1>1, <2>1, <2>2, <2>3 DEF Environment, Closing
<1>2. ASSUME NEW p \in Processes, Start(p) PROVE Accounted'
  <2>1. "boot" \notin Claiming /\ "boot" \notin OwnPlaces
    BY DEF Claiming, OwnPlaces
  <2> QED
    BY <1>2, <1>a, <2>1, MoveKeepsAccounted DEF Start
<1>3. ASSUME NEW p \in Processes, SyncRead(p) PROVE Accounted'
  <2>1. "sync" \notin Claiming /\ "sync" \notin OwnPlaces
    BY DEF Claiming, OwnPlaces
  <2>2. \A q \in Processes : q # p => todo'[q] = todo[q]
    BY <1>3 DEF SyncRead, TypeOK
  <2> QED
    BY <1>3, <1>a, <2>1, <2>2, MoveKeepsAccounted DEF SyncRead
<1>4. ASSUME NEW p \in Processes, Crash(p) PROVE Accounted'
  BY <1>4, <1>a, LeaveKeepsAccounted DEF Crash, Raise
<1>5. ASSUME NEW p \in Processes, Work(p) PROVE Accounted'
  <2>a. /\ \A x \in { "look", "loop", "process", "advance", "decide", "down",
                      "boot", "clear", "sync", "synced", "fail" } :
             x \notin Claiming /\ x \notin OwnPlaces /\ x # "report"
        /\ \A x \in { "claim", "stat", "check", "mark", "unlink", "recreate" } :
             x \in Claiming /\ x \notin OwnPlaces /\ x # "report"
        /\ \A x \in { "unmark", "won", "save", "relaunch" } :
             x \in Claiming /\ x \in OwnPlaces /\ x # "report"
    BY DEF Claiming, OwnPlaces
  <2>b. at[p] \in Claiming => todo[p] \in Triggers
    BY DEF Accounted, ClaimsTriggers
  <2>1. CASE Reconcile(p)
    BY <2>1, <1>a, <2>a, MoveKeepsAccounted, SaveKeepsAccounted DEF Reconcile
  <2>2. CASE BootRequeue(p)
    <3>1. CASE Leave(p) /\ todo' = todo
      BY <2>2, <1>a, <3>1, LeaveKeepsAccounted DEF BootRequeue
    <3>2. CASE /\ changes > file.watermark
               /\ todo' = [todo EXCEPT ![p] = changes]
               /\ GoTo(p, "claim")
      <4>1. changes \in Triggers
        BY <3>2, RequeueAssumption DEF TypeOK, StateFile, Triggers
      <4>2. todo'[p] \in Triggers /\ \A q \in Processes : q # p => todo'[q] = todo[q]
        BY <3>2, <4>1 DEF TypeOK
      <4> QED
        BY <2>2, <1>a, <2>a, <3>2, <4>2, MoveKeepsAccounted DEF BootRequeue
    <3> QED
      BY <2>2, <3>1, <3>2 DEF BootRequeue
  <2>3. CASE ClearTerminal(p)
    <3>1. \A n \in Triggers : Worth(n)' = Worth(n)
      BY <2>3, <1>a, RemovalIsCounted DEF ClearTerminal
    <3> QED
      BY <2>3, <2>a, <3>1, MoveKeepsAccounted, LeaveKeepsAccounted DEF ClearTerminal
  <2>4. CASE LoopRead(p)
    <3>1. \A q \in Processes : q # p => todo'[q] = todo[q]
      BY <2>4 DEF LoopRead, TypeOK
    <3> QED
      BY <2>4, <1>a, <2>a, <3>1, MoveKeepsAccounted DEF LoopRead
  <2>5. CASE ProcessLoad(p)
    BY <2>5, <1>a, <2>a, MoveKeepsAccounted DEF ProcessLoad
  <2>6. CASE ProcessSave(p)
    BY <2>6, <1>a, <2>a, MoveKeepsAccounted, SaveKeepsAccounted DEF ProcessSave
  <2>7. CASE LoopDecide(p)
    <3>1. CASE todo[p] > file.watermark /\ handoff < todo[p]
      <4>0. todo[p] \in 0..MaxChanges /\ file.watermark \in 0..MaxChanges
        BY DEF TypeOK, StateFile
      <4>1. todo[p] \in Triggers
        BY <3>1, <4>0, RequeueAssumption DEF Triggers
      <4> QED
        BY <2>7, <1>a, <2>a, <3>1, <4>1, MoveKeepsAccounted DEF LoopDecide
    <3>2. CASE ~(todo[p] > file.watermark /\ handoff < todo[p])
      BY <2>7, <1>a, <3>2, LeaveKeepsAccounted DEF LoopDecide
    <3> QED
      BY <3>1, <3>2
  <2>8. CASE SyncLoad(p)
    <3>1. PICK x \in { "synced", "down" } : GoTo(p, x)
      BY <2>8 DEF SyncLoad
    <3> QED
      BY <2>8, <1>a, <2>a, <3>1, MoveKeepsAccounted DEF SyncLoad
  <2>9. CASE SyncSave(p)
    BY <2>9, <1>a, <2>a, SaveKeepsAccounted DEF SyncSave
  <2>10. CASE Create(p)
    <3>1. CASE Claimable(todo[p])
      BY <2>10, <2>a, <3>1, CreatedKeepsAccounted DEF Create, Claimable
    <3>2. CASE ~Claimable(todo[p])
      BY <2>10, <1>a, <2>a, <2>b, <3>2, MoveKeepsAccounted DEF Create
    <3> QED
      BY <3>1, <3>2
  <2>11. CASE Stat(p)
    BY <2>11, <1>a, <2>a, <2>b, MoveKeepsAccounted, LeaveKeepsAccounted DEF Stat
  <2>12. CASE Check(p)
    BY <2>12, <1>a, <2>a, <2>b, MoveKeepsAccounted, LeaveKeepsAccounted DEF Check
  <2>13. CASE Mark(p)
    BY <2>13, <1>a, <2>a, <2>b, MoveKeepsAccounted, LeaveKeepsAccounted DEF Mark
  <2>14. CASE Unlink(p)
    <3>1. \A n \in Triggers : Worth(n)' = Worth(n)
      <4> SUFFICES ASSUME NEW n \in Triggers PROVE Worth(n)' = Worth(n)
        OBVIOUS
      <4>1. removed[n] \in Nat /\ Standing(n) \in Nat
        BY DEF TypeOK, Standing
      <4>2. CASE n = todo[p]
        <5>1. claim'[n] = "none"
          BY <2>14, <4>2 DEF Unlink, TypeOK
        <5>2. Standing(n)' = 0
          BY <5>1 DEF Standing
        <5>3. removed' = [removed EXCEPT ![todo[p]] = @ + Standing(todo[p])]
          BY <2>14 DEF Unlink
        <5> DEFINE k == Standing(n)
        <5>4. removed' = [removed EXCEPT ![n] = @ + k]
          BY <4>2, <5>3
        <5> HIDE DEF k
        <5>5. removed'[n] = removed[n] + k
          BY <5>4 DEF TypeOK
        <5> QED
          BY <4>1, <5>2, <5>5 DEF Worth, k
      <4>3. CASE n # todo[p]
        <5>1. claim'[n] = claim[n] /\ removed'[n] = removed[n]
          BY <2>14, <4>3 DEF Unlink, TypeOK
        <5> QED
          BY <5>1 DEF Worth, Standing
      <4> QED
        BY <4>2, <4>3
    <3>2. PICK x \in { "fail", "recreate" } : GoTo(p, x)
      BY <2>14 DEF Unlink
    <3>3. "unlink" \in Claiming
      BY <2>a
    <3> QED
      BY <2>14, <2>a, <2>b, <3>1, <3>2, <3>3, MoveKeepsAccounted DEF Unlink
  <2>15. CASE Recreate(p)
    <3>1. CASE claim[todo[p]] = "none"
      BY <2>15, <2>a, <3>1, CreatedKeepsAccounted DEF Recreate
    <3>2. CASE claim[todo[p]] # "none"
      BY <2>15, <1>a, <2>a, <3>2, MoveKeepsAccounted DEF Recreate
    <3> QED
      BY <3>1, <3>2
  <2>16. CASE Unmark(p)
    <3>1. CASE at[p] = "unmark"
      BY <2>16, <1>a, <2>a, <2>b, <3>1, MoveKeepsAccounted DEF Unmark
    <3>2. CASE at[p] # "unmark"
      BY <2>16, <1>a, <3>2, LeaveKeepsAccounted DEF Unmark
    <3> QED
      BY <3>1, <3>2
  <2>17. CASE Load(p)
    BY <2>17, <1>a, <2>a, <2>b, MoveKeepsAccounted, LeaveKeepsAccounted DEF Load
  <2>18. CASE Save(p)
    <3>1. CASE file = read[p] \/ ~read[p].there
      <4>1. GoTo(p, "relaunch")
        BY <2>18, <3>1 DEF Save, SaveFile
      <4> QED
        BY <2>18, <1>a, <2>a, <2>b, <4>1, MoveKeepsAccounted DEF Save
    <3>2. CASE ~(file = read[p] \/ ~read[p].there)
      <4>1. Raise(p)
        BY <2>18, <3>2 DEF Save, SaveFile
      <4> QED
        BY <2>18, <1>a, <4>1, LeaveKeepsAccounted DEF Save
    <3> QED
      BY <3>1, <3>2
  <2>19. CASE Relaunch(p)
    BY <2>19, <1>a, LeaveKeepsAccounted, LaunchKeepsAccounted DEF Relaunch
  <2>20. CASE Report(p)
    BY <2>20, <1>a, LeaveKeepsAccounted DEF Report
  <2> QED
    BY <1>5, <2>1, <2>2, <2>3, <2>4, <2>5, <2>6, <2>7, <2>8, <2>9, <2>10, <2>11,
       <2>12, <2>13, <2>14, <2>15, <2>16, <2>17, <2>18, <2>19, <2>20 DEF Work
<1>6. CASE UNCHANGED vars
  BY <1>6, <1>a, WorldKeepsAccounted DEF vars
<1> QED
  BY <1>1, <1>2, <1>3, <1>4, <1>5, <1>6 DEF Next

(* Nothing is launched, owned or reported in the initial state. *)
LEMMA AccountedInit == Init => Accounted
<1> SUFFICES ASSUME Init PROVE Accounted
  OBVIOUS
<1>1. ClaimsTriggers
  BY DEF Init, ClaimsTriggers, Claiming, OwnPlaces
<1>2. ASSUME NEW n \in Triggers
      PROVE  /\ launched[n] + Cardinality(Owners(n)) <= Worth(n)
             /\ Cardinality(Reporters(n)) <= launched[n]
  <2>1. Owners(n) = {} /\ Reporters(n) = {}
    BY DEF Init, Owners, Reporters, OwnPlaces
  <2>2. Cardinality(Owners(n)) = 0 /\ Cardinality(Reporters(n)) = 0
    BY <2>1, FS_EmptySet
  <2>3. launched[n] = 0 /\ Worth(n) = 0
    BY DEF Init, Worth, Standing
  <2> QED
    BY <2>2, <2>3
<1> QED
  BY <1>1, <1>2 DEF Accounted

(* The launches and the processes about to launch are paid by claim files: *)
(* the inductive invariant of the next two theorems.                       *)
THEOREM ClaimsAccount == Spec => []Accounted
<1>1. TypeOK /\ TypeOK' /\ Accounted /\ [Next]_vars => Accounted'
  BY AccountedStep
<1> QED
  BY <1>1, AccountedInit, TypeCorrect, PTL DEF Spec

(* However many supervisors and bridges find a rejection, wherever they    *)
(* are killed, and whatever expires, is closed and reopened: each launch   *)
(* of a rejection has had a claim file of its own.                         *)
THEOREM LaunchedOncePerClaimAlways == Spec => []LaunchedOncePerClaim
<1>1. TypeOK /\ Accounted => LaunchedOncePerClaim
  <2> SUFFICES ASSUME TypeOK, Accounted, NEW n \in Triggers
               PROVE  launched[n] <= removed[n] + Standing(n)
    BY DEF LaunchedOncePerClaim
  <2>1. /\ launched[n] \in Nat /\ removed[n] \in Nat /\ Standing(n) \in Nat
        /\ launched[n] + Cardinality(Owners(n)) <= removed[n] + Standing(n)
    BY DEF TypeOK, Standing, Accounted, Worth
  <2>2. Cardinality(Owners(n)) \in Nat
    <3>1. IsFiniteSet(Processes) /\ Owners(n) \in SUBSET Processes
      BY RequeueAssumption, FS_Union DEF Processes, Owners
    <3> QED
      BY <3>1, FS_Subset, FS_CardinalityType
  <2> QED
    BY <2>1, <2>2
<1> QED
  BY <1>1, TypeCorrect, ClaimsAccount, PTL

(* One at a time is between its claim and the end of the launch, unless    *)
(* the claim file was removed.                                             *)
THEOREM OneRelauncherAlways == Spec => []OneRelauncher
<1>1. TypeOK /\ Accounted => OneRelauncher
  <2> SUFFICES ASSUME TypeOK, Accounted, NEW n \in Triggers,
                      NEW p \in Processes, NEW q \in Processes,
                      Relaunching(p, n), Relaunching(q, n), removed[n] = 0, p # q
               PROVE  FALSE
    BY DEF OneRelauncher
  <2>1. /\ Owners(n) \in SUBSET Processes /\ Reporters(n) \in SUBSET Processes
        /\ p \in Owners(n) \/ p \in Reporters(n)
        /\ q \in Owners(n) \/ q \in Reporters(n)
    BY DEF Owners, Reporters, Relaunching, OwnPlaces
  <2>2. /\ launched[n] \in Nat
        /\ launched[n] + Cardinality(Owners(n)) <= 1
        /\ Cardinality(Reporters(n)) <= launched[n]
    <3>1. launched[n] \in Nat
      BY DEF TypeOK
    <3>2. Worth(n) <= 1
      BY DEF Worth, Standing
    <3>3. /\ launched[n] + Cardinality(Owners(n)) <= Worth(n)
          /\ Cardinality(Reporters(n)) <= launched[n]
      BY DEF Accounted
    <3>4. Worth(n) \in Nat
      BY DEF Worth, Standing
    <3>5. Cardinality(Owners(n)) \in Nat
      BY <2>1, Sizes
    <3> QED
      BY <3>1, <3>2, <3>3, <3>4, <3>5
  <2>3. /\ Cardinality(Owners(n)) \in Nat /\ Cardinality(Reporters(n)) \in Nat
    BY <2>1, Sizes
  <2>4. ASSUME NEW S \in SUBSET Processes, p \in S, q \in S
        PROVE  Cardinality(S) >= 2
    <3>1. /\ Cardinality({}) + 1 <= Cardinality({ p })
          /\ Cardinality({ p }) + 1 <= Cardinality(S)
      <4>1. { p } \in SUBSET Processes /\ {} \in SUBSET Processes
        OBVIOUS
      <4>2. p \in { p } /\ {} \subseteq { p } \ { p }
        OBVIOUS
      <4>3. q \in S /\ { p } \subseteq S \ { q }
        BY <2>4
      <4> QED
        BY <4>1, <4>2, <4>3, Sizes
    <3>2. Cardinality({}) \in Nat /\ Cardinality({ p }) \in Nat /\ Cardinality(S) \in Nat
      BY Sizes
    <3> QED
      BY <3>1, <3>2
  <2>5. ASSUME NEW S \in SUBSET Processes, NEW r \in S
        PROVE  Cardinality(S) >= 1
    <3>1. Cardinality({}) + 1 <= Cardinality(S) /\ Cardinality({}) \in Nat
      BY Sizes
    <3>2. Cardinality(S) \in Nat
      BY Sizes
    <3> QED
      BY <3>1, <3>2
  <2>6. CASE p \in Owners(n) /\ q \in Owners(n)
    BY <2>1, <2>2, <2>3, <2>4, <2>6
  <2>7. CASE p \in Reporters(n) /\ q \in Reporters(n)
    <3>1. Cardinality(Reporters(n)) >= 2
      BY <2>1, <2>4, <2>7
    <3> QED
      BY <2>2, <2>3, <3>1
  <2>8. CASE \/ p \in Owners(n) /\ q \in Reporters(n)
             \/ q \in Owners(n) /\ p \in Reporters(n)
    <3>1. Cardinality(Owners(n)) >= 1 /\ Cardinality(Reporters(n)) >= 1
      BY <2>1, <2>5, <2>8
    <3> QED
      BY <2>2, <2>3, <3>1
  <2> QED
    BY <2>1, <2>6, <2>7, <2>8
<1> QED
  BY <1>1, TypeCorrect, ClaimsAccount, PTL
-----------------------------------------------------------------------------
(* What the state file remembers.  Before the bridge comes by, a single    *)
(* supervisor and the commands that close the ticket are the only ones to  *)
(* write the file; from the check of the watermark to the save of the next *)
(* one nobody moves it up.  Expired claims, kills and reopened tickets     *)
(* make no difference to that.                                             *)

(* From the check of the watermark to the save of the new one. *)
Asking == { "claim", "stat", "check", "mark", "unlink", "recreate", "unmark",
            "fail", "won", "save" }

(* Between a load of the state file and a save. *)
Saving == { "boot", "advance", "save", "synced" }

(* One launch is on its way. *)
Pending(n) == IF \E p \in Processes : at[p] = "relaunch" /\ todo[p] = n THEN 1 ELSE 0

(* A file that is not there reads as its defaults, and whoever has found   *)
(* none has not written one since.                                         *)
Absent ==
  /\ ~file.there => file.watermark = 0
  /\ \A p \in Processes : at[p] \in Saving /\ ~read[p].there =>
       file.watermark = 0 /\ read[p].watermark = 0

Spent == \A n \in Triggers : launched[n] + Pending(n) <= cleared + Behind(n)

Remembered ==
  /\ \A p \in Rescuers : at[p] = "down"
  /\ Absent
  /\ \A p \in Processes : at[p] \in Asking => todo[p] > file.watermark
  /\ Spent

Remembers == Undivided => Remembered

(* The numbers are numbers. *)
LEMMA Numbers ==
  ASSUME TypeOK
  PROVE  /\ file.watermark \in Nat /\ cleared \in Nat /\ changes \in Nat
         /\ \A n \in Triggers : launched[n] \in Nat /\ n \in Nat /\ n > 0
         /\ \A p \in Processes : todo[p] \in Nat /\ read[p].watermark \in Nat
<1>1. /\ file \in StateFile /\ changes \in 0..MaxChanges /\ cleared \in Nat
      /\ read \in [Processes -> StateFile] /\ todo \in [Processes -> 0..MaxChanges]
      /\ launched \in [Triggers -> Nat] /\ MaxChanges \in Nat
  BY RequeueAssumption DEF TypeOK
<1>2. \A f \in StateFile : f.watermark \in 0..MaxChanges
  BY DEF StateFile
<1>3. \A i \in 0..MaxChanges : i \in Nat
  BY <1>1
<1>4. \A n \in Triggers : n \in Nat /\ n > 0
  BY <1>1 DEF Triggers
<1>5. file.watermark \in Nat /\ changes \in Nat
  BY <1>1, <1>2, <1>3
<1>6. \A p \in Processes : todo[p] \in Nat /\ read[p].watermark \in Nat
  <2> SUFFICES ASSUME NEW p \in Processes
               PROVE  todo[p] \in Nat /\ read[p].watermark \in Nat
    OBVIOUS
  <2>1. todo[p] \in 0..MaxChanges /\ read[p] \in StateFile
    BY <1>1
  <2> QED
    BY <2>1, <1>2, <1>3
<1> QED
  BY <1>1, <1>4, <1>5, <1>6

(* Only the supervisor runs. *)
LEMMA Lonely ==
  ASSUME Undivided, TypeOK, Remembered, NEW p \in Processes, at[p] # "down"
  PROVE  p \in Loopers /\ \A q \in Processes : q = p \/ at[q] = "down"
BY DEF Undivided, Remembered, Processes

(* What the others do, closing apart, keeps it. *)
LEMMA WorldKeepsRemembered ==
  ASSUME Remembered, UNCHANGED << file, launched, at, todo, read, cleared >>
  PROVE  Remembered'
BY DEF Remembered, Absent, Spent, Pending, Behind

(* A close of the ticket takes the watermark away, and is counted. *)
LEMMA ResetKeepsRemembered ==
  ASSUME TypeOK, TypeOK', Remembered, file'.watermark = 0, cleared' = cleared + 1,
         UNCHANGED << launched, at, todo, read >>
  PROVE  Remembered'
<1>1. \A p \in Processes : at'[p] \in Asking => todo'[p] > file'.watermark
  BY Numbers DEF Remembered
<1>2. Absent'
  BY DEF Remembered, Absent
<1>3. Spent'
  <2> SUFFICES ASSUME NEW n \in Triggers
               PROVE  launched[n] + Pending(n) <= cleared' + Behind(n)'
    BY DEF Spent, Pending
  <2>1. Behind(n) <= 1 /\ Behind(n)' = 0 /\ Behind(n) \in Nat
    BY Numbers DEF Behind
  <2>2. launched[n] + Pending(n) <= cleared + Behind(n)
    BY DEF Remembered, Spent
  <2>3. launched[n] \in Nat /\ cleared \in Nat /\ Pending(n) \in Nat
    BY Numbers DEF Pending
  <2> QED
    BY <2>1, <2>2, <2>3
<1> QED
  BY <1>1, <1>2, <1>3 DEF Remembered

(* A step of the supervisor to a place outside the requeue, that leaves    *)
(* the watermark as it is.                                                 *)
LEMMA OutsideKeepsRemembered ==
  ASSUME TypeOK, Remembered, NEW p \in Loopers, NEW x, GoTo(p, x),
         x \notin Asking, x # "relaunch",
         \A q \in Processes : q = p \/ at[q] = "down",
         file'.watermark = file.watermark,
         ~file'.there => file' = file,
         x \in Saving => file' = file /\ read'[p] = file,
         UNCHANGED << launched, cleared >>
  PROVE  Remembered'
<1>1. p \notin Rescuers /\ p \in Processes
  BY RequeueAssumption DEF Processes
<1>2. \A q \in Processes : at'[q] = IF q = p THEN x ELSE "down"
  BY <1>1 DEF GoTo, TypeOK
<1>3. \A q \in Processes : at'[q] \notin Asking /\ at'[q] # "relaunch"
  BY <1>2 DEF Asking
<1>4. \A q \in Rescuers : at'[q] = "down"
  BY <1>1, <1>2 DEF Processes
<1>5. Absent'
  <2>1. \A q \in Processes : at'[q] \in Saving => q = p /\ x \in Saving
    BY <1>2 DEF Saving
  <2> QED
    BY <2>1 DEF Remembered, Absent
<1>6. Spent'
  <2> SUFFICES ASSUME NEW n \in Triggers
               PROVE  launched[n] + Pending(n)' <= cleared + Behind(n)
    BY DEF Spent, Behind
  <2>1. Pending(n)' = 0
    BY <1>3 DEF Pending
  <2>2. launched[n] + Pending(n) <= cleared + Behind(n)
    BY DEF Remembered, Spent
  <2>3. /\ launched[n] \in Nat /\ cleared \in Nat
        /\ Pending(n) \in Nat /\ Behind(n) \in Nat
    BY Numbers DEF Pending, Behind
  <2> QED
    BY <2>1, <2>2, <2>3
<1> QED
  BY <1>3, <1>4, <1>5, <1>6 DEF Remembered

(* The supervisor finishes a requeue, or ends with an exception. *)
LEMMA LeaveKeepsRemembered ==
  ASSUME TypeOK, Remembered, NEW p \in Loopers, Leave(p) \/ Raise(p),
         \A q \in Processes : q = p \/ at[q] = "down",
         UNCHANGED << file, launched, cleared >>
  PROVE  Remembered'
<1>1. PICK x \in { "clear", "loop", "down" } : GoTo(p, x)
  BY DEF Leave, AfterRound, Raise
<1>2. x \notin Asking /\ x \notin Saving /\ x # "relaunch"
  BY DEF Asking, Saving
<1> QED
  BY <1>1, <1>2, OutsideKeepsRemembered

(* The supervisor goes on with its requeue, or begins one. *)
LEMMA AskingKeepsRemembered ==
  ASSUME TypeOK, Remembered, NEW p \in Loopers, NEW x \in Asking, GoTo(p, x),
         \A q \in Processes : q = p \/ at[q] = "down",
         todo'[p] > file.watermark,
         x = "save" => read'[p] = file,
         UNCHANGED << file, launched, cleared >>
  PROVE  Remembered'
<1>1. p \notin Rescuers /\ p \in Processes
  BY RequeueAssumption DEF Processes
<1>2. \A q \in Processes : at'[q] = IF q = p THEN x ELSE "down"
  BY <1>1 DEF GoTo, TypeOK
<1>3. \A q \in Processes : at'[q] # "relaunch" /\ (at'[q] \in Asking => q = p)
  BY <1>2 DEF Asking
<1>4. \A q \in Rescuers : at'[q] = "down"
  BY <1>1, <1>2 DEF Processes
<1>5. Absent'
  <2>1. \A q \in Processes : at'[q] \in Saving => q = p /\ x = "save"
    BY <1>2 DEF Saving, Asking
  <2> QED
    BY <2>1 DEF Remembered, Absent
<1>6. Spent'
  <2> SUFFICES ASSUME NEW n \in Triggers
               PROVE  launched[n] + Pending(n)' <= cleared + Behind(n)
    BY DEF Spent, Behind
  <2>1. Pending(n)' = 0
    BY <1>3 DEF Pending
  <2>2. launched[n] + Pending(n) <= cleared + Behind(n)
    BY DEF Remembered, Spent
  <2>3. /\ launched[n] \in Nat /\ cleared \in Nat
        /\ Pending(n) \in Nat /\ Behind(n) \in Nat
    BY Numbers DEF Pending, Behind
  <2> QED
    BY <2>1, <2>2, <2>3
<1> QED
  BY <1>3, <1>4, <1>5, <1>6 DEF Remembered

(* A save of the cursor leaves the watermark as it is, or raises. *)
LEMMA CursorKeepsRemembered ==
  ASSUME TypeOK, Remembered, NEW p \in Loopers, NEW f, NEW x,
         x \notin Asking, x \notin Saving, x # "relaunch", at[p] \in Saving,
         SaveFile(p, f, x), f.watermark = read[p].watermark, f.there,
         \A q \in Processes : q = p \/ at[q] = "down",
         UNCHANGED << launched, cleared >>
  PROVE  Remembered' /\ file'.watermark >= file.watermark
<1>1. p \in Processes /\ file.watermark \in Nat
  BY Numbers DEF Processes
<1>2. "down" \notin Asking /\ "down" \notin Saving
  BY DEF Asking, Saving
<1>3. CASE file = read[p] \/ ~read[p].there
  <2>1. file' = f /\ GoTo(p, x)
    BY <1>3 DEF SaveFile
  <2>2. read[p].watermark = file.watermark
    BY <1>1, <1>3 DEF Remembered, Absent
  <2>3. Remembered'
    BY <2>1, <2>2, OutsideKeepsRemembered
  <2> QED
    BY <1>1, <2>1, <2>2, <2>3
<1>4. CASE ~(file = read[p] \/ ~read[p].there)
  <2>1. file' = file /\ GoTo(p, "down")
    BY <1>4 DEF SaveFile, Raise
  <2> QED
    BY <1>1, <1>2, <2>1, OutsideKeepsRemembered
<1> QED
  BY <1>3, <1>4

(* The save of a requeue moves the watermark up to its trigger. *)
LEMMA SaveKeepsRemembered ==
  ASSUME TypeOK, Remembered, NEW p \in Loopers, Save(p),
         \A q \in Processes : q = p \/ at[q] = "down"
  PROVE  Remembered' /\ file'.watermark >= file.watermark
<1>1. /\ p \notin Rescuers /\ p \in Processes
      /\ at[p] = "save" /\ "save" \in Asking /\ "save" # "relaunch"
      /\ todo[p] \in Nat /\ file.watermark \in Nat
      /\ UNCHANGED << launched, todo, cleared, read >>
      /\ "relaunch" \notin Asking /\ "relaunch" \notin Saving
  BY RequeueAssumption, Numbers
     DEF Processes, Save, Asking, Saving, history, processes
<1>2. todo[p] > file.watermark
  BY <1>1 DEF Remembered
<1>3. CASE file = read[p] \/ ~read[p].there
  <2>0. file' = Requeued(read[p], todo[p]) /\ GoTo(p, "relaunch")
    BY <1>3 DEF Save, SaveFile
  <2>1. file'.watermark = todo[p] /\ file'.there
    BY <2>0, <1>1 DEF Requeued, TypeOK, StateFile
  <2>2. \A q \in Processes : at'[q] = IF q = p THEN "relaunch" ELSE "down"
    BY <1>1, <2>0 DEF GoTo, TypeOK
  <2>3. \A q \in Processes : at'[q] \notin Asking /\ at'[q] \notin Saving
    BY <2>2 DEF Asking, Saving
  <2>4. \A q \in Rescuers : at'[q] = "down"
    BY <1>1, <2>2 DEF Processes
  <2>5. Absent'
    BY <2>1, <2>3 DEF Absent
  <2>6. Spent'
    <3> SUFFICES ASSUME NEW n \in Triggers
                 PROVE  launched[n] + Pending(n)' <= cleared + Behind(n)'
      BY <1>1 DEF Spent
    <3>1. launched[n] + Pending(n) <= cleared + Behind(n)
      BY DEF Remembered, Spent
    <3>2. /\ launched[n] \in Nat /\ cleared \in Nat /\ n \in Nat
          /\ Pending(n) \in Nat /\ Behind(n) \in Nat
      BY Numbers DEF Pending, Behind
    <3>3. CASE n = todo[p]
      <4>1. Behind(n) = 0 /\ Behind(n)' = 1
        BY <1>1, <1>2, <2>1, <3>3 DEF Behind
      <4>2. Pending(n)' <= 1 /\ Pending(n)' \in Nat
        BY DEF Pending
      <4> QED
        BY <3>1, <3>2, <4>1, <4>2
    <3>4. CASE n # todo[p]
      <4>1. Pending(n)' = 0
        BY <1>1, <2>2, <3>4 DEF Pending
      <4>2. Behind(n) <= Behind(n)' /\ Behind(n)' \in Nat
        BY <1>1, <1>2, <2>1, <3>2 DEF Behind
      <4> QED
        BY <3>1, <3>2, <4>1, <4>2
    <3> QED
      BY <3>3, <3>4
  <2> QED
    BY <1>1, <1>2, <2>1, <2>3, <2>4, <2>5, <2>6 DEF Remembered
<1>4. CASE ~(file = read[p] \/ ~read[p].there)
  <2>1. file' = file /\ Raise(p)
    BY <1>4 DEF Save, SaveFile
  <2> QED
    BY <1>1, <2>1, LeaveKeepsRemembered
<1> QED
  BY <1>3, <1>4

(* The launch that was on its way. *)
LEMMA RelaunchKeepsRemembered ==
  ASSUME TypeOK, Remembered, NEW p \in Loopers, Relaunch(p),
         \A q \in Processes : q = p \/ at[q] = "down"
  PROVE  Remembered'
<1>1. /\ p \notin Rescuers /\ p \in Processes
      /\ at[p] = "relaunch"
      /\ UNCHANGED << file, todo, cleared, read >>
  BY RequeueAssumption DEF Processes, Relaunch
<1>3. CASE Leave(p) /\ launched' = launched
  BY <1>1, <1>3, LeaveKeepsRemembered
<1>4. CASE /\ launched' = [launched EXCEPT ![todo[p]] = @ + 1]
           /\ GoTo(p, "report")
  <2>1. \A q \in Processes : at'[q] = IF q = p THEN "report" ELSE "down"
    BY <1>1, <1>4 DEF GoTo, TypeOK
  <2>2. \A q \in Processes : at'[q] \notin Asking /\ at'[q] \notin Saving
    BY <2>1 DEF Asking, Saving
  <2>3. \A q \in Rescuers : at'[q] = "down"
    BY <1>1, <2>1 DEF Processes
  <2>4. Absent'
    BY <1>1, <2>2 DEF Remembered, Absent
  <2>5. Spent'
    <3> SUFFICES ASSUME NEW n \in Triggers
                 PROVE  launched'[n] + Pending(n)' <= cleared + Behind(n)
      BY <1>1 DEF Spent, Behind
    <3>1. launched[n] + Pending(n) <= cleared + Behind(n)
      BY DEF Remembered, Spent
    <3>2. /\ launched[n] \in Nat /\ cleared \in Nat
          /\ Pending(n) \in Nat /\ Behind(n) \in Nat
      BY Numbers DEF Pending, Behind
    <3>3. Pending(n)' = 0
      BY <2>1 DEF Pending
    <3>4. CASE n = todo[p]
      <4>1. Pending(n) = 1
        BY <1>1, <3>4 DEF Pending
      <4>2. launched'[n] = launched[n] + 1
        BY <1>4, <3>4 DEF TypeOK
      <4> QED
        BY <3>1, <3>2, <3>3, <4>1, <4>2
    <3>5. CASE n # todo[p]
      <4>1. launched'[n] = launched[n]
        BY <1>4, <3>5 DEF TypeOK
      <4> QED
        BY <3>1, <3>2, <3>3, <4>1
    <3> QED
      BY <3>4, <3>5
  <2> QED
    BY <1>1, <2>2, <2>3, <2>4, <2>5 DEF Remembered
<1> QED
  BY <1>3, <1>4 DEF Relaunch

(* A step of a running supervisor. *)
LEMMA WorkKeepsRemembered ==
  ASSUME TypeOK, Remembered, NEW p \in Loopers, Work(p),
         \A q \in Processes : q = p \/ at[q] = "down"
  PROVE  Remembered' /\ file'.watermark >= file.watermark
<1> USE DEF world, files, processes, bounds, history
<1>a. /\ p \notin Rescuers /\ p \in Processes
      /\ at \in [Processes -> Places] /\ todo \in [Processes -> 0..MaxChanges]
      /\ read \in [Processes -> StateFile]
      /\ file.watermark \in Nat /\ changes \in Nat
  BY RequeueAssumption, Numbers DEF Processes, TypeOK
<1>b. /\ \A x \in { "look", "loop", "process", "decide", "down", "clear" } :
           x \notin Asking /\ x \notin Saving /\ x # "relaunch"
      /\ \A x \in { "boot", "advance", "synced" } :
           x \notin Asking /\ x \in Saving /\ x # "relaunch"
      /\ \A x \in { "claim", "stat", "check", "mark", "unlink", "recreate",
                     "unmark", "fail", "won" } : x \in Asking /\ x # "save"
      /\ "save" \in Asking
  BY DEF Asking, Saving
<1>c. at[p] \in Asking => todo[p] > file.watermark
  BY <1>a DEF Remembered
<1>d. file' = file => file'.watermark >= file.watermark
  BY <1>a
<1>e. /\ CaughtUp(read[p]).watermark = read[p].watermark /\ CaughtUp(read[p]).there
      /\ Synced(read[p], todo[p]).watermark = read[p].watermark
      /\ Synced(read[p], todo[p]).there
  BY <1>a DEF CaughtUp, Synced, StateFile
<1>1. CASE Reconcile(p)
  <2>1. CASE file' = file /\ GoTo(p, "look")
    BY <1>1, <1>b, <1>d, <2>1, OutsideKeepsRemembered DEF Reconcile
  <2>2. CASE SaveFile(p, CaughtUp(read[p]), "look")
    BY <1>1, <1>b, <1>e, <2>2, CursorKeepsRemembered DEF Reconcile
  <2> QED
    BY <1>1, <2>1, <2>2 DEF Reconcile
<1>2. CASE BootRequeue(p)
  <2>1. CASE /\ changes > file.watermark
             /\ todo' = [todo EXCEPT ![p] = changes]
             /\ GoTo(p, "claim")
    <3>1. todo'[p] > file.watermark
      BY <1>a, <2>1
    <3> QED
      BY <1>2, <1>a, <1>b, <1>d, <2>1, <3>1, AskingKeepsRemembered DEF BootRequeue
  <2>2. CASE Leave(p)
    BY <1>2, <1>d, <2>2, LeaveKeepsRemembered DEF BootRequeue
  <2> QED
    BY <1>2, <2>1, <2>2 DEF BootRequeue
<1>3. CASE ClearTerminal(p)
  BY <1>3, <1>b, <1>d, OutsideKeepsRemembered DEF ClearTerminal, Raise
<1>4. CASE LoopRead(p)
  BY <1>4, <1>b, <1>d, OutsideKeepsRemembered DEF LoopRead
<1>5. CASE ProcessLoad(p)
  <2>1. read'[p] = file
    BY <1>5, <1>a DEF ProcessLoad
  <2> QED
    BY <1>5, <1>b, <1>d, <2>1, OutsideKeepsRemembered DEF ProcessLoad
<1>6. CASE ProcessSave(p)
  <2>1. CASE file' = file /\ GoTo(p, "decide")
    BY <1>6, <1>b, <1>d, <2>1, OutsideKeepsRemembered DEF ProcessSave
  <2>2. CASE SaveFile(p, CaughtUp(read[p]), "decide")
    BY <1>6, <1>b, <1>e, <2>2, CursorKeepsRemembered DEF ProcessSave
  <2> QED
    BY <1>6, <2>1, <2>2 DEF ProcessSave
<1>7. CASE LoopDecide(p)
  <2>1. CASE todo[p] > file.watermark /\ GoTo(p, "claim")
    BY <1>7, <1>a, <1>b, <1>d, <2>1, AskingKeepsRemembered DEF LoopDecide
  <2>2. CASE Leave(p)
    BY <1>7, <1>d, <2>2, LeaveKeepsRemembered DEF LoopDecide
  <2> QED
    BY <1>7, <2>1, <2>2 DEF LoopDecide
<1>8. CASE SyncLoad(p)
  <2>1. read'[p] = file
    BY <1>8, <1>a DEF SyncLoad
  <2>2. PICK x \in { "synced", "down" } : GoTo(p, x)
    BY <1>8 DEF SyncLoad
  <2> QED
    BY <1>8, <1>b, <1>d, <2>1, <2>2, OutsideKeepsRemembered DEF SyncLoad
<1>20. CASE SyncSave(p)
  BY <1>20, <1>b, <1>e, CursorKeepsRemembered DEF SyncSave
<1>9. CASE Create(p)
  BY <1>9, <1>b, <1>c, <1>d, AskingKeepsRemembered DEF Create
<1>10. CASE Stat(p)
  BY <1>10, <1>b, <1>c, <1>d, AskingKeepsRemembered, LeaveKeepsRemembered DEF Stat
<1>11. CASE Check(p)
  BY <1>11, <1>b, <1>c, <1>d, AskingKeepsRemembered, LeaveKeepsRemembered DEF Check
<1>12. CASE Mark(p)
  BY <1>12, <1>b, <1>c, <1>d, AskingKeepsRemembered, LeaveKeepsRemembered DEF Mark
<1>13. CASE Unlink(p)
  <2>1. PICK x \in { "fail", "recreate" } : GoTo(p, x)
    BY <1>13 DEF Unlink
  <2> QED
    BY <1>13, <1>b, <1>c, <1>d, <2>1, AskingKeepsRemembered DEF Unlink
<1>14. CASE Recreate(p)
  BY <1>14, <1>b, <1>c, <1>d, AskingKeepsRemembered DEF Recreate
<1>15. CASE Unmark(p)
  BY <1>15, <1>b, <1>c, <1>d, AskingKeepsRemembered, LeaveKeepsRemembered
     DEF Unmark
<1>16. CASE Load(p)
  <2>1. read'[p] = file
    BY <1>16, <1>a DEF Load
  <2> QED
    BY <1>16, <1>b, <1>c, <1>d, <2>1, AskingKeepsRemembered, LeaveKeepsRemembered
       DEF Load
<1>17. CASE Save(p)
  BY <1>17, SaveKeepsRemembered
<1>18. CASE Relaunch(p)
  BY <1>18, <1>d, RelaunchKeepsRemembered DEF Relaunch
<1>19. CASE Report(p)
  BY <1>19, <1>d, LeaveKeepsRemembered DEF Report
<1> QED
  BY <1>1, <1>2, <1>3, <1>4, <1>5, <1>6, <1>7, <1>8, <1>9, <1>10, <1>11, <1>12,
     <1>13, <1>14, <1>15, <1>16, <1>17, <1>18, <1>19, <1>20 DEF Work

(* The bridge's visits are never taken back. *)
LEMMA VisitsStay ==
  ASSUME TypeOK, [Next]_vars, visits # 0 PROVE visits' # 0
<1> USE DEF world, files, processes, bounds, history
<1>1. visits \in Nat
  BY RequeueAssumption DEF TypeOK
<1>2. CASE Environment
  BY <1>2 DEF Environment, Closing, Reject, MarkReady, Escalate, Resume, Reopen,
              HandoffBlocked, BuilderLost, Expire, Approve, ForceClose, Close,
              ClearAuxiliary, DiscardClaims, ResetState
<1>3. ASSUME NEW p \in Processes, Start(p) \/ SyncRead(p) \/ Crash(p)
      PROVE  visits' # 0
  BY <1>1, <1>3 DEF Start, SyncRead, Crash, ComesBy
<1>4. ASSUME NEW p \in Processes, Work(p) PROVE visits' = visits
  BY <1>4 DEF Work, Reconcile, BootRequeue, ClearTerminal, LoopRead,
              ProcessLoad, ProcessSave, LoopDecide, SyncLoad, SyncSave,
              Create, Stat, Check, Mark, Unlink, Recreate, Unmark, Load, Save,
              Relaunch, Report
<1>5. CASE UNCHANGED vars
  BY <1>5 DEF vars
<1> QED
  BY <1>2, <1>3, <1>4, <1>5 DEF Next

(* The step with which a bridge comes by first changes no file. *)
LEMMA VisitsCome ==
  ASSUME TypeOK, [Next]_vars, visits = 0, visits' # 0 PROVE file' = file
<1> USE DEF world, files, processes, bounds, history
<1>1. CASE Environment
  BY <1>1 DEF Environment, Closing, Reject, MarkReady, Escalate, Resume, Reopen,
              HandoffBlocked, BuilderLost, Expire, Approve, ForceClose, Close,
              ClearAuxiliary, DiscardClaims, ResetState
<1>2. ASSUME NEW p \in Processes, Start(p) \/ SyncRead(p) \/ Crash(p)
      PROVE  file' = file
  BY <1>2 DEF Start, SyncRead, Crash
<1>3. ASSUME NEW p \in Processes, Work(p) PROVE visits' = visits
  BY <1>3 DEF Work, Reconcile, BootRequeue, ClearTerminal, LoopRead,
              ProcessLoad, ProcessSave, LoopDecide, SyncLoad, SyncSave,
              Create, Stat, Check, Mark, Unlink, Recreate, Unmark, Load, Save,
              Relaunch, Report
<1>4. CASE UNCHANGED vars
  BY <1>4 DEF vars
<1> QED
  BY <1>1, <1>2, <1>3, <1>4 DEF Next

(* Every step keeps what is remembered; none but a close of the ticket     *)
(* moves the watermark down.                                               *)
LEMMA RememberedStep ==
  ASSUME TypeOK, TypeOK', Remembered, [Next]_vars, Undivided, visits' = 0
  PROVE  /\ Remembered'
         /\ cleared' = cleared => file'.watermark >= file.watermark
<1> USE DEF world, files, processes, bounds, history
<1>a. file.watermark \in Nat /\ cleared \in Nat
  BY Numbers
<1>b. file' = file => file'.watermark >= file.watermark
  BY <1>a
<1>1. CASE Environment
  <2>1. CASE ClearAuxiliary \/ ResetState
    <3>1. /\ file'.watermark = 0 /\ cleared' = cleared + 1 /\ cleared' # cleared
          /\ UNCHANGED << launched, at, todo, read >>
      BY <1>a, <2>1 DEF ClearAuxiliary, ResetState, Missing
    <3> QED
      BY <3>1, ResetKeepsRemembered
  <2>2. CASE ~(ClearAuxiliary \/ ResetState)
    <3>1. UNCHANGED << file, launched, at, todo, read, cleared >>
      BY <1>1, <2>2 DEF Environment, Closing, Reject, MarkReady, Escalate, Resume,
                  Reopen, HandoffBlocked, BuilderLost, Expire, Approve,
                  ForceClose, Close, DiscardClaims
    <3> QED
      BY <1>b, <3>1, WorldKeepsRemembered
  <2> QED
    BY <2>1, <2>2
<1>2. ASSUME NEW p \in Processes, Start(p)
      PROVE  Remembered' /\ file'.watermark >= file.watermark
  <2>1. p \in Loopers
    BY <1>2 DEF Start, ComesBy, Undivided, Processes
  <2>2. \A q \in Processes : q = p \/ at[q] = "down"
    BY <2>1 DEF Undivided, Remembered, Processes
  <2>3. "boot" \notin Asking /\ "boot" # "relaunch"
    BY DEF Asking
  <2>4. read'[p] = file /\ UNCHANGED << file, launched, cleared >> /\ GoTo(p, "boot")
    BY <1>2 DEF Start, TypeOK
  <2> QED
    BY <1>b, <2>1, <2>2, <2>3, <2>4, OutsideKeepsRemembered
<1>3. ASSUME NEW p \in Processes, SyncRead(p) PROVE FALSE
  BY <1>3 DEF SyncRead, ComesBy, Undivided
<1>4. ASSUME NEW p \in Processes, Work(p)
      PROVE  Remembered' /\ file'.watermark >= file.watermark
  <2>1. at[p] # "down"
    BY <1>4 DEF Work, Reconcile, BootRequeue, ClearTerminal, LoopRead,
                ProcessLoad, ProcessSave, LoopDecide, SyncLoad, SyncSave,
                Create, Stat, Check, Mark, Unlink, Recreate, Unmark, Load,
                Save, Relaunch, Report
  <2>2. p \in Loopers /\ \A q \in Processes : q = p \/ at[q] = "down"
    BY <2>1, Lonely
  <2> QED
    BY <1>4, <2>2, WorkKeepsRemembered
<1>5. ASSUME NEW p \in Processes, Crash(p)
      PROVE  Remembered' /\ file'.watermark >= file.watermark
  <2>1. p \in Loopers /\ \A q \in Processes : q = p \/ at[q] = "down"
    BY <1>5, Lonely DEF Crash
  <2> QED
    BY <1>5, <1>b, <2>1, LeaveKeepsRemembered DEF Crash, Raise
<1>6. CASE UNCHANGED vars
  BY <1>6, <1>b, WorldKeepsRemembered DEF vars
<1> QED
  BY <1>1, <1>2, <1>3, <1>4, <1>5, <1>6 DEF Next

(* As long as no bridge came by, a single supervisor's launches are behind *)
(* the watermark: after kills, expired claims, closes and reopenings.      *)
THEOREM RemembersAlways == Spec => []Remembers
<1>1. Init => Remembers
  <2> SUFFICES ASSUME Init PROVE Remembered
    BY DEF Remembers
  <2>1. Absent
    BY DEF Init, Absent, Missing, Saving
  <2>2. Spent
    BY DEF Init, Spent, Pending, Behind
  <2> QED
    BY <2>1, <2>2 DEF Init, Remembered, Asking, Processes
<1>2. TypeOK /\ TypeOK' /\ Remembers /\ [Next]_vars => Remembers'
  <2> SUFFICES ASSUME TypeOK, TypeOK', Remembers, [Next]_vars, Undivided'
               PROVE  Remembered'
    BY DEF Remembers
  <2>1. visits' = 0 /\ visits = 0
    BY VisitsStay DEF Undivided
  <2>2. Undivided
    BY <2>1 DEF Undivided
  <2> QED
    BY <2>1, <2>2, RememberedStep DEF Remembers
<1> QED
  BY <1>1, <1>2, TypeCorrect, PTL DEF Spec

(* No save of a single supervisor brings an older watermark back. *)
THEOREM WatermarkOnlyGrows == Spec => WatermarkGrows
<1>1. TypeOK /\ TypeOK' /\ Remembers /\ [Next]_vars
        => [ Undivided /\ cleared' = cleared => file'.watermark >= file.watermark ]_vars
  <2> SUFFICES ASSUME TypeOK, TypeOK', Remembers, [Next]_vars, Undivided,
                      cleared' = cleared
               PROVE  file'.watermark >= file.watermark
    OBVIOUS
  <2>0. file.watermark \in Nat
    BY Numbers
  <2>1. CASE visits' = 0
    BY <2>1, RememberedStep DEF Remembers
  <2>2. CASE visits' # 0
    <3>1. file' = file
      BY <2>2, VisitsCome DEF Undivided
    <3> QED
      BY <2>0, <3>1
  <2> QED
    BY <2>1, <2>2
<1> QED
  BY <1>1, TypeCorrect, RemembersAlways, PTL DEF Spec, WatermarkGrows

(* What a single supervisor launched is launched again only after a close  *)
(* of the ticket has taken the state file away.                            *)
THEOREM LaunchedIsRememberedAlways == Spec => []LaunchedIsRemembered
<1>1. TypeOK /\ Remembers => LaunchedIsRemembered
  <2> SUFFICES ASSUME TypeOK, Remembers, Undivided, NEW n \in Triggers
               PROVE  launched[n] <= cleared + Behind(n)
    BY DEF LaunchedIsRemembered
  <2>1. launched[n] + Pending(n) <= cleared + Behind(n)
    BY DEF Remembers, Remembered, Spent
  <2>2. /\ launched[n] \in Nat /\ cleared \in Nat
        /\ Pending(n) \in Nat /\ Behind(n) \in Nat
    BY Numbers DEF Pending, Behind
  <2> QED
    BY <2>1, <2>2
<1> QED
  BY <1>1, TypeCorrect, RemembersAlways, PTL
=============================================================================
