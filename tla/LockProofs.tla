----------------------------- MODULE LockProofs -----------------------------
(***************************************************************************)
(* Proofs about the lock files, for any set of processes:                  *)
(* supervisor_lock.txt, the session scratch lock with its takeover marker, *)
(* and the write lock of an artifact with the write it guards.  Files has  *)
(* each of them as a scene; these are about the component of the scene     *)
(* alone.                                                                  *)
(***************************************************************************)
EXTENDS Files, TLAPS

Lock == [ by : Processes, filled : BOOLEAN ] \cup { Supervisor!NoLock }

(* As long as no live process has lost its lock, whoever holds it is named *)
(* in the file.                                                            *)
SupervisorHolderNamed == causes = {} => \A p \in Supervisor!Holders :
  lock.by = p

(* Nobody is named in a lock before it starts; a verdict to break a lock   *)
(* that was readable says that its owner is dead, which stays so.          *)
DeadJudged ==
  /\ lock # Supervisor!NoLock => at[lock.by] # "unborn"
  /\ \A p \in Processes :
       at[p] = "break" /\ seen[p] # Supervisor!NoLock /\ seen[p].filled
         => at[seen[p].by] = "gone"

(* The inductive invariant. *)
LockInv == /\ Supervisor!TypeOK
           /\ SupervisorHolderNamed
           /\ DeadJudged
           /\ LiveLockNotStolen
           /\ Supervisor!ReleaseFollowsBreak
-----------------------------------------------------------------------------
(* The invariant holds before any supervisor starts. *)
LEMMA InitLockInv ==
  ASSUME Nobody \notin Processes, Supervisor!Init
  PROVE  LockInv
BY DEF Supervisor!Init, LockInv, Supervisor!TypeOK, Supervisor!NoLock,
       Supervisor!Places, SupervisorHolderNamed, Supervisor!Holders,
       DeadJudged, LiveLockNotStolen, Supervisor!ReleaseFollowsBreak

(* Every step keeps the types. *)
LEMMA SupervisorTypeStep ==
  ASSUME Nobody \notin Processes, Supervisor!TypeOK,
         [Supervisor!Next]_(Supervisor!vars)
  PROVE  Supervisor!TypeOK'
<1>1. CASE UNCHANGED Supervisor!vars
  BY <1>1 DEF Supervisor!vars, Supervisor!TypeOK, Supervisor!NoLock
<1> SUFFICES ASSUME NEW p \in Processes,
                    \/ Supervisor!Start(p) \/ Supervisor!Open(p)
                    \/ Supervisor!Fill(p) \/ Supervisor!Check(p)
                    \/ Supervisor!Break(p)
                    \/ Supervisor!Release(p) \/ Supervisor!Crash(p)
                    \/ Supervisor!Visit(p) \/ Supervisor!Remove(p)
             PROVE  Supervisor!TypeOK'
  BY <1>1 DEF Supervisor!Next
<1> USE DEF Supervisor!TypeOK, Supervisor!NoLock, Supervisor!Places,
            Supervisor!GoTo
<1>2. CASE Supervisor!Start(p) BY <1>2 DEF Supervisor!Start
<1>3. CASE Supervisor!Open(p)
  <2>1. [ by |-> p, filled |-> FALSE ] \in [ by : Processes, filled : BOOLEAN ]
    OBVIOUS
  <2>2. lock' \in { [ by |-> p, filled |-> FALSE ], lock }
    BY <1>3 DEF Supervisor!Open
  <2>3. \E w \in { "fill", "check" } : at' = [at EXCEPT ![p] = w]
    BY <1>3 DEF Supervisor!Open
  <2>4. lock' \in [ by : Processes, filled :
          BOOLEAN ] \cup { Supervisor!NoLock }
    BY <2>1, <2>2
  <2> QED BY <1>3, <2>3, <2>4 DEF Supervisor!Open
<1>4. CASE Supervisor!Fill(p)
  <2>1. lock' \in [ by : Processes, filled :
          BOOLEAN ] \cup { Supervisor!NoLock }
    BY <1>4 DEF Supervisor!Fill
  <2> QED BY <1>4, <2>1 DEF Supervisor!Fill
<1>5. CASE Supervisor!Check(p)
  <2>1. PICK v \in Supervisor!Verdicts(lock) : Supervisor!GoTo(p, v)
    BY <1>5 DEF Supervisor!Check
  <2>2. v \in { "break", "guess", "gone" }
    BY <2>1 DEF Supervisor!Verdicts
  <2> QED BY <1>5, <2>1, <2>2 DEF Supervisor!Check
<1>6. CASE Supervisor!Break(p)
  <2>1. Supervisor!Cause(p) \subseteq
          { "release", "reconcile", "empty", "late", "unanswered", "stolen" }
    BY DEF Supervisor!Cause
  <2> QED BY <1>6, <2>1 DEF Supervisor!Break
<1>7. CASE Supervisor!Release(p)
  <2>1. Supervisor!Cause(p) \subseteq
          { "release", "reconcile", "empty", "late", "unanswered", "stolen" }
    BY DEF Supervisor!Cause
  <2> QED BY <1>7, <2>1 DEF Supervisor!Release
<1>8. CASE Supervisor!Crash(p) BY <1>8 DEF Supervisor!Crash
<1>9. CASE Supervisor!Visit(p) BY <1>9 DEF Supervisor!Visit
<1>10. CASE Supervisor!Remove(p)
  <2>1. Supervisor!Cause(p) \subseteq
          { "release", "reconcile", "empty", "late", "unanswered", "stolen" }
    BY DEF Supervisor!Cause
  <2> QED BY <1>10, <2>1 DEF Supervisor!Remove
<1> QED BY <1>2, <1>3, <1>4, <1>5, <1>6, <1>7, <1>8, <1>9, <1>10

(* An unlink costs a holder its lock only with a cause. *)
LEMMA SupervisorUnlinkHasCause ==
  ASSUME Nobody \notin Processes, Supervisor!TypeOK, SupervisorHolderNamed,
         NEW p \in Processes,
         at[p] \in { "break", "guess", "held", "remove" }, causes \cup Supervisor!Cause(p) = {}
  PROVE  \A q \in Processes : q # p => q \notin Supervisor!Holders
<1> SUFFICES ASSUME NEW q \in Processes, q # p, q \in Supervisor!Holders
             PROVE  FALSE
  OBVIOUS
<1>1. lock.by = q /\ causes = {}
  BY DEF SupervisorHolderNamed
<1>2. lock # Supervisor!NoLock /\ Supervisor!Alive(lock.by)
  BY <1>1 DEF Supervisor!NoLock, Supervisor!Alive, Supervisor!Holders
<1> QED BY <1>1, <1>2 DEF Supervisor!Cause

(* The file names its holder until it is broken or released by another,    *)
(* which has a cause.                                                      *)
LEMMA SupervisorHolderNamedStep ==
  ASSUME Nobody \notin Processes, LockInv, [Supervisor!Next]_(Supervisor!vars)
  PROVE  SupervisorHolderNamed'
<1> USE DEF LockInv
<1>1. CASE UNCHANGED Supervisor!vars
  BY <1>1 DEF Supervisor!vars, SupervisorHolderNamed, Supervisor!Holders
<1> SUFFICES ASSUME NEW p \in Processes,
                    \/ Supervisor!Start(p) \/ Supervisor!Open(p)
                    \/ Supervisor!Fill(p) \/ Supervisor!Check(p)
                    \/ Supervisor!Break(p)
                    \/ Supervisor!Release(p) \/ Supervisor!Crash(p)
                    \/ Supervisor!Visit(p) \/ Supervisor!Remove(p),
                    causes' = {}, NEW q \in Supervisor!Holders'
             PROVE  lock'.by = q
  BY <1>1 DEF Supervisor!Next, SupervisorHolderNamed
<1>q. q \in Processes /\ at'[q] \in { "fill", "held" }
  BY DEF Supervisor!Holders
<1> USE DEF Supervisor!TypeOK, Supervisor!GoTo, SupervisorHolderNamed,
            Supervisor!Holders
<1>2. CASE Supervisor!Start(p) BY <1>2, <1>q DEF Supervisor!Start
<1>3. CASE Supervisor!Open(p)
  <2>1. causes = {} /\ (q # p => q \in Supervisor!Holders)
    BY <1>3, <1>q DEF Supervisor!Open
  <2>2. CASE lock = Supervisor!NoLock
    BY <1>3, <2>1, <2>2, <1>q DEF Supervisor!Open, Supervisor!NoLock
  <2>3. CASE lock # Supervisor!NoLock
    BY <1>3, <2>1, <2>3, <1>q DEF Supervisor!Open
  <2> QED BY <2>2, <2>3
<1>4. CASE Supervisor!Fill(p)
  <2>1. causes = {} /\ q \in Supervisor!Holders
    BY <1>4, <1>q DEF Supervisor!Fill
  <2>2. lock'.by = lock.by
    BY <1>4 DEF Supervisor!Fill, Supervisor!NoLock
  <2> QED BY <2>1, <2>2
<1>5. CASE Supervisor!Check(p)
  <2>1. PICK v \in Supervisor!Verdicts(lock) : Supervisor!GoTo(p, v)
    BY <1>5 DEF Supervisor!Check
  <2>2. v \in { "break", "guess", "gone" }
    BY <2>1 DEF Supervisor!Verdicts
  <2> QED BY <1>5, <2>1, <2>2, <1>q DEF Supervisor!Check
<1>6. CASE Supervisor!Break(p)
  BY <1>6, <1>q, SupervisorUnlinkHasCause DEF Supervisor!Break
<1>7. CASE Supervisor!Release(p)
  BY <1>7, <1>q, SupervisorUnlinkHasCause DEF Supervisor!Release
<1>8. CASE Supervisor!Crash(p) BY <1>8, <1>q DEF Supervisor!Crash
<1>9. CASE Supervisor!Visit(p) BY <1>9, <1>q DEF Supervisor!Visit
<1>10. CASE Supervisor!Remove(p)
  BY <1>10, <1>q, SupervisorUnlinkHasCause DEF Supervisor!Remove
<1> QED BY <1>2, <1>3, <1>4, <1>5, <1>6, <1>7, <1>8, <1>9, <1>10

(* A verdict on a readable lock stays true: the dead do not come back, and *)
(* no process starts twice.                                                *)
LEMMA DeadJudgedStep ==
  ASSUME Nobody \notin Processes, LockInv, [Supervisor!Next]_(Supervisor!vars)
  PROVE  DeadJudged'
<1> USE DEF LockInv
<1>1. CASE UNCHANGED Supervisor!vars
  BY <1>1 DEF Supervisor!vars, DeadJudged, Supervisor!NoLock
<1> SUFFICES ASSUME NEW p \in Processes,
                    \/ Supervisor!Start(p) \/ Supervisor!Open(p)
                    \/ Supervisor!Fill(p) \/ Supervisor!Check(p)
                    \/ Supervisor!Break(p)
                    \/ Supervisor!Release(p) \/ Supervisor!Crash(p)
                    \/ Supervisor!Visit(p) \/ Supervisor!Remove(p)
             PROVE  DeadJudged'
  BY <1>1 DEF Supervisor!Next
<1> USE DEF Supervisor!TypeOK, Supervisor!GoTo, DeadJudged, Supervisor!NoLock
<1>2. CASE Supervisor!Start(p) BY <1>2 DEF Supervisor!Start
<1>3. CASE Supervisor!Open(p) BY <1>3 DEF Supervisor!Open
<1>4. CASE Supervisor!Fill(p) BY <1>4 DEF Supervisor!Fill
<1>5. CASE Supervisor!Check(p)
  <2>1. PICK v \in Supervisor!Verdicts(lock) : Supervisor!GoTo(p, v)
    BY <1>5 DEF Supervisor!Check
  <2>2. v \in { "break", "guess", "gone" }
    BY <2>1 DEF Supervisor!Verdicts
  <2>3. v = "break" /\ lock # Supervisor!NoLock /\ lock.filled
          => at[lock.by] = "gone"
    BY <2>1 DEF Supervisor!Verdicts, Supervisor!Alive
  <2>4. at' = [at EXCEPT ![p] = v] /\ seen' = [seen EXCEPT ![p] = lock]
          /\ lock' = lock
    BY <1>5, <2>1 DEF Supervisor!Check
  <2>5. ASSUME NEW q \in Processes, at'[q] = "break",
               seen'[q] # Supervisor!NoLock, seen'[q].filled
        PROVE  at'[seen'[q].by] = "gone"
    <3>0. at[p] = "check"
      BY <1>5 DEF Supervisor!Check
    <3>1. CASE q = p
      <4>1. v = "break" /\ seen'[q] = lock /\ at[lock.by] = "gone"
        BY <2>3, <2>4, <2>5, <3>1
      <4>2. lock.by \in Processes /\ lock.by # p
        BY <4>1, <2>5, <3>0
      <4> QED BY <4>1, <4>2, <2>4
    <3>2. CASE q # p
      <4>1. at[q] = "break" /\ seen'[q] = seen[q]
        BY <2>4, <2>5, <3>2
      <4>2. at[seen[q].by] = "gone" /\ seen[q].by \in Processes
        BY <4>1, <2>5
      <4> QED BY <4>1, <4>2, <2>4, <3>0
    <3> QED BY <3>1, <3>2
  <2>6. lock' # Supervisor!NoLock => at'[lock'.by] # "unborn"
    BY <2>2, <2>4
  <2> QED BY <2>5, <2>6
<1>6. CASE Supervisor!Break(p) BY <1>6 DEF Supervisor!Break
<1>7. CASE Supervisor!Release(p) BY <1>7 DEF Supervisor!Release
<1>8. CASE Supervisor!Crash(p) BY <1>8 DEF Supervisor!Crash, Supervisor!Alive
<1>9. CASE Supervisor!Visit(p) BY <1>9 DEF Supervisor!Visit
<1>10. CASE Supervisor!Remove(p) BY <1>10 DEF Supervisor!Remove
<1> QED BY <1>2, <1>3, <1>4, <1>5, <1>6, <1>7, <1>8, <1>9, <1>10

(* What an unlink may add to the causes. *)
LEMMA CausesStep ==
  ASSUME Nobody \notin Processes, LockInv, [Supervisor!Next]_(Supervisor!vars)
  PROVE  LiveLockNotStolen' /\ Supervisor!ReleaseFollowsBreak'
<1> USE DEF LockInv
<1>1. CASE UNCHANGED causes
  BY <1>1 DEF LiveLockNotStolen, Supervisor!ReleaseFollowsBreak
<1>2. ASSUME NEW p \in Processes, Supervisor!Break(p)
      PROVE  LiveLockNotStolen' /\ Supervisor!ReleaseFollowsBreak'
  <2>1. "stolen" \notin Supervisor!Cause(p)
    <3> SUFFICES ASSUME lock # Supervisor!NoLock, Supervisor!Alive(lock.by),
                        seen[p].by = lock.by,
                        seen[p].filled, at[p] # "guess"
                 PROVE  FALSE
      BY <1>2 DEF Supervisor!Cause, Supervisor!Break
    <3>1. lock.by \in Processes /\ seen[p] # Supervisor!NoLock
      BY DEF Supervisor!TypeOK, Supervisor!NoLock
    <3> QED BY <1>2, <3>1 DEF DeadJudged, Supervisor!Break, Supervisor!Alive
  <2>2. "release" \notin Supervisor!Cause(p)
    BY <1>2 DEF Supervisor!Cause, Supervisor!Break
  <2> QED BY <1>2, <2>1, <2>2
             DEF Supervisor!Break, LiveLockNotStolen,
                 Supervisor!ReleaseFollowsBreak
<1>3. ASSUME NEW p \in Processes, Supervisor!Release(p)
      PROVE  LiveLockNotStolen' /\ Supervisor!ReleaseFollowsBreak'
  <2>1. Supervisor!Cause(p) \subseteq { "release" }
    BY <1>3 DEF Supervisor!Cause, Supervisor!Release
  <2>2. causes = {} => Supervisor!Cause(p) = {}
    BY <1>3
       DEF Supervisor!Cause, Supervisor!Release, SupervisorHolderNamed,
           Supervisor!Holders
  <2> QED BY <1>3, <2>1, <2>2
             DEF Supervisor!Release, LiveLockNotStolen,
                 Supervisor!ReleaseFollowsBreak
<1>4. ASSUME NEW p \in Processes, Supervisor!Remove(p)
      PROVE  LiveLockNotStolen' /\ Supervisor!ReleaseFollowsBreak'
  <2>1. Supervisor!Cause(p) \subseteq { "reconcile" }
    BY <1>4 DEF Supervisor!Cause, Supervisor!Remove
  <2> QED BY <1>4, <2>1
             DEF Supervisor!Remove, LiveLockNotStolen,
                 Supervisor!ReleaseFollowsBreak
<1> QED BY <1>1, <1>2, <1>3, <1>4
           DEF Supervisor!Next, Supervisor!vars, Supervisor!Start,
               Supervisor!Open, Supervisor!Fill, Supervisor!Check,
               Supervisor!Crash, Supervisor!Visit

(* The invariant is inductive. *)
LEMMA LockInvStep ==
  ASSUME Nobody \notin Processes, LockInv, [Supervisor!Next]_(Supervisor!vars)
  PROVE  LockInv'
BY SupervisorTypeStep, SupervisorHolderNamedStep, DeadJudgedStep, CausesStep
   DEF LockInv

(* The strengthening holds in every state of supervisor_lock.txt. *)
THEOREM LockInvAlways ==
  ASSUME Nobody \notin Processes
  PROVE  Supervisor!Spec => []LockInv
BY InitLockInv, LockInvStep, PTL DEF Supervisor!Spec

(* Type correctness of the lock file and of its users. *)
THEOREM TypeCorrect ==
  ASSUME Nobody \notin Processes
  PROVE  Supervisor!Spec => []Supervisor!TypeOK
BY LockInvAlways, PTL DEF LockInv

(* However many processes try: one that looked at the readable lock of a   *)
(* live supervisor, and learnt that it lives, does not break it.  It may   *)
(* when the probe got no answer, which is a cause of its own.              *)
THEOREM LiveLockKept ==
  ASSUME Nobody \notin Processes
  PROVE  Supervisor!Spec => []LiveLockNotStolen
BY LockInvAlways, PTL DEF LockInv

(* A release removes the lock of another supervisor only after locks of    *)
(* live supervisors were broken.                                           *)
THEOREM SupervisorReleaseIsSecond ==
  ASSUME Nobody \notin Processes
  PROVE  Supervisor!Spec => []Supervisor!ReleaseFollowsBreak
BY LockInvAlways, PTL DEF LockInv
-----------------------------------------------------------------------------
(* The initial state of the lock is that of AdvisoryLock. *)
LEMMA SupervisorAdvisoryInit ==
  ASSUME Supervisor!Init
  PROVE  Supervisor!Advisory!Init
BY DEF Supervisor!Init, Supervisor!Advisory!Init, Supervisor!Holders

(* Every step on the lock is a step of AdvisoryLock or changes nothing     *)
(* there.                                                                  *)
LEMMA SupervisorAdvisoryStep ==
  ASSUME Nobody \notin Processes, LockInv, [Supervisor!Next]_(Supervisor!vars)
  PROVE  [Supervisor!Advisory!Next]_(Supervisor!Advisory!vars)
<1> USE DEF LockInv, Supervisor!TypeOK, Supervisor!GoTo, Supervisor!Holders
<1>1. CASE UNCHANGED Supervisor!vars
  BY <1>1 DEF Supervisor!vars, Supervisor!Advisory!vars
<1> SUFFICES ASSUME NEW p \in Processes,
                    \/ Supervisor!Start(p) \/ Supervisor!Open(p)
                    \/ Supervisor!Fill(p) \/ Supervisor!Check(p)
                    \/ Supervisor!Break(p)
                    \/ Supervisor!Release(p) \/ Supervisor!Crash(p)
                    \/ Supervisor!Visit(p) \/ Supervisor!Remove(p)
             PROVE  Supervisor!Advisory!Next
  BY <1>1 DEF Supervisor!Next
<1>b. (causes # {})' \in { causes # {}, TRUE }
  BY DEF Supervisor!Start, Supervisor!Open, Supervisor!Fill, Supervisor!Check,
         Supervisor!Break, Supervisor!Release, Supervisor!Crash,
         Supervisor!Visit, Supervisor!Remove
<1>2. CASE Supervisor!Start(p)
  BY <1>2, <1>b DEF Supervisor!Start, Supervisor!Advisory!Next
<1>3. CASE Supervisor!Open(p) /\ lock = Supervisor!NoLock
  <2>1. Supervisor!Holders' = Supervisor!Holders \cup { p }
    BY <1>3 DEF Supervisor!Open
  <2>2. Supervisor!Holders = {} \/ causes # {}
    BY <1>3 DEF SupervisorHolderNamed, Supervisor!NoLock
  <2>3. causes' = causes
    BY <1>3 DEF Supervisor!Open
  <2>4. Supervisor!Advisory!Acquire(p)
    BY <2>1, <2>2, <2>3 DEF Supervisor!Advisory!Acquire
  <2> QED BY <1>b, <2>4 DEF Supervisor!Advisory!Next
<1>4. CASE Supervisor!Open(p) /\ lock # Supervisor!NoLock
  BY <1>4, <1>b DEF Supervisor!Open, Supervisor!Advisory!Next
<1>5. CASE Supervisor!Fill(p)
  BY <1>5, <1>b DEF Supervisor!Fill, Supervisor!Advisory!Next
<1>6. CASE Supervisor!Check(p)
  <2>1. PICK v \in Supervisor!Verdicts(lock) : Supervisor!GoTo(p, v)
    BY <1>6 DEF Supervisor!Check
  <2>2. v \in { "break", "guess", "gone" }
    BY <2>1 DEF Supervisor!Verdicts
  <2>3. Supervisor!Holders' = Supervisor!Holders
    BY <1>6, <2>1, <2>2 DEF Supervisor!Check
  <2> QED BY <1>b, <2>3 DEF Supervisor!Advisory!Next
<1>7. CASE Supervisor!Break(p)
  BY <1>7, <1>b DEF Supervisor!Break, Supervisor!Advisory!Next
<1>8. CASE Supervisor!Release(p) \/ Supervisor!Crash(p)
  <2>1. Supervisor!Holders' = Supervisor!Holders \ { p }
    BY <1>8 DEF Supervisor!Release, Supervisor!Crash
  <2> QED BY <1>b, <2>1 DEF Supervisor!Advisory!Next, Supervisor!Advisory!Leave
<1>9. CASE Supervisor!Visit(p)
  BY <1>9, <1>b DEF Supervisor!Visit, Supervisor!Advisory!Next
<1>10. CASE Supervisor!Remove(p)
  BY <1>10, <1>b DEF Supervisor!Remove, Supervisor!Advisory!Next
<1> QED BY <1>2, <1>3, <1>4, <1>5, <1>6, <1>7, <1>8, <1>9, <1>10

(* The lock file keeps the promise of AdvisoryLock: with any number of     *)
(* processes, two supervise at once only after one lost its lock alive.    *)
THEOREM SupervisorLockIsAdvisory ==
  ASSUME Nobody \notin Processes
  PROVE  Supervisor!Spec => Supervisor!IsAdvisory
<1>1. Supervisor!Init => Supervisor!Advisory!Init
  BY SupervisorAdvisoryInit
<1>2. LockInv /\ [Supervisor!Next]_(Supervisor!vars)
        => [Supervisor!Advisory!Next]_(Supervisor!Advisory!vars)
  BY SupervisorAdvisoryStep
<1> QED BY <1>1, <1>2, LockInvAlways, PTL
           DEF Supervisor!Spec, Supervisor!IsAdvisory, Supervisor!Advisory!Spec
-----------------------------------------------------------------------------

SessionPlaces ==
  { "unborn", "mkdir", "state", "write", "fill", "acquire", "create", "judge",
    "mark", "revalidate", "lapse", "remark", "unlink", "recreate", "refill",
    "keep", "drop", "held", "move", "gone" }

Locks == [ file : Processes \cup { Nobody }, by : Processes \cup { Nobody },
           filled : BOOLEAN, expired : BOOLEAN ]

(* Types; every lock that is there names a command. *)
SessionTyped ==
  /\ at \in [Processes -> SessionPlaces]
  /\ lock \in Locks /\ (lock # Session!NoLock => lock.by \in Processes)
  /\ seen \in [Processes -> Locks]
  /\ lapsed \in BOOLEAN

(* The file names its holder, the marker its creator. *)
SessionHolderNamed == causes = {} => \A p \in Session!Holders : lock.by = p
TakerNamed == ~lapsed => \A p \in Session!Takers : marker = p

(* A lock that is written was written by the command it names, which does  *)
(* so once in its life.                                                    *)
Past == { "keep", "held", "gone" }

WrittenOnce ==
  /\ lock.filled => lock.by \in Processes /\ at[lock.by] \in Past
  /\ \A p \in Processes :
       seen[p].filled => seen[p].by \in Processes /\ at[seen[p].by] \in Past

(* What was live when the takeover looked is not there any more. *)
LiveOneGone ==
  \A p \in Processes : at[p] = "unlink" /\ Session!Live(seen[p])
    => lock # seen[p]

(* The inductive invariant. *)
SessionInv == /\ SessionTyped
              /\ SessionHolderNamed
              /\ TakerNamed
              /\ WrittenOnce
              /\ LiveOneGone
              /\ LiveLockNotStolen

SessionStep(p) ==
  \/ Session!Begin(p) \/ Session!Mkdir(p) \/ Session!WriteState(p)
  \/ Session!WriteLock(p) \/ Session!Fill(p)
  \/ Session!Acquire(p) \/ Session!Create(p) \/ Session!Judge(p)
  \/ Session!Mark(p) \/ Session!Lapse(p)
  \/ Session!Revalidate(p) \/ Session!Unlink(p) \/ Session!Unmark(p)
  \/ Session!CheckArchive(p) \/ Session!Move(p) \/ Session!End(p)
-----------------------------------------------------------------------------
(* The invariant holds before the first command. *)
LEMMA InitSessionInv ==
  ASSUME Nobody \notin Processes, Session!Init
  PROVE  SessionInv
BY DEF Session!Init, SessionInv, SessionTyped, SessionPlaces, Locks,
       Session!NoLock, SessionHolderNamed, Session!Holders, TakerNamed,
       Session!Takers, WrittenOnce, LiveOneGone, LiveLockNotStolen

(* Where a step leads: the whole flow of a command. *)
Flow(from) ==
  CASE from = "unborn" -> { "mkdir", "gone", "acquire", "move" }
    [] from = "mkdir" -> { "state", "gone" }
    [] from = "state" -> { "write", "gone" }
    [] from = "write" -> { "fill", "gone" }
    [] from = "fill" -> { "held", "gone" }
    [] from = "acquire" -> { "create", "judge", "gone" }
    [] from = "create" -> { "fill", "gone" }
    [] from = "judge" -> { "mark", "gone" }
    [] from = "mark" -> { "revalidate", "lapse", "gone" }
    [] from = "lapse" -> { "remark", "gone" }
    [] from = "remark" -> { "revalidate", "gone" }
    [] from = "revalidate" -> { "unlink", "drop", "gone" }
    [] from = "unlink" -> { "recreate", "gone" }
    [] from = "recreate" -> { "refill", "drop", "gone" }
    [] from = "refill" -> { "keep", "gone" }
    [] from = "keep" -> { "held", "gone" }
    [] from = "drop" -> { "gone" }
    [] from = "held" -> { "gone" }
    [] from = "move" -> { "gone" }
    [] OTHER -> { "gone" }

(* Every step follows the flow. *)
LEMMA SessionMoves ==
  ASSUME SessionTyped, NEW p \in Processes, SessionStep(p)
  PROVE  \E w \in Flow(at[p]) : at' = [at EXCEPT ![p] = w]
<1> USE DEF Session!GoTo
<1>1. CASE Session!Begin(p) BY <1>1 DEF Session!Begin, Flow
<1>2. CASE Session!Mkdir(p) BY <1>2 DEF Session!Mkdir, Flow
<1>3. CASE Session!WriteState(p) BY <1>3 DEF Session!WriteState, Flow
<1>4. CASE Session!WriteLock(p) BY <1>4 DEF Session!WriteLock, Flow
<1>5. CASE Session!Fill(p) BY <1>5 DEF Session!Fill, Flow
<1>6. CASE Session!Acquire(p) BY <1>6 DEF Session!Acquire, Flow
<1>7. CASE Session!Create(p) BY <1>7 DEF Session!Create, Flow
<1>8. CASE Session!Judge(p) BY <1>8 DEF Session!Judge, Flow
<1>9. CASE Session!Mark(p) BY <1>9 DEF Session!Mark, Flow
<1>10. CASE Session!Lapse(p) BY <1>10 DEF Session!Lapse, Flow
<1>11. CASE Session!Revalidate(p) BY <1>11
                                     DEF Session!Revalidate, Session!Verdict,
                                         Flow
<1>12. CASE Session!Unlink(p) BY <1>12 DEF Session!Unlink, Flow
<1>13. CASE Session!Unmark(p) BY <1>13 DEF Session!Unmark, Flow
<1>14. CASE Session!CheckArchive(p) BY <1>14 DEF Session!CheckArchive, Flow
<1>15. CASE Session!Move(p) BY <1>15 DEF Session!Move, Flow
<1>16. CASE Session!End(p)
  <2>1. "gone" \in Flow(at[p])
    BY DEF Flow, SessionTyped, SessionPlaces
  <2>2. at' = [at EXCEPT ![p] = "gone"]
    BY <1>16 DEF Session!End
  <2> QED BY <2>1, <2>2
<1> QED BY <1>1, <1>2, <1>3, <1>4, <1>5, <1>6, <1>7, <1>8, <1>9, <1>10,
           <1>11, <1>12, <1>13, <1>14, <1>15, <1>16 DEF SessionStep

(* The flow stays in its places, and never comes back to before the lock   *)
(* is written.                                                             *)
LEMMA FlowStays ==
  ASSUME NEW from \in SessionPlaces
  PROVE  /\ Flow(from) \subseteq SessionPlaces \ { "unborn" }
         /\ from \in Past => Flow(from) \subseteq Past
BY DEF Flow, SessionPlaces, Past

(* What a step may do to the lock. *)
LockChange(p) ==
  \/ lock' = lock
  \/ lock' = Session!NoLock
  \/ lock' \in Locks /\ lock'.by = p /\ ~lock'.filled
  \/ Session!Fill(p) /\ lock'.by = p /\ lock'.filled /\ lock' \in Locks

(* Every step changes the lock in one of these ways. *)
LEMMA LockChanges ==
  ASSUME SessionTyped, NEW p \in Processes, SessionStep(p)
  PROVE  LockChange(p)
<1> USE DEF LockChange, SessionTyped
<1>1. CASE Session!WriteLock(p)
  <2>1. CASE dir = "none" BY <1>1, <2>1 DEF Session!WriteLock
  <2>2. CASE dir # "none"
    <3> DEFINE f == IF lock = Session!NoLock THEN p ELSE lock.file
    <3>1. lock' = [ file |-> f, by |-> p, filled |-> FALSE, expired |-> FALSE ]
      BY <1>1, <2>2 DEF Session!WriteLock
    <3>2. f \in Processes \cup { Nobody }
      BY DEF Locks
    <3> HIDE DEF f
    <3> QED BY <3>1, <3>2 DEF Locks
  <2> QED BY <2>1, <2>2
<1>2. CASE Session!Fill(p)
  <2>1. CASE lock' = lock BY <2>1
  <2>2. CASE lock' = [lock EXCEPT !.by = p, !.filled = TRUE]
    <3>1. lock'.by = p /\ lock'.filled /\ lock' \in Locks
      BY <2>2 DEF Locks
    <3> QED BY <1>2, <3>1
  <2> QED BY <1>2, <2>1, <2>2 DEF Session!Fill, Session!Filled
<1>3. CASE Session!Create(p)
  <2>1. CASE Session!Creatable
    <3>1. lock' = [Session!NoLock EXCEPT !.file = p, !.by = p]
      BY <1>3, <2>1 DEF Session!Create
    <3> QED BY <3>1 DEF Session!NoLock, Locks
  <2>2. CASE ~Session!Creatable BY <1>3, <2>2 DEF Session!Create
  <2> QED BY <2>1, <2>2
<1>4. CASE Session!Unlink(p) BY <1>4 DEF Session!Unlink
<1>5. CASE Session!Move(p) BY <1>5 DEF Session!Move
<1> QED BY <1>1, <1>2, <1>3, <1>4, <1>5
           DEF SessionStep, Session!Begin, Session!Mkdir, Session!WriteState,
               Session!Acquire, Session!Judge, Session!Mark, Session!Lapse,
               Session!Revalidate, Session!Unmark, Session!CheckArchive,
               Session!End
-----------------------------------------------------------------------------
(* Every step keeps the types. *)
LEMMA SessionTypedStep ==
  ASSUME SessionInv, [Session!Next]_(Session!vars)
  PROVE  SessionTyped'
<1> USE DEF SessionInv
<1>1. CASE UNCHANGED Session!vars
  BY <1>1 DEF Session!vars, SessionTyped, Session!NoLock
<1>2. CASE Session!Expire
  <2>1. lock # Session!NoLock /\ lock' = [lock EXCEPT !.expired = TRUE]
    BY <1>2 DEF Session!Expire, Session!NoLock
  <2>2. lock' \in Locks /\ lock'.by = lock.by
    BY <2>1 DEF SessionTyped, Locks
  <2>3. at' = at /\ seen' = seen /\ lapsed' = lapsed
    BY <1>2 DEF Session!Expire, Session!memory
  <2> QED BY <2>1, <2>2, <2>3 DEF SessionTyped
<1> SUFFICES ASSUME NEW p \in Processes, SessionStep(p)
             PROVE  SessionTyped'
  BY <1>1, <1>2 DEF Session!Next, SessionStep
<1>3. at' \in [Processes -> SessionPlaces]
  BY SessionMoves, FlowStays DEF SessionTyped
<1>4. lock' \in Locks /\ (lock' # Session!NoLock => lock'.by \in Processes)
  <2>1. Session!NoLock \in Locks BY DEF Session!NoLock, Locks
  <2> QED BY LockChanges, <2>1 DEF LockChange, SessionTyped, Session!NoLock
<1>5. seen' \in [Processes -> Locks]
  <2>1. seen' = seen \/ seen' = [seen EXCEPT ![p] = lock]
    BY DEF SessionStep, Session!Begin, Session!Mkdir, Session!WriteState,
           Session!WriteLock, Session!Fill, Session!Acquire, Session!Create,
           Session!Judge, Session!Mark, Session!Lapse, Session!Revalidate,
           Session!Unlink, Session!Unmark, Session!CheckArchive, Session!Move,
           Session!End, Session!memory
  <2> QED BY <2>1 DEF SessionTyped
<1>6. lapsed' \in BOOLEAN
  BY DEF SessionStep, Session!Begin, Session!Mkdir, Session!WriteState,
         Session!WriteLock, Session!Fill, Session!Acquire, Session!Create,
         Session!Judge, Session!Mark, Session!Lapse, Session!Revalidate,
         Session!Unlink, Session!Unmark, Session!CheckArchive, Session!Move,
         Session!End, Session!memory, SessionTyped
<1> QED BY <1>3, <1>4, <1>5, <1>6 DEF SessionTyped

(* Who takes the lock from a holder gives a cause. *)
LEMMA LossHasCause ==
  ASSUME Nobody \notin Processes, SessionInv, NEW p \in Processes, NEW how,
         causes \cup Session!Cause(p, how) = {}
  PROVE  \A q \in Session!Holders : q = p
<1> SUFFICES ASSUME NEW q \in Session!Holders, q # p
             PROVE  FALSE
  OBVIOUS
<1>1. lock.by = q /\ causes = {}
  BY DEF SessionInv, SessionHolderNamed
<1>2. q \in Processes /\ Session!Alive(q) /\ lock # Session!NoLock
  BY <1>1 DEF Session!Holders, Session!Alive, Session!NoLock
<1> QED BY <1>1, <1>2 DEF Session!Cause

(* A holder's lock is rewritten or removed by another command only with a  *)
(* cause.                                                                  *)
LEMMA SessionHolderNamedStep ==
  ASSUME Nobody \notin Processes, SessionInv, [Session!Next]_(Session!vars)
  PROVE  SessionHolderNamed'
<1> USE DEF SessionInv
<1>1. CASE UNCHANGED Session!vars
  BY <1>1 DEF Session!vars, SessionHolderNamed, Session!Holders
<1>2. CASE Session!Expire
  BY <1>2
     DEF Session!Expire, SessionHolderNamed, Session!Holders, Session!memory,
         SessionTyped, Locks
<1> SUFFICES ASSUME NEW p \in Processes, SessionStep(p), causes' = {},
                    NEW q \in Session!Holders'
             PROVE  lock'.by = q
  BY <1>1, <1>2 DEF Session!Next, SessionStep, SessionHolderNamed
<1>q. q \in Processes /\ at'[q] \in { "fill", "refill", "keep", "held" }
  BY DEF Session!Holders
<1>o. q # p => q \in Session!Holders
  BY SessionMoves, <1>q DEF SessionTyped, Session!Holders
<1>f. q = p => at'[p] \in Flow(at[p])
  BY SessionMoves DEF SessionTyped
<1> USE DEF SessionTyped, SessionHolderNamed
<1>3. CASE Session!WriteLock(p)
  <2>1. CASE dir = "none"
    BY <1>3, <2>1, <1>q, <1>o DEF Session!WriteLock, Session!GoTo
  <2>2. CASE dir # "none"
    <3>1. \A r \in Session!Holders : r = p
      BY <1>3, <2>2, LossHasCause DEF Session!WriteLock
    <3>2. lock'.by = p
      BY <1>3, <2>2 DEF Session!WriteLock
    <3> QED BY <3>1, <3>2, <1>o
  <2> QED BY <2>1, <2>2
<1>4. CASE Session!Fill(p)
  <2>1. p \in Session!Holders /\ causes = {}
    BY <1>4 DEF Session!Fill, Session!Holders, Session!memory
  <2>2. lock.by = p /\ (q # p => lock.by = q)
    BY <2>1, <1>o
  <2>3. lock'.by = lock.by
    BY <1>4, <2>2, LockChanges
       DEF LockChange, Session!Fill, Session!Filled, Locks
  <2> QED BY <2>2, <2>3
<1>5. CASE Session!Create(p)
  <2>1. CASE Session!Creatable
    <3>1. Session!Holders = {}
      BY <1>5, <2>1
         DEF Session!Create, Session!Creatable, Session!NoLock, Session!Holders
    <3>2. lock'.by = p
      BY <1>5, <2>1 DEF Session!Create, Session!NoLock
    <3> QED BY <3>1, <3>2, <1>o
  <2>2. CASE ~Session!Creatable
    BY <1>5, <2>2, <1>q, <1>o DEF Session!Create, Session!GoTo
  <2> QED BY <2>1, <2>2
<1>6. CASE Session!Unlink(p)
  <2>1. q # p
    BY <1>6, <1>q DEF Session!Unlink, Session!GoTo
  <2> QED BY <1>6, <2>1, <1>o, LossHasCause DEF Session!Unlink
<1>7. CASE Session!Move(p)
  <2>1. q # p
    BY <1>7, <1>q DEF Session!Move, Session!GoTo
  <2>2. lock' = lock \/ causes' = causes \cup Session!Cause(p, "moved")
    BY <1>7 DEF Session!Move
  <2>3. causes = {}
    BY <1>7 DEF Session!Move
  <2> QED BY <2>1, <2>2, <2>3, <1>o, LossHasCause
<1>8. CASE ~(Session!WriteLock(p) \/ Session!Fill(p) \/ Session!Create(p)
             \/ Session!Unlink(p) \/ Session!Move(p))
  <2>1. lock' = lock /\ causes' = causes
    BY <1>8
       DEF SessionStep, Session!Begin, Session!Mkdir, Session!WriteState,
           Session!Acquire, Session!Judge, Session!Mark, Session!Lapse,
           Session!Revalidate, Session!Unmark, Session!CheckArchive,
           Session!End, Session!memory
  <2>2. q = p => q \in Session!Holders
    <3> SUFFICES ASSUME
                        q = p PROVE at[p] \in { "fill", "refill", "keep", "held" }
      BY DEF Session!Holders
    <3> QED BY <1>8, <1>q
               DEF SessionStep, Session!Begin, Session!Mkdir,
                   Session!WriteState, Session!Acquire, Session!Judge,
                   Session!Mark, Session!Lapse, Session!Revalidate,
                   Session!Verdict, Session!Unmark, Session!CheckArchive,
                   Session!End, Session!GoTo
  <2> QED BY <2>1, <2>2, <1>o
<1> QED BY <1>3, <1>4, <1>5, <1>6, <1>7, <1>8

(* The marker of a takeover is removed by another command only in a lapse. *)
LEMMA TakerNamedStep ==
  ASSUME Nobody \notin Processes, SessionInv, [Session!Next]_(Session!vars)
  PROVE  TakerNamed'
<1> USE DEF SessionInv
<1>1. CASE UNCHANGED Session!vars
  BY <1>1 DEF Session!vars, TakerNamed, Session!Takers
<1>2. CASE Session!Expire
  BY <1>2 DEF Session!Expire, TakerNamed, Session!Takers, Session!memory
<1> SUFFICES ASSUME NEW p \in Processes, SessionStep(p), ~lapsed',
                    NEW q \in Session!Takers'
             PROVE  marker' = q
  BY <1>1, <1>2 DEF Session!Next, SessionStep, TakerNamed
<1>q. q \in Processes
        /\ at'[q] \in { "revalidate", "unlink", "recreate", "refill",
                                      "keep", "drop" }
  BY DEF Session!Takers
<1>o. q # p => q \in Session!Takers
  BY SessionMoves, <1>q DEF SessionTyped, Session!Takers
<1>l. ~lapsed
  BY DEF SessionStep, Session!Begin, Session!Mkdir, Session!WriteState,
         Session!WriteLock, Session!Fill, Session!Acquire, Session!Create,
         Session!Judge, Session!Mark, Session!Lapse, Session!Revalidate,
         Session!Unlink, Session!Unmark, Session!CheckArchive, Session!Move,
         Session!End, Session!memory
<1> USE DEF SessionTyped, TakerNamed
<1>3. CASE Session!Mark(p)
  <2>1. CASE marker' = p /\ marker = Nobody
    BY <2>1, <1>o, <1>l DEF Session!Takers
  <2>2. CASE marker' = marker /\ (Session!GoTo(p, "gone")
               \/ Session!GoTo(p, "lapse"))
    BY <2>2, <1>q, <1>o, <1>l DEF Session!GoTo
  <2> QED BY <1>3, <2>1, <2>2 DEF Session!Mark
<1>4. CASE Session!Lapse(p)
  BY <1>4, <1>q, <1>o, <1>l DEF Session!Lapse, Session!GoTo
<1>5. CASE Session!Unmark(p)
  <2>1. p \in Session!Takers /\ marker = p
    BY <1>5, <1>l DEF Session!Unmark, Session!Takers
  <2>2. q # p
    BY <1>5, <1>q DEF Session!Unmark, Session!GoTo
  <2> QED BY <2>1, <2>2, <1>o, <1>l
<1>6. CASE Session!Move(p)
  <2>1. q # p
    BY <1>6, <1>q DEF Session!Move, Session!GoTo
  <2>2. Session!Takers # {}
    BY <2>1, <1>o
  <2> QED BY <1>6, <2>1, <2>2, <1>o, <1>l DEF Session!Move
<1>7. CASE ~(Session!Mark(p) \/ Session!Lapse(p) \/ Session!Unmark(p)
             \/ Session!Move(p))
  <2>1. marker' = marker
    BY <1>7
       DEF SessionStep, Session!Begin, Session!Mkdir, Session!WriteState,
           Session!WriteLock, Session!Fill, Session!Acquire, Session!Create,
           Session!Judge, Session!Revalidate, Session!Unlink,
           Session!CheckArchive, Session!End
  <2>2. q = p => q \in Session!Takers
    <3> SUFFICES ASSUME q = p
                 PROVE  at[p] \in { "revalidate", "unlink", "recreate",
                 "refill",
                                    "keep", "drop" }
      BY DEF Session!Takers
    <3> QED BY <1>7, <1>q
               DEF SessionStep, Session!Begin, Session!Mkdir,
                   Session!WriteState, Session!WriteLock, Session!Fill,
                   Session!Acquire, Session!Create, Session!Judge,
                   Session!Revalidate, Session!Unlink, Session!CheckArchive,
                   Session!End, Session!GoTo
  <2> QED BY <2>1, <2>2, <1>o, <1>l
<1> QED BY <1>3, <1>4, <1>5, <1>6, <1>7

(* Only Fill writes a lock, in the name of the command that makes the      *)
(* step.                                                                   *)
LEMMA WrittenOnceStep ==
  ASSUME Nobody \notin Processes, SessionInv, [Session!Next]_(Session!vars)
  PROVE  WrittenOnce'
<1> USE DEF SessionInv
<1>1. CASE UNCHANGED Session!vars
  BY <1>1 DEF Session!vars, WrittenOnce
<1>2. CASE Session!Expire
  BY <1>2 DEF Session!Expire, WrittenOnce, Session!memory, SessionTyped, Locks
<1> SUFFICES ASSUME NEW p \in Processes, SessionStep(p)
             PROVE  WrittenOnce'
  BY <1>1, <1>2 DEF Session!Next, SessionStep
<1> USE DEF SessionTyped, WrittenOnce
<1>p. \A q \in Processes : at[q] \in Past => at'[q] \in Past
  BY SessionMoves, FlowStays
<1>3. lock'.filled => lock'.by \in Processes /\ at'[lock'.by] \in Past
  <2>1. CASE lock' = lock BY <2>1, <1>p
  <2>2. CASE lock' = Session!NoLock BY <2>2 DEF Session!NoLock
  <2>3. CASE ~lock'.filled BY <2>3
  <2>4. CASE Session!Fill(p) /\ lock'.by = p
    BY <2>4 DEF Session!Fill, Session!GoTo, Past
  <2> QED BY <2>1, <2>2, <2>3, <2>4, LockChanges DEF LockChange
<1>4. seen' = seen \/ seen' = [seen EXCEPT ![p] = lock]
  BY DEF SessionStep, Session!Begin, Session!Mkdir, Session!WriteState,
         Session!WriteLock, Session!Fill, Session!Acquire, Session!Create,
         Session!Judge, Session!Mark, Session!Lapse, Session!Revalidate,
         Session!Unlink, Session!Unmark, Session!CheckArchive, Session!Move,
         Session!End, Session!memory
<1>5. ASSUME NEW q \in Processes, seen'[q].filled
      PROVE  seen'[q].by \in Processes /\ at'[seen'[q].by] \in Past
  <2>1. seen'[q] \in { seen[q], lock }
    BY <1>4
  <2> QED BY <1>5, <2>1, <1>p
<1> QED BY <1>3, <1>5

(* A live lock seen before the takeover is not written again: what         *)
(* revalidation finds is another.                                          *)
LEMMA LiveOneGoneStep ==
  ASSUME Nobody \notin Processes, SessionInv, [Session!Next]_(Session!vars)
  PROVE  LiveOneGone'
<1> USE DEF SessionInv
<1>1. CASE UNCHANGED Session!vars
  BY <1>1 DEF Session!vars, LiveOneGone, Session!Live, Session!Alive
<1>2. CASE Session!Expire
  <2>1. lock'.expired /\ at' = at /\ seen' = seen
    BY <1>2 DEF Session!Expire, SessionTyped, Locks, Session!memory
  <2> QED BY <2>1 DEF LiveOneGone, Session!Live
<1> SUFFICES ASSUME NEW p \in Processes, SessionStep(p), NEW q \in Processes,
                    at'[q] = "unlink", Session!Live(seen[q])'
             PROVE  lock' # seen'[q]
  BY <1>1, <1>2 DEF Session!Next, SessionStep, LiveOneGone
<1> USE DEF SessionTyped
<1>s. seen'[q] = seen[q]
  BY DEF SessionStep, Session!Begin, Session!Mkdir, Session!WriteState,
         Session!WriteLock, Session!Fill, Session!Acquire, Session!Create,
         Session!Judge, Session!Mark, Session!Lapse, Session!Revalidate,
         Session!Unlink, Session!Unmark, Session!CheckArchive, Session!Move,
         Session!End, Session!memory, Session!GoTo
<1>a. seen[q].filled /\ seen[q].by \in Processes /\ at[seen[q].by] \in Past
  BY <1>s DEF Session!Live, WrittenOnce
<1>b. at'[seen[q].by] # "gone"
  BY <1>s DEF Session!Live, Session!Alive
<1>c. Session!Alive(seen[q].by) /\ Session!Live(seen[q])
  <2>1. at[seen[q].by] # "gone"
    BY <1>a, <1>b, SessionMoves DEF Flow, Past
  <2> QED BY <1>a, <1>s, <2>1 DEF Session!Live, Session!Alive, Past
<1>3. CASE Session!Revalidate(p) /\ q = p
  <2>1. ~Session!Live(lock)
    BY <1>3 DEF Session!Revalidate, Session!Verdict, Session!GoTo
  <2> QED BY <1>3, <1>c, <1>s, <2>1 DEF Session!Revalidate
<1>4. CASE ~(Session!Revalidate(p) /\ q = p)
  <2>1. at[q] = "unlink"
    BY <1>4
       DEF SessionStep, Session!Begin, Session!Mkdir, Session!WriteState,
           Session!WriteLock, Session!Fill, Session!Acquire, Session!Create,
           Session!Judge, Session!Mark, Session!Lapse, Session!Revalidate,
           Session!Unlink, Session!Unmark, Session!CheckArchive, Session!Move,
           Session!End, Session!GoTo
  <2>2. lock # seen[q]
    BY <1>c, <2>1 DEF LiveOneGone
  <2>3. ~(Session!Fill(p) /\ seen[q].by = p)
    BY <1>a DEF Session!Fill, Past
  <2> QED BY <1>a, <1>s, <2>2, <2>3, LockChanges DEF LockChange, Session!NoLock
<1> QED BY <1>3, <1>4

(* No step of a takeover steals a live lock it has looked at. *)
LEMMA StolenStep ==
  ASSUME Nobody \notin Processes, SessionInv, [Session!Next]_(Session!vars)
  PROVE  LiveLockNotStolen'
<1> USE DEF SessionInv, LiveLockNotStolen
<1>1. CASE UNCHANGED causes
  BY <1>1
<1>2. ASSUME NEW p \in Processes, Session!Unlink(p)
      PROVE  LiveLockNotStolen'
  <2>1. "stolen" \notin Session!Cause(p, Session!Mistake(p))
    <3> SUFFICES ASSUME lock # Session!NoLock, Session!Alive(lock.by),
                        ~lock.expired, lock.filled,
                        seen[p] = lock
                 PROVE  FALSE
      BY DEF Session!Cause, Session!Mistake
    <3> QED BY <1>2 DEF LiveOneGone, Session!Live, Session!Unlink
  <2> QED BY <1>2, <2>1 DEF Session!Unlink
<1>3. ASSUME NEW p \in Processes, Session!WriteLock(p)
      PROVE  LiveLockNotStolen'
  BY <1>3 DEF Session!WriteLock, Session!Cause
<1>4. ASSUME NEW p \in Processes, Session!Move(p)
      PROVE  LiveLockNotStolen'
  BY <1>4 DEF Session!Move, Session!Cause
<1> QED BY <1>1, <1>2, <1>3, <1>4
           DEF Session!Next, Session!vars, Session!Expire, Session!Begin,
               Session!Mkdir, Session!WriteState, Session!Fill,
               Session!Acquire, Session!Create, Session!Judge, Session!Mark,
               Session!Lapse, Session!Revalidate, Session!Unmark,
               Session!CheckArchive, Session!End, Session!memory

(* The strengthening holds in every state of the session lock. *)
THEOREM SessionInvAlways ==
  ASSUME Nobody \notin Processes
  PROVE  Session!Spec => []SessionInv
<1>1. Session!Init => SessionInv
  BY InitSessionInv
<1>2. SessionInv /\ [Session!Next]_(Session!vars) => SessionInv'
  BY SessionTypedStep, SessionHolderNamedStep, TakerNamedStep, WrittenOnceStep,
     LiveOneGoneStep, StolenStep DEF SessionInv
<1> QED BY <1>1, <1>2, PTL DEF Session!Spec

(* _revalidate_before_unlink does its work for any number of commands: a   *)
(* lock that was live when a takeover began is not removed by it unless it *)
(* expires.                                                                *)
THEOREM LiveSessionKept ==
  ASSUME Nobody \notin Processes
  PROVE  Session!Spec => []LiveLockNotStolen
BY SessionInvAlways, PTL DEF SessionInv
-----------------------------------------------------------------------------
(* Every step on the lock is a step of AdvisoryLock or changes nothing     *)
(* there.                                                                  *)
LEMMA SessionAdvisoryStep ==
  ASSUME Nobody \notin Processes, SessionInv, [Session!Next]_(Session!vars)
  PROVE  [Session!Advisory!Next]_(Session!Advisory!vars)
<1> USE DEF SessionInv
<1>1. CASE UNCHANGED Session!vars
  BY <1>1 DEF Session!vars, Session!Advisory!vars, Session!Holders
<1>2. CASE Session!Expire
  BY <1>2
     DEF Session!Expire, Session!memory, Session!Advisory!vars, Session!Holders
<1> SUFFICES ASSUME NEW p \in Processes, SessionStep(p)
             PROVE  Session!Advisory!Next
  BY <1>1, <1>2 DEF Session!Next, SessionStep
<1>b. (causes # {})' \in { causes # {}, TRUE }
  BY DEF SessionStep, Session!Begin, Session!Mkdir, Session!WriteState,
         Session!WriteLock, Session!Fill, Session!Acquire, Session!Create,
         Session!Judge, Session!Mark, Session!Lapse, Session!Revalidate,
         Session!Unlink, Session!Unmark, Session!CheckArchive, Session!Move,
         Session!End, Session!memory
<1>o. \A q \in Processes : q # p => (q \in Session!Holders'
        <=> q \in Session!Holders)
  BY SessionMoves DEF SessionTyped, Session!Holders
<1>s. /\ p \in Session!Holders'
           => Session!Holders' = Session!Holders \cup { p }
      /\ p \notin Session!Holders'
           => Session!Holders' = Session!Holders \ { p }
  BY <1>o DEF Session!Holders
<1>3. CASE p \notin Session!Holders'
  BY <1>3, <1>b, <1>s DEF Session!Advisory!Next, Session!Advisory!Leave
<1>4. CASE p \in Session!Holders /\ p \in Session!Holders'
  <2>1. Session!Holders' = Session!Holders
    BY <1>4, <1>s
  <2> QED BY <1>b, <2>1 DEF Session!Advisory!Next
<1>5. CASE p \notin Session!Holders /\ p \in Session!Holders'
  <2>1. at'[p] \in { "fill", "refill", "keep", "held" }
    BY <1>5 DEF Session!Holders
  <2>2. at[p] \notin { "fill", "refill", "keep", "held" }
    BY <1>5 DEF Session!Holders
  <2>3. at'[p] \in { "fill", "refill" } /\ (Session!WriteLock(p)
          \/ Session!Create(p))
    BY <2>1, <2>2
       DEF SessionStep, Session!Begin, Session!Mkdir, Session!WriteState,
           Session!WriteLock, Session!Fill, Session!Acquire, Session!Create,
           Session!Judge, Session!Mark, Session!Lapse, Session!Revalidate,
           Session!Verdict, Session!Unlink, Session!Unmark,
           Session!CheckArchive, Session!Move, Session!End, Session!GoTo,
           SessionTyped
  <2>4. Session!Holders = {} \/ (causes # {})'
    <3>1. CASE Session!Create(p)
      <4>1. lock = Session!NoLock
        BY <1>5, <2>1, <3>1
           DEF Session!Create, Session!Creatable, Session!GoTo, SessionTyped
      <4> QED BY <3>1, <4>1
                 DEF Session!Create, SessionHolderNamed, Session!NoLock,
                     Session!Holders
    <3>2. CASE Session!WriteLock(p)
      <4>1. causes' = causes \cup Session!Cause(p, "overwritten")
        BY <2>1, <3>2 DEF Session!WriteLock, Session!GoTo, SessionTyped
      <4> QED BY <1>5, <4>1, LossHasCause
    <3> QED BY <2>3, <3>1, <3>2
  <2>5. Session!Advisory!Acquire(p)
    BY <1>5, <1>s, <2>4 DEF Session!Advisory!Acquire
  <2> QED BY <1>b, <2>5 DEF Session!Advisory!Next
<1> QED BY <1>3, <1>4, <1>5

(* lock.json keeps the promise of AdvisoryLock, for any number of commands. *)
THEOREM SessionLockIsAdvisory ==
  ASSUME Nobody \notin Processes
  PROVE  Session!Spec => Session!IsAdvisory
<1>1. Session!Init => Session!Advisory!Init
  BY DEF Session!Init, Session!Advisory!Init, Session!Holders
<1>2. SessionInv /\ [Session!Next]_(Session!vars)
        => [Session!Advisory!Next]_(Session!Advisory!vars)
  BY SessionAdvisoryStep
<1> QED BY <1>1, <1>2, SessionInvAlways, PTL
           DEF Session!Spec, Session!IsAdvisory, Session!Advisory!Spec
-----------------------------------------------------------------------------
(* Every step on the takeover marker is a step of AdvisoryLock or changes  *)
(* nothing there.                                                          *)
LEMMA TakeoverStep ==
  ASSUME Nobody \notin Processes, SessionInv, [Session!Next]_(Session!vars)
  PROVE  [Session!Takeovers!Next]_(Session!Takeovers!vars)
<1> USE DEF SessionInv
<1>1. CASE UNCHANGED Session!vars
  BY <1>1 DEF Session!vars, Session!Takeovers!vars, Session!Takers
<1>2. CASE Session!Expire
  BY <1>2
     DEF Session!Expire, Session!memory, Session!Takeovers!vars, Session!Takers
<1> SUFFICES ASSUME NEW p \in Processes, SessionStep(p)
             PROVE  Session!Takeovers!Next
  BY <1>1, <1>2 DEF Session!Next, SessionStep
<1>b. lapsed' \in { lapsed, TRUE }
  BY DEF SessionStep, Session!Begin, Session!Mkdir, Session!WriteState,
         Session!WriteLock, Session!Fill, Session!Acquire, Session!Create,
         Session!Judge, Session!Mark, Session!Lapse, Session!Revalidate,
         Session!Unlink, Session!Unmark, Session!CheckArchive, Session!Move,
         Session!End, Session!memory, SessionTyped
<1>o. \A q \in Processes : q # p => (q \in Session!Takers'
        <=> q \in Session!Takers)
  BY SessionMoves DEF SessionTyped, Session!Takers
<1>s. /\ p \in Session!Takers' => Session!Takers' = Session!Takers \cup { p }
      /\ p \notin Session!Takers' => Session!Takers' = Session!Takers \ { p }
  BY <1>o DEF Session!Takers
<1>3. CASE p \notin Session!Takers'
  BY <1>3, <1>b, <1>s DEF Session!Takeovers!Next, Session!Takeovers!Leave
<1>4. CASE p \in Session!Takers /\ p \in Session!Takers'
  <2>1. Session!Takers' = Session!Takers
    BY <1>4, <1>s
  <2> QED BY <1>b, <2>1 DEF Session!Takeovers!Next
<1>5. CASE p \notin Session!Takers /\ p \in Session!Takers'
  <2>1. Session!Mark(p) /\ marker = Nobody
    BY <1>5
       DEF SessionStep, Session!Begin, Session!Mkdir, Session!WriteState,
           Session!WriteLock, Session!Fill, Session!Acquire, Session!Create,
           Session!Judge, Session!Mark, Session!Lapse, Session!Revalidate,
           Session!Verdict, Session!Unlink, Session!Unmark,
           Session!CheckArchive, Session!Move, Session!End, Session!GoTo,
           SessionTyped, Session!Takers
  <2>2. Session!Takers = {} \/ lapsed'
    BY <2>1, <1>b DEF TakerNamed, Session!Takers
  <2>3. Session!Takeovers!Acquire(p)
    BY <1>5, <1>s, <2>2 DEF Session!Takeovers!Acquire
  <2> QED BY <1>b, <2>3 DEF Session!Takeovers!Next
<1> QED BY <1>3, <1>4, <1>5

(* So does the takeover marker.                                            *)
THEOREM TakeoverMarkerIsAdvisory ==
  ASSUME Nobody \notin Processes
  PROVE  Session!Spec => Session!TakeoverIsAdvisory
<1>1. Session!Init => Session!Takeovers!Init
  BY DEF Session!Init, Session!Takeovers!Init, Session!Takers
<1>2. SessionInv /\ [Session!Next]_(Session!vars)
        => [Session!Takeovers!Next]_(Session!Takeovers!vars)
  BY TakeoverStep
<1> QED BY <1>1, <1>2, SessionInvAlways, PTL
           DEF Session!Spec, Session!TakeoverIsAdvisory, Session!Takeovers!Spec
-----------------------------------------------------------------------------

ArtifactPlaces ==
  { "unborn", "try", "age", "break", "compare", "replace", "unlock", "gone" }

Causes == { "release", "slow", "late" }

(* The types on which the argument rests. *)
ArtifactTyped == /\ at \in [Processes -> ArtifactPlaces]
         /\ lock \in Processes \cup { Nobody }
         /\ expect \in [Processes -> Processes \cup { Blind }]
         /\ file \in Processes \cup { Blind }
         /\ causes \subseteq Causes

(* As long as no live process has lost its lock, the holder created it, and *)
(* what a holder compared is still in the file when it replaces it.        *)
HolderOwns == causes = {} => \A p \in Artifact!Holders : lock = p

ComparedStill ==
  causes = {} => \A p \in Processes : at[p] = "replace" => Artifact!Matches(p)

(* The inductive invariant. *)
WriteInv == /\ ArtifactTyped
            /\ HolderOwns
            /\ ComparedStill
            /\ Artifact!ReleaseFollowsBreak

ArtifactStep(p) == \/ Artifact!Load(p) \/ Artifact!Try(p) \/ Artifact!Age(p)
  \/ Artifact!Break(p)
           \/ Artifact!Compare(p) \/ Artifact!Replace(p) \/ Artifact!Unlock(p)
           \/ Artifact!Crash(p)
-----------------------------------------------------------------------------
(* The invariant holds before any write. *)
LEMMA InitWriteInv ==
  ASSUME Nobody \notin Processes, Artifact!Init
  PROVE  WriteInv
BY DEF Artifact!Init, WriteInv, ArtifactTyped, ArtifactPlaces, HolderOwns,
       Artifact!Holders, ComparedStill, Artifact!ReleaseFollowsBreak

(* Where an action leaves its process. *)
LEMMA ArtifactMoves ==
  ASSUME ArtifactTyped, NEW p \in Processes, ArtifactStep(p)
  PROVE  /\ \E w \in ArtifactPlaces : at' = [at EXCEPT ![p] = w]
         /\ Artifact!Age(p) \/ Artifact!Break(p)
              => \E w \in ArtifactPlaces \ { "compare", "replace", "unlock" } :
              at' = [at EXCEPT ![p] = w]
         /\ Artifact!Compare(p) => \E w \in { "replace", "unlock" } :
              at' = [at EXCEPT ![p] = w]
<1> USE DEF ArtifactPlaces, Artifact!GoTo, Artifact!FailAttempt
<1>1. CASE Artifact!Load(p) BY <1>1
                               DEF Artifact!Load, Artifact!Age, Artifact!Break,
                                   Artifact!Compare, ArtifactTyped
<1>2. CASE Artifact!Try(p) BY <1>2
                              DEF Artifact!Try, Artifact!Age, Artifact!Break,
                                  Artifact!Compare, ArtifactTyped
<1>3. CASE Artifact!Age(p) BY <1>3
                              DEF Artifact!Age, Artifact!Compare, ArtifactTyped
<1>4. CASE Artifact!Break(p) BY <1>4
                                DEF Artifact!Break, Artifact!Compare,
                                    ArtifactTyped
<1>5. CASE Artifact!Compare(p) BY <1>5
                                  DEF Artifact!Compare, Artifact!Age,
                                      Artifact!Break, ArtifactTyped
<1>6. CASE Artifact!Replace(p) BY <1>6
                                  DEF Artifact!Replace, Artifact!Age,
                                      Artifact!Break, Artifact!Compare,
                                      ArtifactTyped
<1>7. CASE Artifact!Unlock(p) BY <1>7
                                 DEF Artifact!Unlock, Artifact!Age,
                                     Artifact!Break, Artifact!Compare,
                                     ArtifactTyped
<1>8. CASE Artifact!Crash(p)
  <2>1. at' = [at EXCEPT ![p] = "gone"] BY <1>8 DEF Artifact!Crash
  <2> QED BY <1>8, <2>1 DEF Artifact!Crash, Artifact!Compare, ArtifactTyped
<1> QED BY <1>1, <1>2, <1>3, <1>4, <1>5, <1>6, <1>7, <1>8 DEF ArtifactStep

(* Every step keeps the types. *)
LEMMA ArtifactTypedStep ==
  ASSUME WriteInv, [Artifact!Next]_(Artifact!vars)
  PROVE  ArtifactTyped'
<1> USE DEF WriteInv
<1>1. CASE UNCHANGED Artifact!vars
  BY <1>1 DEF Artifact!vars, ArtifactTyped
<1> SUFFICES ASSUME NEW p \in Processes, ArtifactStep(p)
             PROVE  ArtifactTyped'
  BY <1>1 DEF Artifact!Next, ArtifactStep
<1>2. at' \in [Processes -> ArtifactPlaces]
  BY ArtifactMoves DEF ArtifactTyped
<1>3. Artifact!Cause(p) \subseteq Causes
  BY DEF Artifact!Cause, Causes
<1>4. lock' \in Processes \cup { Nobody }
  BY DEF ArtifactTyped, ArtifactStep, Artifact!Load, Artifact!Try,
         Artifact!Age, Artifact!Break, Artifact!Compare, Artifact!Replace,
         Artifact!Unlock, Artifact!Crash
<1>5. /\ file' \in Processes \cup { Blind }
      /\ expect' \in [Processes -> Processes \cup { Blind }]
  BY DEF ArtifactTyped, ArtifactStep, Artifact!Load, Artifact!Try,
         Artifact!Age, Artifact!Break, Artifact!Compare, Artifact!Replace,
         Artifact!Unlock, Artifact!Crash
<1>6. causes' \subseteq Causes
  BY <1>3
     DEF ArtifactTyped, ArtifactStep, Artifact!Load, Artifact!Try,
         Artifact!Age, Artifact!Break, Artifact!Compare, Artifact!Replace,
         Artifact!Unlock, Artifact!Crash
<1> QED BY <1>2, <1>4, <1>5, <1>6 DEF ArtifactTyped

(* An unlink costs another holder its lock only with a cause. *)
LEMMA ArtifactUnlinkHasCause ==
  ASSUME Nobody \notin Processes, WriteInv, NEW p \in Processes,
         causes \cup Artifact!Cause(p) = {}
  PROVE  \A q \in Artifact!Holders : q = p
<1> SUFFICES ASSUME NEW q \in Artifact!Holders, q # p
             PROVE  FALSE
  OBVIOUS
<1>1. lock = q /\ causes = {}
  BY DEF WriteInv, HolderOwns
<1>2. q \in Processes /\ Artifact!Alive(q)
  BY DEF Artifact!Holders, Artifact!Alive
<1> QED BY <1>1, <1>2 DEF Artifact!Cause

(* Whoever creates the lock file is its only holder; an unlink either is   *)
(* its own or has a cause.                                                 *)
LEMMA HolderOwnsStep ==
  ASSUME Nobody \notin Processes, WriteInv, [Artifact!Next]_(Artifact!vars)
  PROVE  HolderOwns'
<1> USE DEF WriteInv
<1>1. CASE UNCHANGED Artifact!vars
  BY <1>1 DEF Artifact!vars, HolderOwns, Artifact!Holders
<1> SUFFICES ASSUME NEW p \in Processes, ArtifactStep(p), causes' = {},
                    NEW q \in Artifact!Holders'
             PROVE  lock' = q
  BY <1>1 DEF Artifact!Next, ArtifactStep, HolderOwns
<1>q. q \in Processes /\ at'[q] \in { "compare", "replace", "unlock" }
  BY DEF Artifact!Holders
<1>o. q # p => q \in Artifact!Holders
  BY ArtifactMoves, <1>q DEF ArtifactTyped, Artifact!Holders
<1> USE DEF ArtifactTyped, HolderOwns
<1>2. CASE Artifact!Load(p) \/ Artifact!Crash(p)
  BY <1>2, <1>q, <1>o DEF Artifact!Load, Artifact!Crash, Artifact!GoTo
<1>3. CASE Artifact!Try(p)
  <2>1. causes = {}
    BY <1>3 DEF Artifact!Try
  <2>2. CASE lock = Nobody
    BY <1>3, <2>1, <2>2, <1>o DEF Artifact!Try, Artifact!Holders
  <2>3. CASE lock # Nobody
    BY <1>3, <2>1, <2>3, <1>q, <1>o DEF Artifact!Try, Artifact!GoTo
  <2> QED BY <2>2, <2>3
<1>4. CASE Artifact!Age(p)
  <2>1. q # p
    BY <1>4, <1>q, ArtifactMoves
  <2> QED BY <1>4, <2>1, <1>o DEF Artifact!Age
<1>5. CASE Artifact!Break(p)
  <2>1. q # p
    BY <1>5, <1>q, ArtifactMoves
  <2> QED BY <1>5, <2>1, <1>o, ArtifactUnlinkHasCause DEF Artifact!Break
<1>6. CASE Artifact!Compare(p) \/ Artifact!Replace(p)
  <2>1. p \in Artifact!Holders /\ lock' = lock /\ causes' = causes
    BY <1>6 DEF Artifact!Compare, Artifact!Replace, Artifact!Holders
  <2> QED BY <2>1, <1>o
<1>7. CASE Artifact!Unlock(p)
  BY <1>7, <1>q, <1>o, ArtifactUnlinkHasCause
     DEF Artifact!Unlock, Artifact!GoTo
<1> QED BY <1>2, <1>3, <1>4, <1>5, <1>6, <1>7 DEF ArtifactStep

(* Nobody else replaces the file between a compare and its replacement. *)
LEMMA ComparedStillStep ==
  ASSUME Nobody \notin Processes, WriteInv, [Artifact!Next]_(Artifact!vars)
  PROVE  ComparedStill'
<1> USE DEF WriteInv
<1>1. CASE UNCHANGED Artifact!vars
  BY <1>1 DEF Artifact!vars, ComparedStill, Artifact!Matches
<1> SUFFICES ASSUME NEW p \in Processes, ArtifactStep(p), causes' = {},
                    NEW q \in Processes, at'[q] = "replace"
             PROVE  Artifact!Matches(q)'
  BY <1>1 DEF Artifact!Next, ArtifactStep, ComparedStill
<1>c. causes = {}
  BY DEF ArtifactStep, Artifact!Load, Artifact!Try, Artifact!Age,
         Artifact!Break, Artifact!Compare, Artifact!Replace, Artifact!Unlock,
         Artifact!Crash
<1> USE DEF ArtifactTyped, ComparedStill, Artifact!Matches
<1>2. CASE Artifact!Load(p)
  BY <1>2, <1>c DEF Artifact!Load, Artifact!GoTo
<1>3. CASE Artifact!Try(p) \/ Artifact!Unlock(p) \/ Artifact!Crash(p)
  BY <1>3, <1>c
     DEF Artifact!Try, Artifact!Unlock, Artifact!Crash, Artifact!GoTo
<1>4. CASE Artifact!Age(p) \/ Artifact!Break(p)
  <2>1. q # p /\ at[q] = "replace"
    BY <1>4, ArtifactMoves
  <2> QED BY <1>4, <1>c, <2>1 DEF Artifact!Age, Artifact!Break
<1>5. CASE Artifact!Compare(p)
  BY <1>5, <1>c DEF Artifact!Compare, Artifact!GoTo
<1>6. CASE Artifact!Replace(p)
  <2>1. q # p /\ at[q] = "replace"
    BY <1>6 DEF Artifact!Replace, Artifact!GoTo
  <2>2. lock = p /\ lock = q
    BY <1>6, <1>c, <2>1 DEF HolderOwns, Artifact!Holders, Artifact!Replace
  <2> QED BY <2>1, <2>2
<1> QED BY <1>2, <1>3, <1>4, <1>5, <1>6 DEF ArtifactStep

(* The first lock taken from a live writer is taken by a break, not by a   *)
(* release.                                                                *)
LEMMA ReleaseStep ==
  ASSUME WriteInv, [Artifact!Next]_(Artifact!vars)
  PROVE  Artifact!ReleaseFollowsBreak'
<1> USE DEF WriteInv, Artifact!ReleaseFollowsBreak
<1>1. CASE UNCHANGED causes
  BY <1>1
<1>2. ASSUME NEW p \in Processes, Artifact!Break(p)
      PROVE  Artifact!ReleaseFollowsBreak'
  BY <1>2 DEF Artifact!Break, Artifact!Cause
<1>3. ASSUME NEW p \in Processes, Artifact!Unlock(p)
      PROVE  Artifact!ReleaseFollowsBreak'
  <2>1. Artifact!Cause(p) \subseteq { "release" }
    BY <1>3 DEF Artifact!Cause, Artifact!Unlock
  <2>2. causes = {} => Artifact!Cause(p) = {}
    BY <1>3 DEF Artifact!Cause, Artifact!Unlock, HolderOwns, Artifact!Holders
  <2> QED BY <1>3, <2>1, <2>2 DEF Artifact!Unlock
<1> QED BY <1>1, <1>2, <1>3
           DEF Artifact!Next, Artifact!vars, Artifact!Load, Artifact!Try,
               Artifact!Age, Artifact!Compare, Artifact!Replace, Artifact!Crash

(* The invariant is inductive. *)
LEMMA WriteInvStep ==
  ASSUME Nobody \notin Processes, WriteInv, [Artifact!Next]_(Artifact!vars)
  PROVE  WriteInv'
BY ArtifactTypedStep, HolderOwnsStep, ComparedStillStep, ReleaseStep
   DEF WriteInv

(* The strengthening holds in every state of the write protocol. *)
THEOREM WriteInvAlways ==
  ASSUME Nobody \notin Processes
  PROVE  Artifact!Spec => []WriteInv
BY InitWriteInv, WriteInvStep, PTL DEF Artifact!Spec

(* finally: os.unlink takes the lock of another writer only after the lock *)
(* of a live writer was broken.                                            *)
THEOREM ArtifactReleaseIsSecond ==
  ASSUME Nobody \notin Processes
  PROVE  Artifact!Spec => []Artifact!ReleaseFollowsBreak
BY WriteInvAlways, PTL DEF WriteInv
-----------------------------------------------------------------------------
(* The initial state of the lock is that of AdvisoryLock. *)
LEMMA ArtifactAdvisoryInit ==
  ASSUME Artifact!Init
  PROVE  Artifact!Advisory!Init
BY DEF Artifact!Init, Artifact!Advisory!Init, Artifact!Holders

(* Every step on the lock is a step of AdvisoryLock or changes nothing     *)
(* there.                                                                  *)
LEMMA ArtifactAdvisoryStep ==
  ASSUME Nobody \notin Processes, WriteInv, [Artifact!Next]_(Artifact!vars)
  PROVE  [Artifact!Advisory!Next]_(Artifact!Advisory!vars)
<1> USE DEF WriteInv
<1>1. CASE UNCHANGED Artifact!vars
  BY <1>1 DEF Artifact!vars, Artifact!Advisory!vars, Artifact!Holders
<1> SUFFICES ASSUME NEW p \in Processes, ArtifactStep(p)
             PROVE  Artifact!Advisory!Next
  BY <1>1 DEF Artifact!Next, ArtifactStep
<1>b. (causes # {})' \in { causes # {}, TRUE }
  BY DEF ArtifactStep, Artifact!Load, Artifact!Try, Artifact!Age,
         Artifact!Break, Artifact!Compare, Artifact!Replace, Artifact!Unlock,
         Artifact!Crash
<1>o. \A q \in Processes : q # p => (q \in Artifact!Holders'
        <=> q \in Artifact!Holders)
  BY ArtifactMoves DEF ArtifactTyped, Artifact!Holders
<1>s. /\ p \in Artifact!Holders'
           => Artifact!Holders' = Artifact!Holders \cup { p }
      /\ p \notin Artifact!Holders'
           => Artifact!Holders' = Artifact!Holders \ { p }
  BY <1>o DEF Artifact!Holders
<1>2. CASE p \notin Artifact!Holders'
  BY <1>2, <1>b, <1>s DEF Artifact!Advisory!Next, Artifact!Advisory!Leave
<1>3. CASE p \in Artifact!Holders /\ p \in Artifact!Holders'
  <2>1. Artifact!Holders' = Artifact!Holders
    BY <1>3, <1>s
  <2> QED BY <1>b, <2>1 DEF Artifact!Advisory!Next
<1>4. CASE p \notin Artifact!Holders /\ p \in Artifact!Holders'
  <2>0. at[p] \notin { "compare", "replace", "unlock" }
    BY <1>4 DEF Artifact!Holders
  <2>1. at'[p] \in { "compare", "replace", "unlock" }
    BY <1>4 DEF Artifact!Holders
  <2>2. ~(Artifact!Load(p) \/ Artifact!Age(p) \/ Artifact!Break(p)
          \/ Artifact!Crash(p))
    BY <2>1, ArtifactMoves
       DEF Artifact!Load, Artifact!Crash, Artifact!GoTo, ArtifactTyped
  <2>3. Artifact!Try(p) /\ lock = Nobody
    BY <2>0, <2>1, <2>2
       DEF ArtifactStep, Artifact!Try, Artifact!Compare, Artifact!Replace,
           Artifact!Unlock, Artifact!GoTo, ArtifactTyped
  <2>4. Artifact!Holders = {} \/ causes # {}
    BY <2>3 DEF HolderOwns, Artifact!Holders
  <2>5. causes' = causes
    BY <2>3 DEF Artifact!Try
  <2>6. Artifact!Advisory!Acquire(p)
    BY <1>4, <1>s, <2>4, <2>5 DEF Artifact!Advisory!Acquire
  <2> QED BY <1>b, <2>6 DEF Artifact!Advisory!Next
<1> QED BY <1>2, <1>3, <1>4

(* The .lock file keeps the promise of AdvisoryLock for any writers.       *)
THEOREM WriteLockIsAdvisory ==
  ASSUME Nobody \notin Processes
  PROVE  Artifact!Spec => Artifact!IsAdvisory
<1>1. Artifact!Init => Artifact!Advisory!Init
  BY ArtifactAdvisoryInit
<1>2. WriteInv /\ [Artifact!Next]_(Artifact!vars)
        => [Artifact!Advisory!Next]_(Artifact!Advisory!vars)
  BY ArtifactAdvisoryStep
<1> QED BY <1>1, <1>2, WriteInvAlways, PTL
           DEF Artifact!Spec, Artifact!IsAdvisory, Artifact!Advisory!Spec
-----------------------------------------------------------------------------
(* The initial state of the file is that of AtomicSave. *)
LEMMA SaveInit ==
  ASSUME Artifact!Init
  PROVE  Artifact!Save!Init
BY DEF Artifact!Init, Artifact!Save!Init

(* A replacement is a save of AtomicSave, every other step a load or none. *)
LEMMA SaveStep ==
  ASSUME Nobody \notin Processes, WriteInv, [Artifact!Next]_(Artifact!vars)
  PROVE  [Artifact!Save!Next]_(Artifact!Save!vars)
<1> USE DEF WriteInv
<1>1. CASE UNCHANGED Artifact!vars
  BY <1>1 DEF Artifact!vars, Artifact!Save!vars
<1> SUFFICES ASSUME NEW p \in Processes, ArtifactStep(p)
             PROVE  Artifact!Save!Next
  BY <1>1 DEF Artifact!Next, ArtifactStep
<1>b. (causes # {})' \in { causes # {}, TRUE }
  BY DEF ArtifactStep, Artifact!Load, Artifact!Try, Artifact!Age,
         Artifact!Break, Artifact!Compare, Artifact!Replace, Artifact!Unlock,
         Artifact!Crash
<1>2. CASE UNCHANGED << file, expect >>
  BY <1>2, <1>b DEF Artifact!Save!Next
<1>3. CASE Artifact!Load(p)
  <2>1. Artifact!Save!Load(p)
    BY <1>3 DEF Artifact!Load, Artifact!Save!Load
  <2> QED BY <1>b, <2>1 DEF Artifact!Save!Next
<1>4. CASE Artifact!Replace(p) /\ file' = p
  <2>1. expect[p] \in { file, Blind } \/ causes # {}
    BY <1>4 DEF Artifact!Replace, ComparedStill, Artifact!Matches
  <2>2. Artifact!Save!Save(p)
    BY <1>4, <2>1 DEF Artifact!Replace, Artifact!Save!Save
  <2> QED BY <1>b, <2>2 DEF Artifact!Save!Next
<1> QED BY <1>2, <1>3, <1>4
           DEF ArtifactStep, Artifact!Try, Artifact!Age, Artifact!Break,
               Artifact!Compare, Artifact!Replace, Artifact!Unlock,
               Artifact!Crash

(* write_artifact_atomic is the one-step save of AtomicSave: for any number *)
(* of writers, an update is lost only after a live writer's lock was broken. *)
THEOREM WriteIsAtomic ==
  ASSUME Nobody \notin Processes
  PROVE  Artifact!Spec => Artifact!SaveIsAtomic
<1>1. Artifact!Init => Artifact!Save!Init
  BY SaveInit
<1>2. WriteInv /\ [Artifact!Next]_(Artifact!vars)
        => [Artifact!Save!Next]_(Artifact!Save!vars)
  BY SaveStep
<1> QED BY <1>1, <1>2, WriteInvAlways, PTL
           DEF Artifact!Spec, Artifact!SaveIsAtomic, Artifact!Save!Spec
=============================================================================
