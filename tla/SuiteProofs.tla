---------------------------- MODULE SuiteProofs -----------------------------
(***************************************************************************)
(* Proofs about the locks and the record of the test runner (SuiteRunner   *)
(* in Files), for any set of runs and worktrees.                           *)
(***************************************************************************)
EXTENDS Files, TLAPS

(* Names that are told apart. *)
SuitesApart == Nobody \notin Processes /\ Common \notin Worktrees

SuitesStep(p) ==
  \/ Suites!Begin(p) \/ Suites!Probe(p) \/ Suites!Mark(p)
  \/ Suites!Look(p) \/ Suites!Read(p) \/ Suites!Clear(p) \/ Suites!Create(p)
  \/ Suites!Fill(p)
  \/ Suites!Start(p) \/ Suites!Finish(p) \/ Suites!Release(p)
  \/ Suites!Leave(p) \/ Suites!Yield(p)
  \/ Suites!Crash(p)

(* Until it is taken from a live run, a lock names whoever owns it, with   *)
(* its pid unless that is still being written.                             *)
OwnerNamed ==
  \A f \in Suites!Files :
    Suites!Broken(f) \/ \A p \in Suites!Holders(f) :
      lock[f].by = p /\ (at[p] # "fill" \/ Suites!File(p) # f
        => lock[f].filled)

(* Who has the slot lives. *)
GrantedAlive == \A p \in Processes : mode[p] = "granted" => Suites!Alive(p)

(* A run has been where its record says, in the worktree of the record.    *)
Recorded(p, w) ==
  home[p] = w /\ at[p] \in { "run", "release", "leave", "yield", "gone" }

RecordsTrue ==
  /\ \A w \in Worktrees : lastRun[w].status = "started"
       => Recorded(lastRun[w].by, w)
  /\ \A p \in Processes : prev[p] # Nobody => Recorded(prev[p], home[p])

(* Whoever marks a record found that its run holds no lock any more.       *)
MarkedIsDead ==
  \A p \in Processes :
    at[p] = "mark" =>
      Suites!Broken(home[p]) \/ at[prev[p]] \in { "leave", "yield", "gone" }

(* Nobody is named in a lock before it starts; the slot that is about to   *)
(* be cleared, if it was readable, is that of a dead run or of this        *)
(* worktree.                                                               *)
SlotJudged ==
  /\ \A f \in Suites!Files : lock[f] # Suites!NoLock
       => at[lock[f].by] # "unborn"
  /\ \A p \in Processes :
       at[p] = "clear" /\ Suites!File(p) = Common /\ seen[p] # Suites!NoLock
         /\ seen[p].filled
         => at[seen[p].by] = "gone" \/ home[seen[p].by] = home[p]

(* The inductive invariant. *)
SuiteInv == /\ Suites!TypeOK
            /\ OwnerNamed
            /\ GrantedAlive
            /\ RecordsTrue
            /\ MarkedIsDead
            /\ Suites!AbortedIsDead
            /\ SlotJudged
            /\ LiveLockNotStolen
-----------------------------------------------------------------------------
(* The invariant holds before any run starts. *)
LEMMA InitSuiteInv ==
  ASSUME SuitesApart, Suites!Init
  PROVE  SuiteInv
<1> USE DEF SuitesApart, Suites!Init
<1>1. Suites!TypeOK
  BY DEF Suites!TypeOK, Suites!NoLock, Suites!Places, Suites!LockStates,
         Suites!Files, Suites!Records
<1>2. OwnerNamed
  BY DEF OwnerNamed, Suites!Holders, Suites!Owns
<1>g. GrantedAlive
  BY DEF GrantedAlive
<1>3. RecordsTrue /\ MarkedIsDead /\ Suites!AbortedIsDead /\ SlotJudged
        /\ LiveLockNotStolen
  BY DEF RecordsTrue, MarkedIsDead, Suites!AbortedIsDead, SlotJudged,
         LiveLockNotStolen, Suites!Files
<1> QED BY <1>1, <1>2, <1>g, <1>3 DEF SuiteInv

(* A step is about one run, whose file is one of the files.                *)
LEMMA FileIsFile ==
  ASSUME Suites!TypeOK, NEW p \in Processes
  PROVE  Suites!File(p) \in Suites!Files /\ home[p] \in Suites!Files
BY DEF Suites!TypeOK, Suites!File, Suites!Files

(* What a refusal does. *)
LEMMA RefuseDoes ==
  ASSUME Suites!TypeOK, NEW p \in Processes, Suites!Refuse(p)
  PROVE  \E where \in { "gone", "look" }, m \in { "seeking", "waiting", "forced" } :
           /\ at' = [at EXCEPT ![p] = where]
           /\ mode' = [mode EXCEPT ![p] = m]
BY DEF Suites!Refuse, Suites!End, Suites!GoTo

(* An unlink keeps the types. *)
LEMMA RemoveTyped ==
  ASSUME Suites!TypeOK, NEW p \in Processes, NEW f \in Suites!Files,
         Suites!Remove(p, f)
  PROVE  /\ lock' \in [Suites!Files -> Suites!LockStates]
         /\ broken' \subseteq Suites!Files /\ causes' \subseteq Suites!Whys
         /\ broken \subseteq broken'
<1>1. lock' \in [Suites!Files -> Suites!LockStates]
  BY DEF Suites!TypeOK, Suites!Remove, Suites!LockStates, Suites!NoLock
<1>2. Suites!Why(p, f) \in Suites!Whys
  BY DEF Suites!Why, Suites!Whys
<1> QED BY <1>1, <1>2 DEF Suites!TypeOK, Suites!Remove, Suites!history

(* Every step keeps the types. *)
LEMMA SuitesTypeStep ==
  ASSUME SuitesApart, Suites!TypeOK, [Suites!Next]_(Suites!vars)
  PROVE  Suites!TypeOK'
<1>1. CASE UNCHANGED Suites!vars
  BY <1>1
     DEF Suites!vars, Suites!TypeOK, Suites!NoLock, Suites!LockStates,
         Suites!history
<1> SUFFICES ASSUME NEW p \in Processes, SuitesStep(p)
             PROVE  Suites!TypeOK'
  BY <1>1 DEF Suites!Next, SuitesStep
<1>f. Suites!File(p) \in Suites!Files /\ home[p] \in Suites!Files
  BY FileIsFile
<1> USE DEF Suites!TypeOK, Suites!Places, Suites!GoTo, SuitesApart,
            Suites!locks, Suites!records, Suites!history
<1>2. CASE Suites!Begin(p)
  <2>1. lastRun[home[p]] \in Suites!Records
    OBVIOUS
  <2>2. lastRun[home[p]].status = "started"
          => lastRun[home[p]].by \in Processes
    BY <2>1 DEF Suites!Records
  <2>3. \A q \in Processes : at'[q] \in { "probe", "mark" }
          => prev'[q] \in Processes
    BY <1>2, <2>2 DEF Suites!Begin
  <2> QED BY <1>2, <2>2, <2>3 DEF Suites!Begin
<1>3. CASE Suites!Probe(p) BY <1>3 DEF Suites!Probe
<1>4. CASE Suites!Mark(p)
  <2>1. prev[p] \in Processes
    BY <1>4 DEF Suites!Mark
  <2>2. Suites!Row(prev[p], "aborted") \in Suites!Records
    BY <2>1 DEF Suites!Row, Suites!Records
  <2>3. lastRun' \in [Worktrees -> Suites!Records]
    BY <1>4, <2>2 DEF Suites!Mark
  <2> QED BY <1>4, <2>3 DEF Suites!Mark
<1>5. CASE Suites!Look(p) BY <1>5 DEF Suites!Look
<1>6. CASE Suites!Read(p)
  <2>1. CASE Suites!Refuse(p) /\ UNCHANGED seen
    BY <1>6, <2>1, RefuseDoes DEF Suites!Read
  <2>2. CASE seen' = [seen EXCEPT ![p] = lock[Suites!File(p)]]
               /\ Suites!GoTo(p, "clear") /\ UNCHANGED mode
    BY <1>6, <2>2, <1>f DEF Suites!Read
  <2> QED BY <1>6, <2>1, <2>2 DEF Suites!Read
<1>7. CASE Suites!Clear(p)
  <2>1. Suites!NoLock \in Suites!LockStates
    BY DEF Suites!LockStates
  <2> QED BY <1>7, <2>1, <1>f, RemoveTyped DEF Suites!Clear
<1>8. CASE Suites!Create(p)
  <2>1. CASE Suites!Refuse(p) /\ UNCHANGED lock
    BY <1>8, <2>1, RefuseDoes DEF Suites!Create
  <2>2. CASE /\ lock' = [lock EXCEPT ![Suites!File(p)] = [ by |-> p, filled |-> FALSE ]]
             /\ Suites!GoTo(p, "fill") /\ UNCHANGED mode
    <3>1. [ by |-> p, filled |-> FALSE ] \in Suites!LockStates
      BY DEF Suites!LockStates
    <3>2. lock' \in [Suites!Files -> Suites!LockStates]
      BY <2>2, <3>1
    <3> QED BY <1>8, <2>2, <3>2 DEF Suites!Create
  <2> QED BY <1>8, <2>1, <2>2 DEF Suites!Create
<1>9. CASE Suites!Fill(p)
  <2>1. lock' \in [Suites!Files -> Suites!LockStates]
    <3>1. CASE lock[Suites!File(p)].by = p
      <4>1. lock[Suites!File(p)] \in [ by : Processes, filled : BOOLEAN ]
        BY <3>1, <1>f DEF Suites!LockStates, Suites!NoLock
      <4>2. [lock[Suites!File(p)] EXCEPT !.filled = TRUE] \in Suites!LockStates
        BY <4>1 DEF Suites!LockStates
      <4>3. lock' = [lock EXCEPT ![Suites!File(p)] = [lock[Suites!File(p)] EXCEPT !.filled = TRUE]]
        BY <1>9, <3>1 DEF Suites!Fill
      <4> QED BY <4>2, <4>3
    <3>2. CASE lock[Suites!File(p)].by # p
      BY <1>9, <3>2 DEF Suites!Fill
    <3> QED BY <3>1, <3>2
  <2> QED BY <1>9, <2>1 DEF Suites!Fill
<1>10. CASE Suites!Start(p)
  <2>1. Suites!Row(p, "started") \in Suites!Records
    BY DEF Suites!Row, Suites!Records
  <2> QED BY <1>10, <2>1 DEF Suites!Start
<1>11. CASE Suites!Finish(p)
  <2>1. Suites!Row(p, "started") \in Suites!Records
          /\ Suites!Row(p, "finished") \in Suites!Records
    BY DEF Suites!Row, Suites!Records
  <2> QED BY <1>11, <2>1 DEF Suites!Finish
<1>12. CASE Suites!Release(p) BY <1>12, <1>f, RemoveTyped DEF Suites!Release
<1>13. CASE Suites!Leave(p) BY <1>13 DEF Suites!Leave, Suites!End
<1>14. CASE Suites!Yield(p)
  <2>1. Common \in Suites!Files
    BY DEF Suites!Files
  <2> QED BY <1>14, <2>1, RemoveTyped DEF Suites!Yield, Suites!End
<1>15. CASE Suites!Crash(p)
  <2>1. Suites!NoLock \in Suites!LockStates
    BY DEF Suites!LockStates
  <2> QED BY <1>15, <2>1 DEF Suites!Crash, Suites!End
<1> QED BY <1>2, <1>3, <1>4, <1>5, <1>6, <1>7, <1>8, <1>9, <1>10, <1>11, <1>12,
           <1>13, <1>14, <1>15 DEF SuitesStep

(* A step of p moves no other run.                                         *)
LEMMA OthersStay ==
  ASSUME Suites!TypeOK, NEW p \in Processes, SuitesStep(p),
         NEW q \in Processes, q # p
  PROVE  at'[q] = at[q] /\ mode'[q] = mode[q] /\ home' = home
<1> USE DEF Suites!TypeOK, Suites!GoTo, Suites!End, Suites!locks,
            Suites!records
<1>1. home' = home
  BY DEF SuitesStep, Suites!Begin, Suites!Probe, Suites!Mark, Suites!Look,
         Suites!Read, Suites!Clear, Suites!Create, Suites!Fill, Suites!Start,
         Suites!Finish, Suites!Release, Suites!Leave, Suites!Yield,
         Suites!Crash
<1>2. CASE Suites!Read(p)
  BY <1>1, <1>2, RefuseDoes DEF Suites!Read
<1>3. CASE Suites!Create(p)
  BY <1>1, <1>3, RefuseDoes DEF Suites!Create
<1>4. CASE ~Suites!Read(p) /\ ~Suites!Create(p)
  BY <1>1, <1>4
     DEF SuitesStep, Suites!Begin, Suites!Probe, Suites!Mark, Suites!Look,
         Suites!Clear, Suites!Fill, Suites!Start, Suites!Finish,
         Suites!Release, Suites!Leave, Suites!Yield, Suites!Crash
<1> QED BY <1>2, <1>3, <1>4

(* What was broken stays broken.                                           *)
LEMMA CausesGrow ==
  ASSUME SuitesApart, Suites!TypeOK, NEW p \in Processes, SuitesStep(p)
  PROVE  broken \subseteq broken' /\ \A f \in Suites!Files : Suites!Broken(f)
           => Suites!Broken(f)'
<1>1. broken \subseteq broken'
  BY DEF SuitesStep, Suites!Begin, Suites!Probe, Suites!Mark, Suites!Look,
         Suites!Read, Suites!Clear, Suites!Create, Suites!Fill, Suites!Start,
         Suites!Finish, Suites!Release, Suites!Leave, Suites!Yield,
         Suites!Crash, Suites!locks, Suites!records, Suites!Remove,
         Suites!history
<1> QED BY <1>1 DEF Suites!Broken

(* An unlink that breaks nothing hits no live run but its own.             *)
LEMMA RemoveSpares ==
  ASSUME SuitesApart, Suites!TypeOK, NEW p \in Processes,
         NEW f \in Suites!Files, Suites!Remove(p, f), ~Suites!Broken(f)',
         NEW q \in Processes, q # p, Suites!Alive(q)
  PROVE  lock[f].by # q
<1> SUFFICES ASSUME lock[f].by = q
             PROVE  FALSE
  OBVIOUS
<1>1. lock[f] # Suites!NoLock
  BY DEF Suites!NoLock, SuitesApart
<1>2. f \in broken'
  BY <1>1 DEF Suites!Remove
<1> QED BY <1>2 DEF Suites!Broken

(* A step keeps alive who has the slot.                                    *)
LEMMA GrantedAliveStep ==
  ASSUME SuitesApart, SuiteInv, [Suites!Next]_(Suites!vars)
  PROVE  GrantedAlive'
<1> USE DEF SuiteInv, Suites!TypeOK
<1>1. CASE UNCHANGED Suites!vars
  BY <1>1 DEF Suites!vars, GrantedAlive, Suites!Alive
<1> SUFFICES ASSUME NEW p \in Processes, SuitesStep(p), mode'[p] = "granted"
             PROVE  Suites!Alive(p)'
  BY <1>1, OthersStay DEF Suites!Next, SuitesStep, GrantedAlive, Suites!Alive
<1> USE DEF Suites!GoTo, Suites!End, Suites!locks, Suites!records,
            Suites!Alive, GrantedAlive
<1>2. CASE Suites!Read(p)
  BY <1>2, RefuseDoes DEF Suites!Read
<1>3. CASE Suites!Create(p)
  BY <1>3, RefuseDoes DEF Suites!Create
<1>4. CASE ~Suites!Read(p) /\ ~Suites!Create(p)
  BY <1>4
     DEF SuitesStep, Suites!Begin, Suites!Probe, Suites!Mark, Suites!Look,
         Suites!Clear, Suites!Fill, Suites!Start, Suites!Finish,
         Suites!Release, Suites!Leave, Suites!Yield, Suites!Crash
<1> QED BY <1>2, <1>3, <1>4

(* What another run owns, a step of p leaves to it or breaks.              *)
LEMMA OthersKeep ==
  ASSUME SuitesApart, SuiteInv, NEW p \in Processes, SuitesStep(p),
         NEW f \in Suites!Files, ~Suites!Broken(f)',
         NEW q \in Suites!Holders(f), q # p
  PROVE  lock'[f] = lock[f]
<1> USE DEF SuiteInv, Suites!TypeOK
<1>f. Suites!File(p) \in Suites!Files /\ home[p] \in Suites!Files
        /\ Common \in Suites!Files
  BY FileIsFile DEF Suites!Files
<1>q. q \in Processes /\ Suites!Alive(q) /\ lock[f].by = q
  <2>1. Suites!Alive(q)
    BY DEF Suites!Holders, Suites!Owns, Suites!Alive, GrantedAlive
  <2> QED BY <2>1, CausesGrow DEF Suites!Holders, OwnerNamed
<1>1. CASE Suites!Clear(p)
  <2>1. Suites!File(p) # f
    BY <1>1, <1>q, RemoveSpares DEF Suites!Clear
  <2> QED BY <1>1, <2>1, <1>f DEF Suites!Clear, Suites!Remove
<1>2. CASE Suites!Release(p)
  <2>1. home[p] # f
    BY <1>2, <1>q, RemoveSpares DEF Suites!Release
  <2> QED BY <1>2, <2>1, <1>f DEF Suites!Release, Suites!Remove
<1>3. CASE Suites!Yield(p)
  <2>1. Common # f
    BY <1>3, <1>q, RemoveSpares DEF Suites!Yield
  <2> QED BY <1>3, <2>1, <1>f DEF Suites!Yield, Suites!Remove
<1>4. CASE Suites!Create(p)
  <2>1. lock[f] # Suites!NoLock
    BY <1>q DEF Suites!NoLock, SuitesApart
  <2> QED BY <1>4, <2>1, <1>f DEF Suites!Create
<1>5. CASE Suites!Fill(p)
  <2>1. CASE lock[Suites!File(p)].by = p
    <3>1. Suites!File(p) # f
      BY <1>q, <2>1
    <3> QED BY <1>5, <2>1, <3>1, <1>f DEF Suites!Fill
  <2>2. CASE lock[Suites!File(p)].by # p
    BY <1>5, <2>2 DEF Suites!Fill
  <2> QED BY <2>1, <2>2
<1> QED BY <1>1, <1>2, <1>3, <1>4, <1>5
           DEF SuitesStep, Suites!Begin, Suites!Probe, Suites!Mark,
               Suites!Look, Suites!Read, Suites!Start, Suites!Finish,
               Suites!Leave, Suites!Crash, Suites!locks

(* Where p owns a file after its step, it is named there.                  *)
LEMMA OwnKept ==
  ASSUME SuitesApart, SuiteInv, NEW p \in Processes, SuitesStep(p),
         NEW f \in Suites!Files, ~Suites!Broken(f)',
         p \in Suites!Holders(f)'
  PROVE  lock'[f].by = p /\ (at'[p] # "fill" \/ Suites!File(p)' # f
           => lock'[f].filled)
<1> USE DEF SuiteInv, Suites!TypeOK, Suites!GoTo, Suites!End, Suites!locks,
            Suites!records
<1>f. Suites!File(p) \in Suites!Files /\ home[p] \in Worktrees
        /\ home[p] \in Suites!Files /\ Common \in Suites!Files
  BY FileIsFile DEF Suites!Files
<1>w. home[p] # Common
  BY <1>f DEF SuitesApart
<1>b. ~Suites!Broken(f)
  BY CausesGrow
<1>h. home' = home
  BY DEF SuitesStep, Suites!Begin, Suites!Probe, Suites!Mark, Suites!Look,
         Suites!Read, Suites!Clear, Suites!Create, Suites!Fill, Suites!Start,
         Suites!Finish, Suites!Release, Suites!Leave, Suites!Yield,
         Suites!Crash
<1>o. Suites!Owns(p, f)'
  BY DEF Suites!Holders
<1>k. Suites!Owns(p, f) =>
        lock[f].by = p /\ (at[p] # "fill" \/ Suites!File(p) # f
          => lock[f].filled)
  BY <1>b DEF OwnerNamed, Suites!Holders
<1>1. CASE Suites!Create(p)
  <2>1. CASE Suites!Refuse(p) /\ UNCHANGED lock
    <3>1. mode'[p] # "granted"
            /\ at'[p] \notin { "fill", "start", "run", "release" }
      BY <2>1, RefuseDoes
    <3> QED BY <1>o, <3>1 DEF Suites!Owns
  <2>2. CASE /\ lock[Suites!File(p)] = Suites!NoLock
             /\ lock' = [lock EXCEPT ![Suites!File(p)] = [ by |-> p, filled |-> FALSE ]]
             /\ Suites!GoTo(p, "fill") /\ UNCHANGED mode
    <3>1. Suites!File(p)' = Suites!File(p)
      BY <1>h, <2>2 DEF Suites!File
    <3>2. CASE f = Suites!File(p)
      BY <2>2, <3>1, <3>2, <1>f
    <3>3. CASE f # Suites!File(p)
      <4>1. f = Common /\ mode[p] = "granted"
        BY <1>o, <2>2, <3>1, <3>3 DEF Suites!Owns
      <4>2. Suites!Owns(p, f) /\ lock'[f] = lock[f]
        BY <2>2, <3>3, <4>1, <1>f DEF Suites!Owns
      <4>3. at[p] # "fill"
        BY <1>1 DEF Suites!Create
      <4> QED BY <1>k, <4>2, <4>3
    <3> QED BY <3>2, <3>3
  <2> QED BY <1>1, <2>1, <2>2 DEF Suites!Create
<1>2. CASE Suites!Fill(p)
  <2>1. CASE Suites!File(p) = Common
    <3>1. f = Common
      BY <1>2, <2>1, <1>o DEF Suites!Fill, Suites!Owns
    <3>2. lock[f].by = p
      BY <1>2, <2>1, <3>1, <1>k DEF Suites!Fill, Suites!Owns
    <3>3. lock'[f].filled /\ lock'[f].by = p
      <4>1. lock[f] \in [ by : Processes, filled : BOOLEAN ]
        BY <3>2 DEF Suites!LockStates, Suites!NoLock, SuitesApart
      <4>2. lock' = [lock EXCEPT ![f] = [lock[f] EXCEPT !.filled = TRUE]]
        BY <1>2, <2>1, <3>1, <3>2 DEF Suites!Fill
      <4> QED BY <4>1, <4>2, <3>2
    <3> QED BY <3>3
  <2>2. CASE Suites!File(p) # Common
    <3>1. Suites!File(p) = home[p] /\ mode' = mode /\ at'[p] = "start"
      BY <1>2, <2>2 DEF Suites!Fill, Suites!File
    <3>2. CASE f = home[p]
      <4>1. lock[f].by = p
        BY <1>2, <3>1, <3>2, <1>k DEF Suites!Fill, Suites!Owns
      <4>2. lock[f] \in [ by : Processes, filled : BOOLEAN ]
        BY <4>1 DEF Suites!LockStates, Suites!NoLock, SuitesApart
      <4>3. lock' = [lock EXCEPT ![f] = [lock[f] EXCEPT !.filled = TRUE]]
        BY <1>2, <3>1, <3>2, <4>1 DEF Suites!Fill
      <4> QED BY <4>1, <4>2, <4>3
    <3>3. CASE f # home[p]
      <4>1. f = Common /\ mode[p] = "granted"
        BY <1>o, <1>h, <3>1, <3>3 DEF Suites!Owns, Suites!File
      <4>2. lock'[f] = lock[f]
        BY <1>2, <3>1, <4>1, <1>f, <1>w DEF Suites!Fill
      <4>3. lock[f].by = p /\ lock[f].filled
        BY <1>k, <3>1, <4>1, <1>w DEF Suites!Owns
      <4> QED BY <4>2, <4>3
    <3> QED BY <3>2, <3>3
  <2> QED BY <2>1, <2>2
<1>3. CASE Suites!Clear(p) \/ Suites!Release(p)
  <2>1. f = Common /\ mode[p] = "granted" /\ mode' = mode
    BY <1>3, <1>o DEF Suites!Clear, Suites!Release, Suites!Owns
  <2>2. lock'[f] = lock[f]
    BY <1>3, <2>1, <1>f, <1>w
       DEF Suites!Clear, Suites!Release, Suites!Remove, Suites!File
  <2>3. at[p] # "fill"
    BY <1>3 DEF Suites!Clear, Suites!Release
  <2> QED BY <1>k, <2>1, <2>2, <2>3 DEF Suites!Owns
<1>4. CASE Suites!Read(p)
  <2>1. lock' = lock /\ at[p] = "read"
    BY <1>4 DEF Suites!Read
  <2>2. CASE Suites!Refuse(p)
    <3>1. mode'[p] # "granted"
            /\ at'[p] \notin { "fill", "start", "run", "release" }
      BY <2>2, RefuseDoes
    <3> QED BY <1>o, <3>1 DEF Suites!Owns
  <2>3. CASE Suites!GoTo(p, "clear") /\ UNCHANGED mode
    <3>1. Suites!Owns(p, f)
      BY <1>o, <2>3 DEF Suites!Owns
    <3> QED BY <1>k, <2>1, <3>1
  <2> QED BY <1>4, <2>2, <2>3 DEF Suites!Read
<1>5. CASE Suites!Yield(p) \/ Suites!Crash(p)
  <2>1. mode'[p] # "granted" /\ at'[p] = "gone"
    BY <1>5 DEF Suites!Yield, Suites!Crash
  <2> QED BY <1>o, <2>1 DEF Suites!Owns
<1>6. CASE Suites!Begin(p) \/ Suites!Probe(p) \/ Suites!Mark(p)
             \/ Suites!Look(p) \/ Suites!Start(p) \/ Suites!Finish(p)
                  \/ Suites!Leave(p)
  <2>1. lock' = lock /\ at[p] # "fill" /\ at'[p] # "fill"
    BY <1>6
       DEF Suites!Begin, Suites!Probe, Suites!Mark, Suites!Look, Suites!Start,
           Suites!Finish, Suites!Leave
  <2>2. Suites!Owns(p, f)
    BY <1>6, <1>o, <1>h
       DEF Suites!Begin, Suites!Probe, Suites!Mark, Suites!Look, Suites!Start,
           Suites!Finish, Suites!Leave, Suites!Owns
  <2> QED BY <1>k, <2>1, <2>2
<1> QED BY <1>1, <1>2, <1>3, <1>4, <1>5, <1>6 DEF SuitesStep

(* A lock names its owner until it is broken.                              *)
LEMMA OwnerNamedStep ==
  ASSUME SuitesApart, SuiteInv, [Suites!Next]_(Suites!vars)
  PROVE  OwnerNamed'
<1>1. CASE UNCHANGED Suites!vars
  BY <1>1
     DEF Suites!vars, SuiteInv, OwnerNamed, Suites!Holders, Suites!Owns,
         Suites!Broken, Suites!File, Suites!history
<1> SUFFICES ASSUME NEW p \in Processes, SuitesStep(p),
                    NEW f \in Suites!Files, ~Suites!Broken(f)',
                      NEW q \in Suites!Holders(f)'
             PROVE  lock'[f].by = q
                      /\ (at'[q] # "fill" \/ Suites!File(q)' # f
                           => lock'[f].filled)
  BY <1>1 DEF Suites!Next, SuitesStep, OwnerNamed
<1>q. q \in Processes
  BY DEF Suites!Holders
<1>2. CASE q = p
  BY <1>2, OwnKept
<1>3. CASE q # p
  <2>1. at'[q] = at[q] /\ mode'[q] = mode[q] /\ home' = home
    BY <1>q, <1>3, OthersStay DEF SuiteInv
  <2>2. q \in Suites!Holders(f) /\ Suites!File(q)' = Suites!File(q)
    BY <2>1, <1>q DEF Suites!Holders, Suites!Owns, Suites!File
  <2>3. lock'[f] = lock[f]
    BY <1>3, <2>2, OthersKeep
  <2>4. ~Suites!Broken(f)
    BY CausesGrow DEF SuiteInv
  <2> QED BY <2>1, <2>2, <2>3, <2>4 DEF SuiteInv, OwnerNamed
<1> QED BY <1>2, <1>3

(* No step leads back: a run that has been where its record says, one that *)
(* has released its lock, one that is gone, and one that was started, stay *)
(* that.                                                                   *)
LEMMA NoWayBack ==
  ASSUME Suites!TypeOK, NEW p \in Processes, SuitesStep(p), NEW r \in Processes
  PROVE  /\ \A w \in Worktrees : Recorded(r, w) => Recorded(r, w)'
         /\ at[r] \in { "leave", "yield", "gone" }
              => at'[r] \in { "leave", "yield", "gone" }
         /\ at[r] = "gone" => at'[r] = "gone"
         /\ at[r] # "unborn" => at'[r] # "unborn"
<1> USE DEF Suites!TypeOK, Suites!GoTo, Suites!End, Suites!locks,
            Suites!records, Recorded, Suites!Alive
<1>1. CASE r # p
  BY <1>1, OthersStay
<1>2. CASE r = p
  <2>h. home' = home
    BY DEF SuitesStep, Suites!Begin, Suites!Probe, Suites!Mark, Suites!Look,
           Suites!Read, Suites!Clear, Suites!Create, Suites!Fill, Suites!Start,
           Suites!Finish, Suites!Release, Suites!Leave, Suites!Yield,
           Suites!Crash
  <2>1. CASE Suites!Read(p)
    BY <1>2, <2>1, <2>h, RefuseDoes DEF Suites!Read
  <2>2. CASE Suites!Create(p)
    BY <1>2, <2>2, <2>h, RefuseDoes DEF Suites!Create
  <2>3. CASE ~Suites!Read(p) /\ ~Suites!Create(p)
    BY <1>2, <2>3, <2>h
       DEF SuitesStep, Suites!Begin, Suites!Probe, Suites!Mark, Suites!Look,
           Suites!Clear, Suites!Fill, Suites!Start, Suites!Finish,
           Suites!Release, Suites!Leave, Suites!Yield, Suites!Crash
  <2> QED BY <2>1, <2>2, <2>3
<1> QED BY <1>1, <1>2

(* Only three steps write a record, and only Begin remembers one.          *)
LEMMA WhoWrites ==
  ASSUME Suites!TypeOK, NEW p \in Processes, SuitesStep(p)
  PROVE  /\ Suites!Mark(p) \/ Suites!Start(p) \/ Suites!Finish(p)
              \/ lastRun' = lastRun
         /\ \A q \in Processes : Suites!Begin(p) \/ prev'[q] \in { prev[q],
              Nobody }
         /\ \A q \in Processes : q # p => prev'[q] = prev[q]
              /\ seen'[q] = seen[q]
BY DEF Suites!TypeOK, SuitesStep, Suites!Begin, Suites!Probe, Suites!Mark,
       Suites!Look, Suites!Read, Suites!Clear, Suites!Create, Suites!Fill,
       Suites!Start, Suites!Finish, Suites!Release, Suites!Leave, Suites!Yield,
       Suites!Crash, Suites!locks, Suites!records

(* The records keep telling the truth.                                     *)
LEMMA RecordsTrueStep ==
  ASSUME SuitesApart, SuiteInv, [Suites!Next]_(Suites!vars)
  PROVE  RecordsTrue'
<1> USE DEF SuiteInv, Suites!TypeOK
<1>1. CASE UNCHANGED Suites!vars
  BY <1>1 DEF Suites!vars, RecordsTrue, Recorded
<1> SUFFICES ASSUME NEW p \in Processes, SuitesStep(p)
             PROVE  RecordsTrue'
  BY <1>1 DEF Suites!Next, SuitesStep
<1>h. home' = home
  BY DEF SuitesStep, Suites!Begin, Suites!Probe, Suites!Mark, Suites!Look,
         Suites!Read, Suites!Clear, Suites!Create, Suites!Fill, Suites!Start,
         Suites!Finish, Suites!Release, Suites!Leave, Suites!Yield,
         Suites!Crash, Suites!locks, Suites!records, Suites!End
<1>2. ASSUME NEW w \in Worktrees, lastRun'[w].status = "started"
      PROVE  Recorded(lastRun[w].by, w)'
  <2>1. CASE lastRun'[w] = lastRun[w]
    <3>1. Recorded(lastRun[w].by, w)
      BY <1>2, <2>1 DEF RecordsTrue
    <3>2. lastRun[w].by \in Processes
      BY <1>2, <2>1 DEF Suites!Records
    <3>3. ASSUME NEW r \in Processes, r = lastRun[w].by
          PROVE  home'[r] = w
                   /\ at'[r] \in { "run", "release", "leave", "yield", "gone" }
      BY <3>1, <3>3, NoWayBack DEF Recorded
    <3> QED BY <2>1, <3>2, <3>3 DEF Recorded
  <2>2. CASE Suites!Mark(p) /\ lastRun'[w] # lastRun[w]
    BY <1>2, <2>2 DEF Suites!Mark, Suites!Row
  <2>3. CASE Suites!Start(p) /\ lastRun'[w] # lastRun[w]
    <3>1. w = home[p] /\ lastRun'[w].by = p /\ at'[p] = "run"
      BY <2>3 DEF Suites!Start, Suites!Row, Suites!GoTo
    <3> QED BY <1>h, <3>1 DEF Recorded
  <2>4. CASE Suites!Finish(p) /\ lastRun'[w] # lastRun[w]
    <3>1. w = home[p] /\ lastRun'[w].by = p /\ at'[p] = "release"
      BY <2>4 DEF Suites!Finish, Suites!Row, Suites!GoTo
    <3> QED BY <1>h, <3>1 DEF Recorded
  <2> QED BY <2>1, <2>2, <2>3, <2>4, WhoWrites
<1>3. ASSUME NEW q \in Processes, prev'[q] # Nobody
      PROVE  Recorded(prev[q], home[q])'
  <2>1. CASE prev'[q] = prev[q]
    <3>1. Recorded(prev[q], home[q]) /\ prev[q] \in Processes
      BY <1>3, <2>1 DEF RecordsTrue
    <3>2. ASSUME NEW r \in Processes, r = prev[q]
          PROVE  home'[r] = home[q]
                   /\ at'[r] \in { "run", "release", "leave", "yield", "gone" }
      BY <3>1, <3>2, NoWayBack DEF Recorded
    <3> QED BY <1>h, <2>1, <3>1, <3>2 DEF Recorded
  <2>2. CASE prev'[q] # prev[q]
    <3>1. q = p /\ Suites!Begin(p)
      BY <1>3, <2>2, WhoWrites
    <3>2. lastRun[home[p]].status = "started" /\ prev'[p] = lastRun[home[p]].by
      BY <3>1, <2>2 DEF Suites!Begin
    <3>3. lastRun[home[p]].by \in Processes
      BY <3>2 DEF Suites!Records
    <3>4. Recorded(lastRun[home[p]].by, home[p])
      BY <3>2 DEF RecordsTrue
    <3>5. ASSUME NEW r \in Processes, r = lastRun[home[p]].by
          PROVE  home'[r] = home[p]
                   /\ at'[r] \in { "run", "release", "leave", "yield", "gone" }
      BY <3>4, <3>5, NoWayBack DEF Recorded
    <3> QED BY <1>h, <3>1, <3>2, <3>3, <3>5 DEF Recorded
  <2> QED BY <2>1, <2>2
<1> QED BY <1>2, <1>3 DEF RecordsTrue, Recorded

(* Who marks a record as aborted found its run without the lock.           *)
LEMMA MarkedIsDeadStep ==
  ASSUME SuitesApart, SuiteInv, [Suites!Next]_(Suites!vars)
  PROVE  MarkedIsDead'
<1> USE DEF SuiteInv, Suites!TypeOK
<1>1. CASE UNCHANGED Suites!vars
  BY <1>1 DEF Suites!vars, MarkedIsDead, Suites!Broken, Suites!history
<1> SUFFICES ASSUME NEW p \in Processes, SuitesStep(p),
                    NEW q \in Processes, at'[q] = "mark",
                      ~Suites!Broken(home[q])'
             PROVE  at'[prev'[q]] \in { "leave", "yield", "gone" }
  BY <1>1 DEF Suites!Next, SuitesStep, MarkedIsDead
<1>h. home' = home
  BY DEF SuitesStep, Suites!Begin, Suites!Probe, Suites!Mark, Suites!Look,
         Suites!Read, Suites!Clear, Suites!Create, Suites!Fill, Suites!Start,
         Suites!Finish, Suites!Release, Suites!Leave, Suites!Yield,
         Suites!Crash, Suites!locks, Suites!records, Suites!End
<1>b. ~Suites!Broken(home[q])
  BY <1>h, CausesGrow, FileIsFile DEF Suites!Broken
<1>2. CASE at[q] = "mark" /\ prev'[q] = prev[q]
  <2>1. prev[q] \in Processes /\ at[prev[q]] \in { "leave", "yield", "gone" }
    BY <1>2, <1>b DEF MarkedIsDead
  <2> QED BY <1>2, <2>1, NoWayBack
<1>3. CASE ~(at[q] = "mark" /\ prev'[q] = prev[q])
  <2>1. q = p
    <3> SUFFICES ASSUME q # p
                 PROVE  FALSE
      OBVIOUS
    <3>1. at'[q] = at[q] /\ prev'[q] = prev[q]
      BY OthersStay, WhoWrites
    <3> QED BY <1>3, <3>1
  <2>2. Suites!Probe(p)
    <3>1. CASE Suites!Read(p)
      BY <2>1, <3>1, RefuseDoes DEF Suites!Read, Suites!GoTo
    <3>2. CASE Suites!Create(p)
      BY <2>1, <3>2, RefuseDoes DEF Suites!Create, Suites!GoTo
    <3>3. CASE ~Suites!Read(p) /\ ~Suites!Create(p)
      BY <2>1, <1>3, <3>3
         DEF SuitesStep, Suites!Begin, Suites!Probe, Suites!Mark, Suites!Look,
             Suites!Clear, Suites!Fill, Suites!Start, Suites!Finish,
             Suites!Release, Suites!Leave, Suites!Yield, Suites!Crash,
             Suites!GoTo, Suites!End
    <3> QED BY <3>1, <3>2, <3>3
  <2>3. /\ at[p] = "probe" /\ prev'[p] = prev[p]
             /\ at' = [at EXCEPT ![p] = "mark"]
        /\ ~Suites!Live(lock[home[p]])
    BY <2>1, <2>2 DEF Suites!Probe, Suites!GoTo
  <2> DEFINE r == prev[p]
  <2>4. r \in Processes /\ Recorded(r, home[p])
    BY <2>3, <1>1 DEF RecordsTrue, SuitesApart
  <2>5. at[r] \notin { "run", "release" }
    <3> SUFFICES ASSUME at[r] \in { "run", "release" }
                 PROVE  FALSE
      OBVIOUS
    <3>1. r \in Suites!Holders(home[p])
      BY <2>4 DEF Suites!Holders, Suites!Owns, Recorded
    <3>2. home[p] \in Suites!Files
      BY FileIsFile
    <3>3. lock[home[p]].by = r /\ lock[home[p]].filled
      BY <1>b, <2>1, <3>1, <3>2 DEF OwnerNamed
    <3> QED BY <2>3, <3>3 DEF Suites!Live, Suites!Alive
  <2>6. at[r] \in { "leave", "yield", "gone" }
    BY <2>4, <2>5 DEF Recorded
  <2> QED BY <2>1, <2>3, <2>4, <2>6, NoWayBack
<1> QED BY <1>2, <1>3

(* A record that says aborted stays true.                                  *)
LEMMA AbortedIsDeadStep ==
  ASSUME SuitesApart, SuiteInv, [Suites!Next]_(Suites!vars)
  PROVE  Suites!AbortedIsDead'
<1> USE DEF SuiteInv, Suites!TypeOK
<1>1. CASE UNCHANGED Suites!vars
  BY <1>1 DEF Suites!vars, Suites!AbortedIsDead, Suites!Broken, Suites!history
<1> SUFFICES ASSUME NEW p \in Processes, SuitesStep(p),
                    NEW w \in Worktrees, lastRun'[w].status = "aborted",
                      ~Suites!Broken(w)'
             PROVE  at'[lastRun'[w].by] \in { "leave", "yield", "gone" }
  BY <1>1 DEF Suites!Next, SuitesStep, Suites!AbortedIsDead
<1>b. ~Suites!Broken(w)
  BY CausesGrow DEF Suites!Files
<1>2. CASE lastRun'[w] = lastRun[w]
  <2>1. at[lastRun[w].by] \in { "leave", "yield", "gone" }
    BY <1>2, <1>b DEF Suites!AbortedIsDead
  <2>2. lastRun[w].by \in Processes
    BY <1>2 DEF Suites!Records
  <2> QED BY <1>2, <2>1, <2>2, NoWayBack
<1>3. CASE lastRun'[w] # lastRun[w]
  <2>1. Suites!Mark(p)
    BY <1>3, WhoWrites DEF Suites!Start, Suites!Finish, Suites!Row
  <2>2. w = home[p] /\ lastRun'[w].by = prev[p] /\ at[p] = "mark"
    BY <1>3, <2>1 DEF Suites!Mark, Suites!Row
  <2>3. prev[p] \in Processes /\ at[prev[p]] \in { "leave", "yield", "gone" }
    BY <2>2, <1>b DEF MarkedIsDead
  <2> QED BY <2>2, <2>3, NoWayBack
<1> QED BY <1>2, <1>3

(* The slot a run is about to clear was judged by a lock that keeps its    *)
(* verdict.                                                                *)
LEMMA SlotJudgedStep ==
  ASSUME SuitesApart, SuiteInv, [Suites!Next]_(Suites!vars)
  PROVE  SlotJudged'
<1> USE DEF SuiteInv, Suites!TypeOK
<1>1. CASE UNCHANGED Suites!vars
  BY <1>1 DEF Suites!vars, SlotJudged, Suites!NoLock, Suites!File
<1> SUFFICES ASSUME NEW p \in Processes, SuitesStep(p)
             PROVE  SlotJudged'
  BY <1>1 DEF Suites!Next, SuitesStep
<1>h. home' = home
  BY DEF SuitesStep, Suites!Begin, Suites!Probe, Suites!Mark, Suites!Look,
         Suites!Read, Suites!Clear, Suites!Create, Suites!Fill, Suites!Start,
         Suites!Finish, Suites!Release, Suites!Leave, Suites!Yield,
         Suites!Crash, Suites!locks, Suites!records, Suites!End
<1>f. Suites!File(p) \in Suites!Files /\ home[p] \in Suites!Files
        /\ Common \in Suites!Files
  BY FileIsFile DEF Suites!Files
<1>2. ASSUME NEW f \in Suites!Files, lock'[f] # Suites!NoLock
      PROVE  at'[lock'[f].by] # "unborn"
  <2>1. CASE lock[f] # Suites!NoLock /\ lock'[f].by = lock[f].by
    <3>1. lock[f].by \in Processes /\ at[lock[f].by] # "unborn"
      BY <2>1 DEF SlotJudged, Suites!LockStates
    <3> QED BY <2>1, <3>1, NoWayBack
  <2>2. CASE lock'[f] = [ by |-> p, filled |-> FALSE ] /\ Suites!Create(p)
               /\ at'[p] = "fill"
    BY <2>2
  <2>3. \/ lock'[f] = lock[f]
        \/ lock'[f] = Suites!NoLock
        \/ lock[f].by = p /\ lock'[f].by = p
        \/ lock'[f] = [ by |-> p, filled |-> FALSE ] /\ Suites!Create(p)
             /\ at'[p] = "fill"
    <3>1. CASE Suites!Fill(p) /\ lock[Suites!File(p)].by = p
      <4>1. lock[Suites!File(p)] \in [ by : Processes, filled : BOOLEAN ]
        BY <3>1, <1>f DEF Suites!LockStates, Suites!NoLock, SuitesApart
      <4>2. lock' = [lock EXCEPT ![Suites!File(p)] = [lock[Suites!File(p)] EXCEPT !.filled = TRUE]]
        BY <3>1 DEF Suites!Fill
      <4> QED BY <3>1, <4>1, <4>2, <1>f
    <3>2. CASE Suites!Fill(p) /\ lock[Suites!File(p)].by # p
      BY <3>2 DEF Suites!Fill
    <3>3. CASE Suites!Create(p)
      BY <3>3, <1>f DEF Suites!Create, Suites!GoTo
    <3>4. CASE Suites!Clear(p) \/ Suites!Release(p) \/ Suites!Yield(p)
      BY <3>4, <1>f
         DEF Suites!Clear, Suites!Release, Suites!Yield, Suites!Remove
    <3> QED BY <3>1, <3>2, <3>3, <3>4
               DEF SuitesStep, Suites!Begin, Suites!Probe, Suites!Mark,
                   Suites!Look, Suites!Read, Suites!Start, Suites!Finish,
                   Suites!Leave, Suites!Crash, Suites!locks
  <2>4. lock[f].by = p => lock[f] # Suites!NoLock
    BY DEF Suites!NoLock, SuitesApart
  <2> QED BY <1>2, <2>1, <2>2, <2>3, <2>4
<1>3. ASSUME NEW q \in Processes, at'[q] = "clear", Suites!File(q)' = Common,
             seen'[q] # Suites!NoLock, seen'[q].filled
      PROVE  at'[seen'[q].by] = "gone" \/ home'[seen'[q].by] = home'[q]
  <2>1. CASE at[q] = "clear" /\ seen'[q] = seen[q] /\ mode'[q] = mode[q]
    <3>1. Suites!File(q) = Common
      BY <1>3, <1>h, <2>1 DEF Suites!File
    <3>2. at[seen[q].by] = "gone" \/ home[seen[q].by] = home[q]
      BY <1>3, <2>1, <3>1 DEF SlotJudged
    <3>3. seen[q].by \in Processes
      BY <1>3, <2>1 DEF Suites!LockStates
    <3> QED BY <1>h, <2>1, <3>2, <3>3, NoWayBack
  <2>2. CASE ~(at[q] = "clear" /\ seen'[q] = seen[q] /\ mode'[q] = mode[q])
    <3>1. q = p
      BY <1>3, <2>2, OthersStay, WhoWrites
    <3>2. Suites!Read(p)
      <4>1. CASE Suites!Create(p)
        BY <1>3, <3>1, <4>1, RefuseDoes DEF Suites!Create, Suites!GoTo
      <4>2. CASE ~Suites!Create(p)
        BY <1>3, <2>2, <3>1, <4>2
           DEF SuitesStep, Suites!Begin, Suites!Probe, Suites!Mark,
               Suites!Look, Suites!Clear, Suites!Fill, Suites!Start,
               Suites!Finish, Suites!Release, Suites!Leave, Suites!Yield,
               Suites!Crash, Suites!GoTo, Suites!End
      <4> QED BY <4>1, <4>2
    <3>3. /\ seen' = [seen EXCEPT ![p] = lock[Suites!File(p)]] /\ mode' = mode
          /\ at' = [at EXCEPT ![p] = "clear"] /\ at[p] = "read"
          /\ Suites!Stale(p, lock[Suites!File(p)]) \/ Suites!File(p) # Common
      <4>1. ~Suites!Refuse(p)
        BY <1>3, <3>1, RefuseDoes
      <4> QED BY <3>2, <4>1 DEF Suites!Read, Suites!GoTo
    <3>4. Suites!File(p) = Common
      BY <1>3, <1>h, <3>1, <3>3 DEF Suites!File
    <3> DEFINE l == lock[Common]
    <3>5. seen'[q] = l /\ l # Suites!NoLock /\ l.filled /\ Suites!Stale(p, l)
      BY <1>3, <3>1, <3>3, <3>4
    <3>6. l.by \in Processes /\ at[l.by] # "unborn"
      BY <1>f, <3>5 DEF SlotJudged, Suites!LockStates
    <3>7. Suites!Alive(l.by) => home[l.by] = home[p]
      BY <3>5 DEF Suites!Stale, Suites!Live
    <3>8. CASE ~Suites!Alive(l.by)
      <4>1. at[l.by] = "gone"
        BY <3>6, <3>8 DEF Suites!Alive
      <4> QED BY <3>5, <3>6, <4>1, NoWayBack
    <3> QED BY <1>h, <3>1, <3>5, <3>7, <3>8
  <2> QED BY <2>1, <2>2
<1> QED BY <1>2, <1>3 DEF SlotJudged

(* So no run takes the slot from a live run elsewhere that it found there. *)
LEMMA NotStolenStep ==
  ASSUME SuitesApart, SuiteInv, [Suites!Next]_(Suites!vars)
  PROVE  LiveLockNotStolen'
<1> USE DEF SuiteInv, Suites!TypeOK
<1>1. CASE UNCHANGED Suites!history
  BY <1>1 DEF LiveLockNotStolen, Suites!history
<1>2. ASSUME NEW p \in Processes, Suites!Clear(p)
      PROVE  LiveLockNotStolen'
  <2>1. CASE Suites!File(p) # Common
    BY <1>2, <2>1
       DEF Suites!Clear, Suites!Remove, Suites!Why, LiveLockNotStolen,
           Suites!history
  <2>2. CASE Suites!File(p) = Common
    <3> SUFFICES ASSUME lock[Common] # Suites!NoLock,
                        Suites!Alive(lock[Common].by),
                        Suites!Why(p, Common) = "stolen"
                 PROVE  FALSE
      BY <1>2, <2>2
         DEF Suites!Clear, Suites!Remove, LiveLockNotStolen, Suites!history
    <3>1. /\ seen[p].by = lock[Common].by /\ seen[p].filled
          /\ home[lock[Common].by] # home[p]
      BY <1>2 DEF Suites!Clear, Suites!Why
    <3>2. seen[p] # Suites!NoLock
      BY <3>1 DEF Suites!NoLock
    <3>3. at[seen[p].by] = "gone"
      BY <1>2, <2>2, <3>1, <3>2 DEF Suites!Clear, SlotJudged
    <3> QED BY <3>1, <3>3 DEF Suites!Alive
  <2> QED BY <2>1, <2>2
<1>3. ASSUME NEW p \in Processes, Suites!Release(p) \/ Suites!Yield(p)
      PROVE  LiveLockNotStolen'
  <2>1. \A f \in Suites!Files : Suites!Why(p, f) = "release"
    BY <1>3 DEF Suites!Why, Suites!Release, Suites!Yield
  <2> QED BY <1>3, <2>1, FileIsFile
             DEF Suites!Release, Suites!Yield, Suites!Remove,
                 LiveLockNotStolen, Suites!Files, Suites!history
<1> QED BY <1>1, <1>2, <1>3
           DEF Suites!Next, Suites!vars, Suites!Begin, Suites!Probe,
               Suites!Mark, Suites!Look, Suites!Read, Suites!Create,
               Suites!Fill, Suites!Start, Suites!Finish, Suites!Leave,
               Suites!Crash, Suites!locks

(* The invariant is inductive.                                             *)
LEMMA SuiteInvStep ==
  ASSUME SuitesApart, SuiteInv, [Suites!Next]_(Suites!vars)
  PROVE  SuiteInv'
BY SuitesTypeStep, OwnerNamedStep, GrantedAliveStep, RecordsTrueStep,
   MarkedIsDeadStep, AbortedIsDeadStep, SlotJudgedStep, NotStolenStep
   DEF SuiteInv

(* The strengthening holds in every state of the test runner's files.      *)
THEOREM SuiteInvAlways ==
  ASSUME SuitesApart
  PROVE  Suites!Spec => []SuiteInv
BY InitSuiteInv, SuiteInvStep, PTL DEF Suites!Spec

(* However many suites are started in however many worktrees, one that     *)
(* still has the lock of its worktree is never recorded as aborted.        *)
THEOREM AbortedIsDeadAlways ==
  ASSUME SuitesApart
  PROVE  Suites!Spec => []Suites!AbortedIsDead
BY SuiteInvAlways, PTL DEF SuiteInv

(* No suite takes the slot it found in the name of a live suite of another *)
(* worktree.                                                               *)
THEOREM LiveSlotKept ==
  ASSUME SuitesApart
  PROVE  Suites!Spec => []LiveLockNotStolen
BY SuiteInvAlways, PTL DEF SuiteInv
-----------------------------------------------------------------------------
(* Every step on a lock file is a step of AdvisoryLock or changes nothing  *)
(* there.                                                                  *)
LEMMA SharedStep ==
  ASSUME SuitesApart, SuiteInv, [Suites!Next]_(Suites!vars),
         NEW f \in Suites!Files
  PROVE  [Suites!Shared(f)!Next]_(Suites!Shared(f)!vars)
<1> USE DEF SuiteInv, Suites!TypeOK
<1>1. CASE UNCHANGED Suites!vars
  BY <1>1
     DEF Suites!vars, Suites!Shared!vars, Suites!Holders, Suites!Owns,
         Suites!Broken, Suites!File, Suites!history
<1> SUFFICES ASSUME NEW p \in Processes, SuitesStep(p)
             PROVE  Suites!Shared(f)!Next
  BY <1>1 DEF Suites!Next, SuitesStep
<1>f. Suites!File(p) \in Suites!Files /\ home[p] \in Suites!Files
        /\ Common \in Suites!Files /\ home[p] # Common
  BY FileIsFile DEF Suites!Files, SuitesApart
<1>b. Suites!Broken(f)' \in { Suites!Broken(f), TRUE }
  <2>1. Suites!Broken(f) \in BOOLEAN /\ Suites!Broken(f)' \in BOOLEAN
    BY DEF Suites!Broken
  <2> QED BY <2>1, CausesGrow
<1>o. \A q \in Processes : q # p => (q \in Suites!Holders(f)'
        <=> q \in Suites!Holders(f))
  BY OthersStay DEF Suites!Holders, Suites!Owns, Suites!File
<1>s. /\ p \in Suites!Holders(f)'
           => Suites!Holders(f)' = Suites!Holders(f) \cup { p }
      /\ p \notin Suites!Holders(f)'
           => Suites!Holders(f)' = Suites!Holders(f) \ { p }
  BY <1>o DEF Suites!Holders
<1>2. CASE p \notin Suites!Holders(f)'
  BY <1>2, <1>b, <1>s DEF Suites!Shared!Next, Suites!Shared!Leave
<1>3. CASE p \in Suites!Holders(f)' /\ p \in Suites!Holders(f)
  <2>1. Suites!Holders(f)' = Suites!Holders(f)
    BY <1>3, <1>s
  <2> QED BY <1>b, <2>1 DEF Suites!Shared!Next
<1>4. CASE p \in Suites!Holders(f)' /\ p \notin Suites!Holders(f)
  <2>1. lock[f] = Suites!NoLock
    <3>h. home' = home
      BY DEF SuitesStep, Suites!Begin, Suites!Probe, Suites!Mark, Suites!Look,
             Suites!Read, Suites!Clear, Suites!Create, Suites!Fill,
             Suites!Start, Suites!Finish, Suites!Release, Suites!Leave,
             Suites!Yield, Suites!Crash, Suites!locks, Suites!records,
             Suites!End
    <3>1. Suites!Owns(p, f)' /\ ~Suites!Owns(p, f)
      BY <1>4 DEF Suites!Holders
    <3>2. CASE Suites!Create(p)
      <4>1. ~Suites!Refuse(p)
        <5> SUFFICES ASSUME Suites!Refuse(p)
                     PROVE  FALSE
          OBVIOUS
        <5>1. mode'[p] # "granted"
                /\ at'[p] \notin { "fill", "start", "run", "release" }
          BY RefuseDoes
        <5> QED BY <3>1, <5>1 DEF Suites!Owns
      <4>2. at'[p] = "fill" /\ mode' = mode
              /\ lock[Suites!File(p)] = Suites!NoLock
        BY <3>2, <4>1 DEF Suites!Create, Suites!GoTo
      <4>3. Suites!File(p)' = f
        BY <3>1, <4>2 DEF Suites!Owns
      <4> QED BY <3>h, <4>2, <4>3 DEF Suites!File
    <3>3. CASE Suites!Read(p)
      <4>1. mode'[p] # "granted" \/ mode' = mode
        BY <3>3, RefuseDoes DEF Suites!Read
      <4>2. at'[p] \notin { "fill", "start", "run", "release" }
        BY <3>3, RefuseDoes DEF Suites!Read, Suites!GoTo
      <4> QED BY <3>1, <4>1, <4>2 DEF Suites!Owns
    <3>4. CASE Suites!Fill(p)
      <4>1. CASE Suites!File(p) = Common
        BY <3>1, <3>4, <4>1 DEF Suites!Fill, Suites!GoTo, Suites!Owns
      <4>2. CASE Suites!File(p) # Common
        BY <3>1, <3>h, <3>4, <4>2
           DEF Suites!Fill, Suites!GoTo, Suites!Owns, Suites!File
      <4> QED BY <4>1, <4>2
    <3>5. CASE ~Suites!Create(p) /\ ~Suites!Read(p) /\ ~Suites!Fill(p)
      BY <3>1, <3>5, <3>h
         DEF SuitesStep, Suites!Begin, Suites!Probe, Suites!Mark, Suites!Look,
             Suites!Clear, Suites!Start, Suites!Finish, Suites!Release,
             Suites!Leave, Suites!Yield, Suites!Crash, Suites!GoTo, Suites!End,
             Suites!locks, Suites!Owns
    <3> QED BY <3>2, <3>3, <3>4, <3>5
  <2>2. Suites!Holders(f) = {} \/ Suites!Broken(f)
    BY <2>1 DEF OwnerNamed, Suites!NoLock, SuitesApart, Suites!Holders
  <2>3. Suites!Shared(f)!Acquire(p)
    BY <1>4, <1>b, <1>s, <2>2 DEF Suites!Shared!Acquire
  <2> QED BY <1>b, <2>3 DEF Suites!Shared!Next
<1> QED BY <1>2, <1>3, <1>4

(* The slot, and the lock of every worktree, keep the promise of           *)
(* AdvisoryLock, for any number of suites and of worktrees.                *)
THEOREM SuiteLocksAreAdvisory ==
  ASSUME SuitesApart
  PROVE  Suites!Spec => Suites!IsAdvisory
<1> SUFFICES ASSUME NEW f \in Suites!Files
             PROVE  Suites!Spec => Suites!Shared(f)!Spec
  BY DEF Suites!IsAdvisory
<1>1. Suites!Init => Suites!Shared(f)!Init
  BY DEF Suites!Init, Suites!Shared!Init, Suites!Holders, Suites!Owns,
         Suites!Broken
<1>2. SuiteInv /\ [Suites!Next]_(Suites!vars)
        => [Suites!Shared(f)!Next]_(Suites!Shared(f)!vars)
  BY SharedStep
<1> QED BY <1>1, <1>2, SuiteInvAlways, PTL DEF Suites!Spec, Suites!Shared!Spec
=============================================================================
