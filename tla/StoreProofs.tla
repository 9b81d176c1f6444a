---------------------------- MODULE StoreProofs -----------------------------
(***************************************************************************)
(* Proofs about the approval store, for any number of escalations and of   *)
(* processes that expire approvals, and about the scorecard, for any       *)
(* number of writers and any threshold: no request and no row is lost.     *)
(***************************************************************************)
EXTENDS Files, Sequences, TLAPS

Stores == [Escalations -> { "none", "pending", "expired" }]

Places == { "unborn", "asked", "read", "write", "done", "failed", "check",
            "expire", "serve", "resolve", "dead" }

Typed ==
  /\ store \in Stores
  /\ due \subseteq Escalations
  /\ step \in [Parties -> Places]
  /\ base \in [Parties -> Stores]
  /\ todo \in [Expirers -> SUBSET Escalations]
  /\ served \in [Escalations -> Nat]
  /\ undone \subseteq Escalations
  /\ mover \subseteq Escalations

(* A round has something to serve only once it has saved. *)
ServesAfterSave ==
  \A p \in Expirers : step[p] \in { "unborn", "check", "expire" } => todo[p] = {}

(* Nobody knows a request before it is created. *)
NotYetCreated ==
  \A r \in Escalations :
    step[r] \in { "unborn", "asked", "read", "write" } =>
      store[r] = "none" /\ \A p \in Parties : base[p][r] = "none"

(* An expiry that was not overwritten is one round's task, and only once.  *)
OneServes ==
  \A r \in Escalations \ undone :
    /\ served[r] <= 1
    /\ \A p \in Expirers : r \in todo[p] =>
         /\ served[r] = 0 /\ store[r] = "expired"
         /\ \A q \in Expirers : r \in todo[q] => q = p
    /\ served[r] = 1 => store[r] = "expired"

(* The inductive invariant. *)
StoreInv == /\ Typed
            /\ ServesAfterSave
            /\ NotYetCreated
            /\ OneServes
            /\ RequestsKept
            /\ GateWatched

(* An escalation is not a round. *)
Apart == Escalations \cap Expirers = {}
-----------------------------------------------------------------------------
(* The invariant holds before any escalation. *)
LEMMA InitStoreInv ==
  ASSUME Init
  PROVE  StoreInv
<1>1. Empty \in Stores BY DEF Empty, Stores
<1>2. Typed BY <1>1 DEF Init, Typed, Places
<1>3. ServesAfterSave BY DEF Init, ServesAfterSave
<1>4. NotYetCreated BY DEF Init, Empty, NotYetCreated
<1>5. OneServes
  <2> SUFFICES ASSUME NEW r \in Escalations
               PROVE  /\ served[r] <= 1 /\ served[r] # 1
                      /\ \A p \in Expirers : r \notin todo[p]
    BY DEF OneServes
  <2>1. served[r] = 0 BY DEF Init
  <2>2. served[r] <= 1 /\ served[r] # 1 BY <2>1
  <2> QED BY <2>2 DEF Init
<1>6. RequestsKept BY DEF Init, RequestsKept, Parties
<1>7. GateWatched BY DEF Init, GateWatched
<1> QED BY <1>2, <1>3, <1>4, <1>5, <1>6, <1>7 DEF StoreInv

Escalation(p) ==
  Inspect(p) \/ Escalate(p) \/ Fail(p) \/ Read(p) \/ Save(p) \/ Lapse(p)
Round(p) == Begin(p) \/ Check(p) \/ SaveExpired(p) \/ Block(p) \/ Resolve(p) \/ End(p)

(* What a read returns. *)
LEMMA ContentsAreStores ==
  ASSUME Typed
  PROVE  \A copy \in Contents :
           copy \in Stores /\ \A r \in Escalations : copy[r] \in { "none", store[r] }
BY DEF Typed, Contents, Empty, Stores

(* Every step keeps the types. *)
LEMMA TypedStep ==
  ASSUME Typed, [Next]_vars
  PROVE  Typed'
<1> USE DEF Typed, GoTo, Places, history, status
<1>1. CASE UNCHANGED vars BY <1>1 DEF vars
<1>2. CASE Resume \/ Move BY <1>2 DEF Resume, Move
<1>3. ASSUME NEW p \in Escalations, Escalation(p) PROVE Typed'
  <2>0. p \in Parties BY DEF Parties
  <2>1. CASE Inspect(p) \/ Escalate(p)
    <3>1. mover' \subseteq Escalations
      BY <2>1 DEF Inspect, Escalate, ToGate
    <3> QED BY <2>0, <2>1, <3>1 DEF Inspect, Escalate
  <2>2. CASE Read(p)
    <3>1. PICK copy \in Contents : base' = [base EXCEPT ![p] = copy]
      BY <2>2 DEF Read
    <3>2. base' \in [Parties -> Stores]
      BY <2>0, <3>1, ContentsAreStores
    <3> QED BY <2>0, <2>2, <3>2 DEF Read
  <2>5. CASE Fail(p) BY <2>0, <2>5 DEF Fail
  <2>3. CASE Save(p)
    <3>1. store' \in Stores BY <2>0, <2>3 DEF Save, Saved, Stores
    <3>2. undone' \subseteq Escalations BY <2>3 DEF Save, Overwritten
    <3> QED BY <2>0, <2>3, <3>1, <3>2 DEF Save
  <2>4. CASE Lapse(p) BY <2>4 DEF Lapse
  <2> QED BY <1>3, <2>1, <2>2, <2>3, <2>4, <2>5 DEF Escalation
<1>4. ASSUME NEW p \in Expirers, Round(p) PROVE Typed'
  <2>0. p \in Parties BY DEF Parties
  <2>1. CASE Begin(p) BY <2>0, <2>1 DEF Begin
  <2>2. CASE Check(p)
    <3>1. PICK copy \in Contents :
            /\ base' = [base EXCEPT ![p] = copy]
            /\ \E w \in { "done", "expire" } : step' = [step EXCEPT ![p] = w]
      BY <2>2 DEF Check
    <3>2. base' \in [Parties -> Stores]
      BY <2>0, <3>1, ContentsAreStores
    <3> QED BY <2>0, <2>2, <3>1, <3>2 DEF Check
  <2>3. CASE SaveExpired(p)
    <3>1. store' \in Stores BY <2>0, <2>3 DEF SaveExpired, Stores
    <3>2. undone' \subseteq Escalations BY <2>3 DEF SaveExpired, Overwritten
    <3>3. Reported(p) \subseteq Escalations
      BY <2>0 DEF Reported, Expired, Stores
    <3> QED BY <2>0, <2>3, <3>1, <3>2, <3>3 DEF SaveExpired
  <2>4. CASE Block(p)
    <3>1. PICK r \in todo[p] : /\ todo' = [todo EXCEPT ![p] = @ \ { r }]
                               /\ served' = [served EXCEPT ![r] = @ + 1]
      BY <2>4 DEF Block
    <3>2. todo' \in [Expirers -> SUBSET Escalations] /\ served' \in [Escalations -> Nat]
      BY <3>1
    <3> QED BY <2>0, <2>4, <3>2 DEF Block
  <2>5. CASE Resolve(p) BY <2>0, <2>5 DEF Resolve
  <2>6. CASE End(p) BY <2>0, <2>6 DEF End
  <2> QED BY <1>4, <2>1, <2>2, <2>3, <2>4, <2>5, <2>6 DEF Round
<1>5. ASSUME NEW p \in Parties, Die(p) PROVE Typed'
  BY <1>5 DEF Die
<1> QED BY <1>1, <1>2, <1>3, <1>4, <1>5 DEF Next, Escalation, Round

(* A round gets its tasks from SaveExpired alone. *)
LEMMA ServesAfterSaveStep ==
  ASSUME Apart, StoreInv, [Next]_vars
  PROVE  ServesAfterSave'
<1> USE DEF StoreInv, Typed, ServesAfterSave, GoTo, history, status
<1>1. CASE UNCHANGED vars BY <1>1 DEF vars
<1>2. CASE Resume \/ Move BY <1>2 DEF Resume, Move
<1>3. ASSUME NEW p \in Escalations, Escalation(p) PROVE ServesAfterSave'
  BY <1>3 DEF Escalation, Inspect, Escalate, Fail, Read, Save, Lapse, Parties, Apart
<1>4. ASSUME NEW p \in Expirers, Round(p) PROVE ServesAfterSave'
  <2>0. p \in Parties BY DEF Parties
  <2>1. CASE Begin(p) BY <2>0, <2>1 DEF Begin
  <2>2. CASE Check(p) BY <2>0, <2>2 DEF Check
  <2>3. CASE SaveExpired(p) BY <2>0, <2>3 DEF SaveExpired
  <2>4. CASE Block(p) BY <2>0, <2>4 DEF Block
  <2>5. CASE Resolve(p) BY <2>0, <2>5 DEF Resolve
  <2>6. CASE End(p) BY <2>0, <2>6 DEF End
  <2> QED BY <1>4, <2>1, <2>2, <2>3, <2>4, <2>5, <2>6 DEF Round
<1>5. ASSUME NEW p \in Parties, Die(p) PROVE ServesAfterSave'
  BY <1>5 DEF Die
<1> QED BY <1>1, <1>2, <1>3, <1>4, <1>5 DEF Next, Escalation, Round

(* What a round writes back: what it has read, or "expired" where that was *)
(* pending.                                                                *)
LEMMA ExpiredWrite ==
  ASSUME Typed, NEW p \in Expirers, SaveExpired(p), NEW r \in Escalations
  PROVE  /\ r \notin Reported(p) => store'[r] = base[p][r]
         /\ r \in Reported(p) => store'[r] = "expired" /\ base[p][r] = "pending"
         /\ r \notin undone' => base[p][r] = store[r]
BY DEF SaveExpired, Reported, Expired, Overwritten, Typed

(* A request that is not created yet cannot be read, so that no older copy *)
(* can bring it in.                                                        *)
LEMMA NotYetCreatedStep ==
  ASSUME Apart, StoreInv, [Next]_vars
  PROVE  NotYetCreated'
<1> USE DEF StoreInv, Typed, NotYetCreated, GoTo, history, status
<1>1. CASE UNCHANGED vars BY <1>1 DEF vars
<1>2. CASE Resume \/ Move BY <1>2 DEF Resume, Move
<1>3. ASSUME NEW p \in Escalations, Escalation(p) PROVE NotYetCreated'
  <2>0. p \in Parties BY DEF Parties
  <2>1. CASE Inspect(p) \/ Escalate(p) \/ Fail(p)
    BY <2>0, <2>1 DEF Inspect, Escalate, Fail, Parties
  <2>2. CASE Read(p)
    <3>1. PICK copy \in Contents : base' = [base EXCEPT ![p] = copy]
      BY <2>2 DEF Read
    <3> SUFFICES ASSUME NEW r \in Escalations,
                        step'[r] \in { "unborn", "asked", "read", "write" }
                 PROVE  store'[r] = "none" /\ \A q \in Parties : base'[q][r] = "none"
      BY DEF NotYetCreated
    <3>2. store[r] = "none" /\ \A q \in Parties : base[q][r] = "none"
      BY <2>0, <2>2 DEF Read, Parties
    <3>3. copy[r] = "none"
      BY <3>2, ContentsAreStores
    <3> QED BY <2>0, <2>2, <3>1, <3>2, <3>3 DEF Read
  <2>3. CASE Save(p)
    <3> SUFFICES ASSUME NEW r \in Escalations, step'[r] \in { "unborn", "asked", "read", "write" }
                 PROVE  store'[r] = "none" /\ \A q \in Parties : base'[q][r] = "none"
      BY DEF NotYetCreated
    <3>1. r # p /\ step'[r] = step[r]
      BY <2>0, <2>3 DEF Save
    <3>2. store'[r] = base[p][r] /\ base' = base
      BY <2>0, <2>3, <3>1 DEF Save, Saved, Stores
    <3> QED BY <2>0, <3>1, <3>2
  <2>4. CASE Lapse(p) BY <2>4 DEF Lapse
  <2> QED BY <1>3, <2>1, <2>2, <2>3, <2>4 DEF Escalation
<1>4. ASSUME NEW p \in Expirers, Round(p) PROVE NotYetCreated'
  <2>0. p \in Parties /\ p \notin Escalations BY DEF Parties, Apart
  <2> SUFFICES ASSUME NEW r \in Escalations, step'[r] \in { "unborn", "asked", "read", "write" }
               PROVE  store'[r] = "none" /\ \A q \in Parties : base'[q][r] = "none"
    BY DEF NotYetCreated
  <2>1. step[r] = step'[r] /\ r # p
    BY <1>4, <2>0 DEF Round, Begin, Check, SaveExpired, Block, Resolve, End, Parties
  <2>2. store[r] = "none" /\ \A q \in Parties : base[q][r] = "none"
    BY <2>1
  <2>3. CASE SaveExpired(p)
    BY <2>0, <2>2, <2>3, ExpiredWrite DEF SaveExpired
  <2>4. CASE Check(p)
    <3>1. PICK copy \in Contents : base' = [base EXCEPT ![p] = copy]
      BY <2>4 DEF Check
    <3>2. copy[r] = "none"
      BY <2>2, ContentsAreStores
    <3> QED BY <2>0, <2>2, <2>4, <3>1, <3>2 DEF Check
  <2> QED BY <1>4, <2>2, <2>3, <2>4 DEF Round, Begin, Block, Resolve, End
<1>5. ASSUME NEW p \in Parties, Die(p) PROVE NotYetCreated'
  BY <1>5 DEF Die
<1> QED BY <1>1, <1>2, <1>3, <1>4, <1>5 DEF Next, Escalation, Round

(* Two rounds serve one expiry only when the save of the first was         *)
(* overwritten, which puts the request among the undone.                   *)
LEMMA OneServesStep ==
  ASSUME Apart, StoreInv, [Next]_vars
  PROVE  OneServes'
<1> USE DEF StoreInv, Typed, OneServes, GoTo, history, status
<1>1. CASE UNCHANGED vars BY <1>1 DEF vars
<1>2. CASE Resume \/ Move BY <1>2 DEF Resume, Move
<1>3. ASSUME NEW p \in Escalations, Escalation(p) PROVE OneServes'
  <2>0. p \in Parties BY DEF Parties
  <2>1. CASE Save(p)
    <3> SUFFICES ASSUME NEW r \in Escalations \ undone'
                 PROVE  store'[r] = store[r] \/ (r = p /\ store[r] = "none")
      BY <2>1 DEF Save
    <3>1. r # p => store'[r] = base[p][r] /\ base[p][r] = store[r]
      BY <2>0, <2>1 DEF Save, Saved, Stores, Overwritten
    <3>2. r = p => store[r] = "none"
      BY <2>1 DEF Save, NotYetCreated
    <3> QED BY <3>1, <3>2
  <2>2. CASE ~Save(p)
    BY <1>3, <2>2 DEF Escalation, Inspect, Escalate, Fail, Read, Lapse
  <2> QED BY <2>1, <2>2
<1>4. ASSUME NEW p \in Expirers, Round(p) PROVE OneServes'
  <2>1. CASE SaveExpired(p)
    <3>0. todo[p] = {} /\ todo' = [todo EXCEPT ![p] = Reported(p)] /\ served' = served
      BY <2>1 DEF SaveExpired, ServesAfterSave
    <3> SUFFICES ASSUME NEW r \in Escalations, r \notin undone'
                 PROVE  /\ served[r] <= 1
                        /\ \A q \in Expirers : r \in todo'[q] =>
                             /\ served[r] = 0 /\ store'[r] = "expired"
                             /\ \A s \in Expirers : r \in todo'[s] => s = q
                        /\ served[r] = 1 => store'[r] = "expired"
      BY <3>0
    <3>1. r \notin undone /\ base[p][r] = store[r]
      BY <2>1, ExpiredWrite DEF SaveExpired
    <3>2. CASE r \in Reported(p)
      <4>1. store[r] = "pending" /\ store'[r] = "expired"
        BY <2>1, <3>1, <3>2, ExpiredWrite
      <4>2. served[r] = 0 /\ \A q \in Expirers : r \notin todo[q]
        BY <3>1, <4>1
      <4> QED BY <3>0, <4>1, <4>2
    <3>3. CASE r \notin Reported(p)
      <4>1. store'[r] = store[r]
        BY <2>1, <3>1, <3>3, ExpiredWrite
      <4>2. \A q \in Expirers : r \in todo'[q] => r \in todo[q]
        BY <3>0, <3>3
      <4> QED BY <3>1, <4>1, <4>2
    <3> QED BY <3>2, <3>3
  <2>2. CASE Block(p)
    <3>1. PICK r \in todo[p] : /\ todo' = [todo EXCEPT ![p] = @ \ { r }]
                               /\ served' = [served EXCEPT ![r] = @ + 1]
      BY <2>2 DEF Block
    <3>2. store' = store /\ undone' = undone
      BY <2>2 DEF Block
    <3>3. \A q \in Expirers, s \in Escalations : s \in todo'[q] => s \in todo[q]
      BY <3>1
    <3>4. \A s \in Escalations : s # r => served'[s] = served[s]
      BY <3>1
    <3>5. r \notin undone =>
            /\ served'[r] = 1 /\ store[r] = "expired"
            /\ \A q \in Expirers : r \notin todo'[q]
      BY <3>1
    <3> QED BY <3>2, <3>3, <3>4, <3>5
  <2>3. CASE Begin(p) \/ Check(p) \/ Resolve(p) \/ End(p)
    BY <2>3 DEF Begin, Check, Resolve, End
  <2> QED BY <1>4, <2>1, <2>2, <2>3 DEF Round
<1>5. ASSUME NEW p \in Parties, Die(p) PROVE OneServes'
  BY <1>5 DEF Die
<1> QED BY <1>1, <1>2, <1>3, <1>4, <1>5 DEF Next, Escalation, Round

(* A request that is created stays, or a save from an older copy undid it. *)
LEMMA RequestsKeptStep ==
  ASSUME Apart, StoreInv, [Next]_vars
  PROVE  RequestsKept'
<1> USE DEF StoreInv, Typed, RequestsKept, GoTo, history, status
<1>1. CASE UNCHANGED vars BY <1>1 DEF vars
<1>2. CASE Resume \/ Move BY <1>2 DEF Resume, Move
<1>3. ASSUME NEW p \in Escalations, Escalation(p) PROVE RequestsKept'
  <2>0. p \in Parties BY DEF Parties
  <2>1. CASE Save(p)
    <3> SUFFICES ASSUME NEW r \in Escalations, step'[r] = "done", store'[r] = "none"
                 PROVE  r \in undone'
      OBVIOUS
    <3>1. r # p
      BY <2>0, <2>1 DEF Save, Saved, Stores
    <3>2. step[r] = "done" /\ base[p][r] = "none"
      BY <2>0, <2>1, <3>1 DEF Save, Saved, Stores
    <3> QED BY <2>1, <3>2 DEF Save, Overwritten
  <2>2. CASE ~Save(p)
    BY <1>3, <2>0, <2>2
    DEF Escalation, Inspect, Escalate, Fail, Read, Lapse, Parties
  <2> QED BY <2>1, <2>2
<1>4. ASSUME NEW p \in Expirers, Round(p) PROVE RequestsKept'
  <2>0. p \in Parties /\ p \notin Escalations BY DEF Parties, Apart
  <2> SUFFICES ASSUME NEW r \in Escalations, step'[r] = "done", store'[r] = "none"
               PROVE  r \in undone'
    OBVIOUS
  <2>1. step[r] = "done"
    BY <1>4, <2>0 DEF Round, Begin, Check, SaveExpired, Block, Resolve, End, Parties
  <2>2. CASE SaveExpired(p)
    BY <2>0, <2>1, <2>2, ExpiredWrite DEF SaveExpired
  <2>3. CASE ~SaveExpired(p)
    BY <1>4, <2>1, <2>3 DEF Round, Begin, Check, Block, Resolve, End
  <2> QED BY <2>2, <2>3
<1>5. ASSUME NEW p \in Parties, Die(p) PROVE RequestsKept'
  BY <1>5 DEF Die, Parties
<1> QED BY <1>1, <1>2, <1>3, <1>4, <1>5 DEF Next, Escalation, Round

(* What watches the gate for the request r. *)
Watched(r) ==
  \/ store[r] = "pending"
  \/ step[r] \in { "asked", "read", "write" }
  \/ \E p \in Expirers : r \in todo[p]
  \/ step[r] \in { "failed", "dead" }
  \/ r \in undone

(* Only a step that takes the ticket from the gate ends the watch. *)
LEMMA WatchedStep ==
  ASSUME Apart, StoreInv, NEW r \in Escalations, Watched(r), [Next]_vars,
         ~ \E p \in Expirers : Block(p) \/ Resolve(p)
  PROVE  Watched(r)'
<1> USE DEF StoreInv, Typed, GoTo, history, status, Watched
<1>0. r \in Parties BY DEF Parties
<1>1. CASE UNCHANGED vars BY <1>1 DEF vars
<1>2. CASE Resume \/ Move BY <1>2 DEF Resume, Move
<1>3. ASSUME NEW p \in Escalations, Escalation(p) PROVE Watched(r)'
  <2>0. p \in Parties BY DEF Parties
  <2>1. CASE Inspect(p) \/ Escalate(p) \/ Fail(p) \/ Read(p)
    BY <1>0, <2>0, <2>1 DEF Inspect, Escalate, Fail, Read
  <2>2. CASE Save(p)
    <3>1. CASE r = p
      BY <2>0, <2>2, <3>1 DEF Save, Saved, Stores
    <3>2. CASE r # p
      <4>1. r \in undone' \/ store'[r] = store[r]
        BY <2>0, <2>2, <3>2 DEF Save, Saved, Stores, Overwritten
      <4>2. step'[r] = step[r] /\ todo' = todo /\ undone \subseteq undone'
        BY <1>0, <2>0, <2>2, <3>2 DEF Save
      <4> QED BY <4>1, <4>2
    <3> QED BY <3>1, <3>2
  <2>3. CASE Lapse(p) BY <2>3 DEF Lapse
  <2> QED BY <1>3, <2>1, <2>2, <2>3 DEF Escalation
<1>4. ASSUME NEW p \in Expirers, Round(p) PROVE Watched(r)'
  <2>0. p \in Parties /\ p # r BY DEF Parties, Apart
  <2>1. CASE SaveExpired(p)
    <3>1. /\ todo[p] = {} /\ todo' = [todo EXCEPT ![p] = Reported(p)]
          /\ undone \subseteq undone' /\ step'[r] = step[r]
      BY <1>0, <2>0, <2>1 DEF SaveExpired, ServesAfterSave
    <3>2. CASE store[r] = "pending"
      BY <2>1, <3>1, <3>2, ExpiredWrite
    <3>3. CASE store[r] # "pending"
      BY <3>1, <3>3
    <3> QED BY <3>2, <3>3
  <2>2. CASE Begin(p) \/ Check(p) \/ End(p)
    BY <1>0, <2>0, <2>2 DEF Begin, Check, End
  <2> QED BY <1>4, <2>1, <2>2 DEF Round
<1>5. ASSUME NEW p \in Parties, Die(p) PROVE Watched(r)'
  BY <1>0, <1>5 DEF Die
<1> QED BY <1>1, <1>2, <1>3, <1>4, <1>5 DEF Next, Escalation, Round

(* The escalation that brings a ticket to the gate has its request still   *)
(* to come, and what watches it stays until the ticket leaves.             *)
LEMMA GateWatchedStep ==
  ASSUME Apart, StoreInv, [Next]_vars
  PROVE  GateWatched'
<1> SUFFICES ASSUME state' = "HUMAN_GATE"
             PROVE  \E r \in mover' : Watched(r)'
  BY DEF GateWatched, Watched
<1>0. ~ \E p \in Expirers : Block(p) \/ Resolve(p)
  BY DEF Block, Resolve, Derive
<1>1. ASSUME NEW p \in Escalations, Inspect(p) \/ Escalate(p), ~ UNCHANGED status
      PROVE  \E r \in mover' : Watched(r)'
  <2>1. mover' = { p }
    BY <1>1 DEF Inspect, Escalate, ToGate
  <2>2. step'[p] \in { "asked", "read" }
    BY <1>1 DEF Inspect, Escalate, GoTo, StoreInv, Typed, Parties
  <2> QED BY <2>1, <2>2 DEF Watched
<1>2. CASE UNCHANGED status
  <2>1. state = "HUMAN_GATE" /\ mover' = mover
    BY <1>2 DEF status
  <2>2. PICK r \in mover : Watched(r)
    BY <2>1 DEF StoreInv, GateWatched, Watched
  <2>3. r \in Escalations
    BY DEF StoreInv, Typed
  <2>4. Watched(r)'
    BY <1>0, <2>2, <2>3, WatchedStep
  <2> QED BY <2>1, <2>4
<1>3. CASE Resume \/ Move
  BY <1>3 DEF Resume, Move
<1> QED BY <1>0, <1>1, <1>2, <1>3
        DEF Next, vars, status, Fail, Read, Save, Lapse, Begin, Check,
            SaveExpired, End, Die

(* The strengthening holds in every state of approvals.json and its users. *)
THEOREM StoreInvAlways ==
  ASSUME Apart
  PROVE  Spec => []StoreInv
<1>1. Init => StoreInv
  BY InitStoreInv
<1>2. StoreInv /\ [Next]_vars => StoreInv'
  BY TypedStep, ServesAfterSaveStep, NotYetCreatedStep, OneServesStep,
     RequestsKeptStep, GateWatchedStep DEF StoreInv
<1> QED BY <1>1, <1>2, PTL DEF Spec

(* However many processes share the store, a request that was created is   *)
(* missing only because an older copy, or the empty one that a failed read *)
(* gives, overwrote it.                                                    *)
THEOREM RequestsKeptAlways ==
  ASSUME Apart
  PROVE  Spec => []RequestsKept
BY StoreInvAlways, PTL DEF StoreInv

(* However many rounds look for expired requests, one of them moves the    *)
(* ticket, and once, unless a change of another was overwritten.           *)
THEOREM ExpiryServedOnceAlways ==
  ASSUME Apart
  PROVE  Spec => []ExpiryServedOnce
<1>1. StoreInv => ExpiryServedOnce
  BY DEF StoreInv, Typed, OneServes, ExpiryServedOnce
<1> QED BY <1>1, StoreInvAlways, PTL

(* Of a ticket at the human gate the request of the escalation that moved  *)
(* it is pending, still to come or about to be served, unless this very    *)
(* escalation failed or died, or its request was overwritten.              *)
THEOREM GateWatchedAlways ==
  ASSUME Apart
  PROVE  Spec => []GateWatched
BY StoreInvAlways, PTL DEF StoreInv
-----------------------------------------------------------------------------
RowsPlaces ==
  { "unborn", "open", "rotate", "lock", "lockfor", "recheck", "sweep", "rename",
    "recreate", "summary", "publish", "check", "write", "done", "failed", "killed" }

Row == Processes \cup { OldRow }

RowsTyped ==
  /\ files \in Seq(Seq(Row))
  /\ active \in 0..Len(files)
  /\ archives \in Seq(Nat)
  /\ \A i \in DOMAIN archives : archives[i] \in 1..Len(files)
  /\ at \in [Processes -> RowsPlaces]
  /\ handle \in [Processes -> Nat]
  /\ \A p \in Processes : handle[p] <= Len(files)
  /\ owns \in [Processes -> Nat]

(* An inode has one owner; who works on a file has it open and locked.     *)
OneOwner ==
  \A p, q \in Processes : owns[p] = owns[q] /\ owns[p] # 0 => p = q

HasOpen ==
  /\ \A p \in Processes : at[p] \in { "lock", "lockfor" } => handle[p] # 0
  /\ \A p \in Processes :
       at[p] \in { "check", "write", "recheck", "sweep", "rename" } =>
         handle[p] # 0 /\ owns[p] = handle[p]

(* Who is about to write or to rename has looked under the lock and works  *)
(* on the active file: nobody else can rename it meanwhile.                *)
OnActive ==
  \A p \in Processes : at[p] \in { "write", "sweep", "rename" }
    => handle[p] = active

(* A file has one name. *)
OneName ==
  /\ \A i \in DOMAIN archives : archives[i] # active
  /\ \A i, j \in DOMAIN archives : archives[i] = archives[j] => i = j

(* The inductive invariant. *)
RowsInv == /\ RowsTyped
           /\ OneOwner
           /\ HasOpen
           /\ OnActive
           /\ OneName
           /\ Rows!AppendsVisible

RowsStep(p) ==
  \/ Rows!Visit(p) \/ Rows!Open(p) \/ Rows!Lock(p) \/ Rows!Recheck(p)
  \/ Rows!Sweep(p)
  \/ Rows!Rename(p) \/ Rows!Recreate(p) \/ Rows!WriteSummary(p)
  \/ Rows!PublishSummary(p)
  \/ Rows!Check(p) \/ Rows!Write(p) \/ Rows!Crash(p)

Reading == Rows!LookAt \/ Rows!Read \/ Rows!List \/ Rows!LookAgain
  \/ Rows!ListAgain
-----------------------------------------------------------------------------
(* A row is visible in the file where it stands.                           *)
LEMMA VisibleIn ==
  ASSUME NEW r
  PROVE  r \in Rows!Visible <=>
           \/ \E i \in DOMAIN archives : r \in Rows!Rows(files[archives[i]])
           \/ active # 0 /\ r \in Rows!Rows(files[active])
BY DEF Rows!Visible, Rows!Rows

(* What an append does to a sequence. *)
LEMMA AppendedRows ==
  ASSUME NEW S, NEW s \in Seq(S), NEW e \in S
  PROVE  /\ Append(s, e) \in Seq(S)
         /\ Len(Append(s, e)) = Len(s) + 1
         /\ DOMAIN Append(s, e) = DOMAIN s \cup { Len(s) + 1 }
         /\ \A i \in DOMAIN s : Append(s, e)[i] = s[i]
         /\ Append(s, e)[Len(s) + 1] = e
         /\ Append(s, e) # s
OBVIOUS

(* The invariant holds before the first append. *)
LEMMA InitRowsInv ==
  ASSUME Rows!Init
  PROVE  RowsInv
<1>1. RowsTyped
  <2>1. files = << << OldRow >> >> /\ active = 1 /\ archives = << >>
    BY DEF Rows!Init
  <2>2. files \in Seq(Seq(Row)) /\ Len(files) = 1
    BY <2>1 DEF Row
  <2> QED BY <2>1, <2>2 DEF Rows!Init, RowsTyped, RowsPlaces
<1>2. OneOwner BY DEF Rows!Init, OneOwner
<1>3. HasOpen BY DEF Rows!Init, HasOpen
<1>4. OnActive BY DEF Rows!Init, OnActive
<1>5. OneName BY DEF Rows!Init, OneName
<1>6. Rows!AppendsVisible
  <2>1. OldRow \in Rows!Rows(files[active])
    BY DEF Rows!Init, Rows!Rows
  <2> QED BY <2>1, VisibleIn DEF Rows!Init, Rows!AppendsVisible
<1> QED BY <1>1, <1>2, <1>3, <1>4, <1>5, <1>6 DEF RowsInv
-----------------------------------------------------------------------------
(* What a step does to the files: nothing, a new empty file becomes the    *)
(* active one, the active file becomes an archive, or it gets a row.       *)
Untouched == UNCHANGED << files, active, archives >>

NewFile ==
  /\ active = 0
  /\ files' = Append(files, << >>)
  /\ active' = Len(files) + 1
  /\ archives' = archives

Archived ==
  /\ active # 0
  /\ archives' = Append(archives, active)
  /\ active' = 0
  /\ files' = files

Grown(p) ==
  /\ active # 0
  /\ files' = [files EXCEPT ![active] = Append(@, p)]
  /\ UNCHANGED << active, archives >>

(* All that a step does to the files: nothing, a new empty one, the active *)
(* one renamed, or a row more in it.                                       *)
LEMMA FileChanges ==
  ASSUME RowsInv, NEW p \in Processes, RowsStep(p)
  PROVE  \/ Untouched
         \/ NewFile /\ (Rows!Open(p) \/ Rows!Recreate(p))
         \/ Archived /\ Rows!Rename(p)
         \/ Grown(p) /\ Rows!Write(p)
<1> USE DEF RowsInv
<1>0. /\ Len(Append(files, << >>)) = Len(files) + 1
      /\ Append(files, << >>) # files
  <2>1. << >> \in Seq(Row) OBVIOUS
  <2> QED BY <2>1, AppendedRows DEF RowsTyped
<1>1. CASE Rows!Open(p)
  <2>1. CASE active = 0
    BY <1>0, <1>1, <2>1 DEF Rows!Open, Rows!OpenFile, NewFile
  <2>2. CASE active # 0
    BY <1>1, <2>2 DEF Rows!Open, Rows!OpenFile, Untouched
  <2> QED BY <2>1, <2>2
<1>2. CASE Rows!Recreate(p)
  <2>1. CASE active = 0
    BY <1>0, <1>2, <2>1 DEF Rows!Recreate, Rows!Recreated, NewFile
  <2>2. CASE active # 0
    BY <1>2, <2>2 DEF Rows!Recreate, Rows!Recreated, Untouched
  <2> QED BY <2>1, <2>2
<1>3. CASE Rows!Rename(p)
  <2>1. active # 0
    BY <1>3 DEF Rows!Rename, OnActive, HasOpen
  <2> QED BY <1>3, <2>1 DEF Rows!Rename, Archived
<1>4. CASE Rows!Write(p)
  <2>1. handle[p] = active /\ active # 0
    BY <1>4 DEF Rows!Write, OnActive, HasOpen
  <2> QED BY <1>4, <2>1 DEF Rows!Write, Grown
<1> QED BY <1>1, <1>2, <1>3, <1>4
           DEF RowsStep, Rows!Visit, Rows!Lock, Rows!Recheck, Rows!Sweep,
               Rows!WriteSummary, Rows!PublishSummary, Rows!Check, Rows!Crash,
               Untouched, Rows!disk

(* The rows that are visible stay so, and archives do not change.          *)
LEMMA FilesStep ==
  ASSUME RowsInv, NEW p,
         Untouched \/ NewFile \/ Archived \/ (Grown(p) /\ p \in Processes)
  PROVE  /\ files' \in Seq(Seq(Row)) /\ Len(files) <= Len(files')
         /\ active' \in 0..Len(files')
         /\ archives' \in Seq(Nat)
         /\ \A i \in DOMAIN archives' : archives'[i] \in 1..Len(files')
         /\ OneName'
         /\ Rows!Visible \subseteq Rows!Visible'
         /\ \A i \in Rows!Rows(archives) : files'[i] = files[i]
<1> USE DEF RowsInv
<1>1. CASE Untouched
  BY <1>1 DEF Untouched, RowsTyped, OneName, Rows!Visible, Rows!Rows
<1>2. CASE NewFile
  <2>0. << >> \in Seq(Row) OBVIOUS
  <2>1. /\ files' \in Seq(Seq(Row)) /\ Len(files') = Len(files) + 1
        /\ \A i \in 1..Len(files) : files'[i] = files[i]
    BY <1>2, <2>0, AppendedRows DEF NewFile, RowsTyped
  <2>2. archives' = archives /\ active = 0 /\ active' = Len(files) + 1
    BY <1>2 DEF NewFile
  <2>3. \A i \in DOMAIN archives : /\ archives[i] \in 1..Len(files)
                                   /\ files'[archives[i]] = files[archives[i]]
    BY <2>1 DEF RowsTyped
  <2>4. Rows!Visible \subseteq Rows!Visible'
    <3> SUFFICES ASSUME NEW r \in Rows!Visible
                 PROVE  r \in Rows!Visible'
      OBVIOUS
    <3>1. PICK i \in DOMAIN archives : r \in Rows!Rows(files[archives[i]])
      BY <2>2, VisibleIn
    <3>2. r \in Rows!Rows(files'[archives'[i]]) /\ i \in DOMAIN archives'
      BY <2>2, <2>3, <3>1
    <3> QED BY <2>2, <3>2 DEF Rows!Visible, Rows!Rows
  <2>5. OneName'
    BY <2>2, <2>3 DEF OneName, RowsTyped
  <2>6. \A i \in Rows!Rows(archives) : files'[i] = files[i]
    BY <2>3 DEF Rows!Rows
  <2> QED BY <2>1, <2>2, <2>3, <2>4, <2>5, <2>6 DEF RowsTyped
<1>3. CASE Archived
  <2>1. /\ active \in 1..Len(files) /\ active' = 0 /\ files' = files
        /\ archives' = Append(archives, active)
    BY <1>3 DEF Archived, RowsTyped
  <2>2. /\ archives' \in Seq(Nat)
        /\ DOMAIN archives' = DOMAIN archives \cup { Len(archives) + 1 }
        /\ \A i \in DOMAIN archives : archives'[i] = archives[i]
        /\ archives'[Len(archives) + 1] = active
    BY <2>1, AppendedRows DEF RowsTyped
  <2>3. \A i \in DOMAIN archives' : archives'[i] \in 1..Len(files)
    BY <2>1, <2>2 DEF RowsTyped
  <2>4. Rows!Visible \subseteq Rows!Visible'
    <3> SUFFICES ASSUME NEW r \in Rows!Visible
                 PROVE  r \in Rows!Visible'
      OBVIOUS
    <3>1. \E i \in DOMAIN archives' : r \in Rows!Rows(files[archives'[i]])
      BY <2>2, VisibleIn
    <3> QED BY <2>1, <3>1 DEF Rows!Visible, Rows!Rows
  <2>5. OneName'
    BY <2>1, <2>2, <2>3 DEF OneName
  <2> QED BY <2>1, <2>2, <2>3, <2>4, <2>5 DEF RowsTyped
<1>4. CASE Grown(p) /\ p \in Processes
  <2>1. /\ active \in 1..Len(files) /\ active' = active /\ archives' = archives
        /\ files' = [files EXCEPT ![active] = Append(@, p)]
    BY <1>4 DEF Grown, RowsTyped
  <2>2. files[active] \in Seq(Row) /\ p \in Row
    BY <1>4, <2>1 DEF RowsTyped, Row
  <2>3. /\ Append(files[active], p) \in Seq(Row)
        /\ Rows!Rows(files[active]) \subseteq Rows!Rows(Append(files[active], p))
    BY <2>2, AppendedRows DEF Rows!Rows
  <2>4. /\ files' \in Seq(Seq(Row)) /\ Len(files') = Len(files)
        /\ \A i \in 1..Len(files) : i # active => files'[i] = files[i]
        /\ files'[active] = Append(files[active], p)
    BY <2>1, <2>3 DEF RowsTyped
  <2>5. \A i \in DOMAIN archives : files'[archives[i]] = files[archives[i]]
    BY <2>4 DEF RowsTyped, OneName
  <2>6. Rows!Visible \subseteq Rows!Visible'
    <3> SUFFICES ASSUME NEW r \in Rows!Visible
                 PROVE  r \in Rows!Visible'
      OBVIOUS
    <3>1. \/ \E i \in DOMAIN archives' : r \in Rows!Rows(files'[archives'[i]])
          \/ active' # 0 /\ r \in Rows!Rows(files'[active'])
      BY <2>1, <2>3, <2>4, <2>5, VisibleIn
    <3> QED BY <3>1 DEF Rows!Visible, Rows!Rows
  <2>7. \A i \in Rows!Rows(archives) : files'[i] = files[i]
    BY <2>5 DEF Rows!Rows
  <2> QED BY <2>1, <2>4, <2>6, <2>7 DEF RowsTyped, OneName
<1> QED BY <1>1, <1>2, <1>3, <1>4
-----------------------------------------------------------------------------
(* Where a step leaves its process, its handle and its lock.               *)
LEMMA HandleStep ==
  ASSUME RowsInv, NEW p \in Processes, RowsStep(p)
  PROVE  \E h \in Nat : h <= Len(files') /\ handle' = [handle EXCEPT ![p] = h]
<1> USE DEF RowsInv
<1>1. files' \in Seq(Seq(Row)) /\ Len(files) <= Len(files')
  BY FileChanges, FilesStep
<1>2. Len(files) \in Nat /\ Len(files') \in Nat
  BY <1>1 DEF RowsTyped
<1>3. handle[p] \in Nat /\ handle[p] <= Len(files') /\ active \in Nat
      /\ active <= Len(files')
  BY <1>1, <1>2 DEF RowsTyped
<1>4. CASE Rows!Open(p)
  <2>1. \/ handle' = [handle EXCEPT ![p] = Len(files')]
        \/ handle' = [handle EXCEPT ![p] = active]
    BY <1>4 DEF Rows!Open, Rows!OpenFile
  <2> QED BY <1>2, <1>3, <2>1
<1>5. CASE ~Rows!Open(p)
  <2>1. handle' = handle
    BY <1>5
       DEF RowsStep, Rows!Visit, Rows!Lock, Rows!Recheck, Rows!Sweep,
           Rows!Rename, Rows!Recreate, Rows!WriteSummary, Rows!PublishSummary,
           Rows!Check, Rows!Write, Rows!Crash, Rows!own
  <2>2. handle' = [handle EXCEPT ![p] = handle[p]]
    BY <2>1 DEF RowsTyped
  <2> QED BY <1>3, <2>2
<1> QED BY <1>4, <1>5

(* Where a step leaves its process, its handle and its lock.               *)
LEMMA OwnStep ==
  ASSUME RowsInv, NEW p \in Processes, RowsStep(p)
  PROVE  /\ \E w \in RowsPlaces : at' = [at EXCEPT ![p] = w]
         /\ \E h \in Nat : h <= Len(files')
              /\ handle' = [handle EXCEPT ![p] = h]
         /\ \E o \in Nat : owns' = [owns EXCEPT ![p] = o]
<1> USE DEF RowsInv
<1>1. \E w \in RowsPlaces : at' = [at EXCEPT ![p] = w]
  BY DEF RowsStep, Rows!Visit, Rows!Open, Rows!Lock, Rows!Recheck, Rows!Sweep,
         Rows!Rename, Rows!Recreate, Rows!WriteSummary, Rows!PublishSummary,
         Rows!Check, Rows!Write, Rows!Crash, Rows!GoTo, Rows!Retry, RowsPlaces
<1>2. \E o \in { 0, owns[p], handle[p] } : owns' = [owns EXCEPT ![p] = o]
  <2>1. \/ owns' = owns \/ owns' = [owns EXCEPT ![p] = 0]
        \/ owns' = [owns EXCEPT ![p] = handle[p]]
    BY DEF RowsStep, Rows!Visit, Rows!Open, Rows!Lock, Rows!Recheck,
           Rows!Sweep, Rows!Rename, Rows!Recreate, Rows!WriteSummary,
           Rows!PublishSummary, Rows!Check, Rows!Write, Rows!Crash,
           Rows!Unlock, Rows!own
  <2>2. owns = [owns EXCEPT ![p] = owns[p]]
    BY DEF RowsTyped
  <2> QED BY <2>1, <2>2
<1>3. { 0, owns[p], handle[p] } \subseteq Nat
  BY DEF RowsTyped
<1> QED BY <1>1, <1>2, <1>3, HandleStep

(* Every step keeps the types. *)
LEMMA RowsTypedStep ==
  ASSUME RowsInv, NEW p \in Processes, RowsStep(p)
  PROVE  RowsTyped'
<1> USE DEF RowsInv
<1>1. /\ files' \in Seq(Seq(Row)) /\ Len(files) <= Len(files')
      /\ active' \in 0..Len(files')
      /\ archives' \in Seq(Nat)
      /\ \A i \in DOMAIN archives' : archives'[i] \in 1..Len(files')
  BY FileChanges, FilesStep
<1>2. at' \in [Processes -> RowsPlaces]
  BY OwnStep DEF RowsTyped
<1>3. Len(files) \in Nat /\ Len(files') \in Nat
  BY <1>1 DEF RowsTyped
<1>4. /\ handle' \in [Processes -> Nat]
      /\ \A q \in Processes : handle'[q] <= Len(files')
  <2>1. PICK h \in Nat : h <= Len(files') /\ handle' = [handle EXCEPT ![p] = h]
    BY HandleStep
  <2>2. \A q \in Processes : handle[q] \in Nat /\ handle[q] <= Len(files')
    BY <1>1, <1>3 DEF RowsTyped
  <2> QED BY <2>1, <2>2 DEF RowsTyped
<1>5. owns' \in [Processes -> Nat]
  <2>1. PICK o \in Nat : owns' = [owns EXCEPT ![p] = o]
    BY OwnStep
  <2> QED BY <2>1 DEF RowsTyped
<1> QED BY <1>1, <1>2, <1>4, <1>5 DEF RowsTyped

(* An inode is locked only when it is free. *)
LEMMA OneOwnerStep ==
  ASSUME RowsInv, NEW p \in Processes, RowsStep(p)
  PROVE  OneOwner'
<1> USE DEF RowsInv, RowsTyped, OneOwner
<1>1. CASE Rows!Lock(p)
  BY <1>1 DEF Rows!Lock
<1>2. CASE ~Rows!Lock(p)
  <2>1. owns' = owns \/ owns' = [owns EXCEPT ![p] = 0]
    BY <1>2
       DEF RowsStep, Rows!Visit, Rows!Open, Rows!Recheck, Rows!Sweep,
           Rows!Rename, Rows!Recreate, Rows!WriteSummary, Rows!PublishSummary,
           Rows!Check, Rows!Write, Rows!Crash, Rows!Unlock, Rows!own
  <2> QED BY <2>1
<1> QED BY <1>1, <1>2

(* Who works on a file has it open. *)
LEMMA HasOpenStep ==
  ASSUME RowsInv, NEW p \in Processes, RowsStep(p)
  PROVE  HasOpen'
<1> USE DEF RowsInv, RowsTyped, HasOpen
<1> SUFFICES /\ at'[p] \in { "lock", "lockfor" } => handle'[p] # 0
             /\ at'[p] \in { "check", "write", "recheck", "sweep", "rename" } =>
                  handle'[p] # 0 /\ owns'[p] = handle'[p]
  BY OwnStep
<1> USE DEF Rows!GoTo, Rows!own
<1>1. CASE Rows!Open(p)
  <2>1. handle'[p] # 0
    BY <1>1 DEF Rows!Open, Rows!OpenFile
  <2> QED BY <1>1, <2>1 DEF Rows!Open
<1>2. CASE Rows!Lock(p) BY <1>2 DEF Rows!Lock
<1>3. CASE Rows!Recheck(p) BY <1>3 DEF Rows!Recheck
<1>4. CASE Rows!Sweep(p) BY <1>4 DEF Rows!Sweep
<1>5. CASE Rows!Check(p) BY <1>5 DEF Rows!Check, Rows!Retry
<1>6. CASE Rows!Visit(p) BY <1>6 DEF Rows!Visit
<1>7. CASE Rows!Rename(p) \/ Rows!Recreate(p) \/ Rows!Write(p) \/ Rows!Crash(p)
  BY <1>7 DEF Rows!Rename, Rows!Recreate, Rows!Write, Rows!Crash
<1>8. CASE Rows!WriteSummary(p) \/ Rows!PublishSummary(p)
  BY <1>8 DEF Rows!WriteSummary, Rows!PublishSummary, Rows!Retry
<1> QED BY <1>1, <1>2, <1>3, <1>4, <1>5, <1>6, <1>7, <1>8 DEF RowsStep

(* The look under the lock stays true: only who holds the lock of the      *)
(* active file renames it.                                                 *)
LEMMA OnActiveStep ==
  ASSUME RowsInv, NEW p \in Processes, RowsStep(p)
  PROVE  OnActive'
<1> USE DEF RowsInv, RowsTyped
<1> SUFFICES ASSUME NEW q \in Processes,
                    at'[q] \in { "write", "sweep", "rename" }
             PROVE  handle'[q] = active'
  BY DEF OnActive
<1>1. CASE q = p
  BY <1>1
     DEF RowsStep, Rows!Visit, Rows!Open, Rows!Lock, Rows!Recheck, Rows!Sweep,
         Rows!Rename, Rows!Recreate, Rows!WriteSummary, Rows!PublishSummary,
         Rows!Check, Rows!SameFile, Rows!Write, Rows!Crash, Rows!GoTo,
         Rows!Retry, OnActive, Rows!own, Rows!disk
<1>2. CASE q # p
  <2>1. /\ at[q] = at'[q] /\ handle'[q] = handle[q] /\ handle[q] = active
        /\ handle[q] # 0 /\ owns[q] = handle[q]
    BY <1>2, OwnStep DEF OnActive, HasOpen
  <2>2. ~Rows!Rename(p)
    BY <1>2, <2>1 DEF Rows!Rename, OnActive, HasOpen, OneOwner
  <2> QED BY <2>1, <2>2, FileChanges DEF Untouched, NewFile, Grown
<1> QED BY <1>1, <1>2

(* A row that was written stays in the active file or in an archive. *)
LEMMA AppendsVisibleStep ==
  ASSUME RowsInv, NEW p \in Processes, RowsStep(p)
  PROVE  Rows!AppendsVisible'
<1> USE DEF RowsInv
<1>1. Rows!Visible \subseteq Rows!Visible'
  BY FileChanges, FilesStep
<1> SUFFICES ASSUME NEW q \in Processes, at'[q] = "done"
             PROVE  q \in Rows!Visible'
  BY <1>1 DEF Rows!AppendsVisible
<1>2. CASE at[q] = "done"
  BY <1>1, <1>2 DEF Rows!AppendsVisible
<1>3. CASE at[q] # "done"
  <2>1. q = p
    BY <1>3, OwnStep DEF RowsTyped
  <2>2. Rows!Write(p)
    BY <1>3, <2>1
       DEF RowsStep, Rows!Visit, Rows!Open, Rows!Lock, Rows!Recheck,
           Rows!Sweep, Rows!Rename, Rows!Recreate, Rows!WriteSummary,
           Rows!PublishSummary, Rows!Check, Rows!Write, Rows!Crash, Rows!GoTo,
           Rows!Retry, RowsTyped
  <2>3. /\ handle[p] = active /\ active \in 1..Len(files)
        /\ files[active] \in Seq(Row) /\ p \in Row
    BY <2>2 DEF Rows!Write, OnActive, HasOpen, RowsTyped, Row
  <2>4. files'[active] = Append(files[active], p) /\ active' = active
    BY <2>2, <2>3 DEF Rows!Write, RowsTyped
  <2>5. p \in Rows!Rows(files'[active'])
    BY <2>3, <2>4, AppendedRows DEF Rows!Rows
  <2> QED BY <2>1, <2>3, <2>4, <2>5 DEF Rows!Visible
<1> QED BY <1>2, <1>3

(* Readers change nothing that writers rely on. *)
LEMMA ReaderStep ==
  ASSUME RowsInv, Reading \/ UNCHANGED Rows!vars
  PROVE  RowsInv' /\ Rows!RowsStep
<1>1. UNCHANGED << files, active, archives, at, handle, owns >>
  BY DEF Reading, Rows!LookAt, Rows!Read, Rows!List, Rows!LookAgain,
         Rows!ListAgain, Rows!disk, Rows!processes, Rows!own, Rows!vars
<1>2. Rows!Visible' = Rows!Visible
  BY <1>1 DEF Rows!Visible, Rows!Rows
<1>3. RowsTyped' /\ OneOwner' /\ HasOpen' /\ OnActive' /\ OneName'
  BY <1>1 DEF RowsInv, RowsTyped, OneOwner, HasOpen, OnActive, OneName
<1>4. Rows!AppendsVisible'
  BY <1>1, <1>2 DEF RowsInv, Rows!AppendsVisible
<1>5. Rows!RowsStep
  BY <1>1, <1>4 DEF Rows!RowsStep, RowsInv, OneName
<1> QED BY <1>3, <1>4, <1>5 DEF RowsInv

(* The invariant is inductive, and every step keeps the rows. *)
LEMMA RowsInvStep ==
  ASSUME RowsInv, [Rows!Next]_(Rows!vars)
  PROVE  RowsInv' /\ Rows!RowsStep
<1>1. CASE Reading \/ UNCHANGED Rows!vars
  BY <1>1, ReaderStep
<1>2. ASSUME NEW p \in Processes, RowsStep(p)
      PROVE  RowsInv' /\ Rows!RowsStep
  <2>1. OneName' /\ \A i \in Rows!Rows(archives) : files'[i] = files[i]
    BY <1>2, FileChanges, FilesStep
  <2>2. Rows!AppendsVisible'
    BY <1>2, AppendsVisibleStep
  <2>3. RowsInv'
    BY <1>2, <2>1, <2>2, RowsTypedStep, OneOwnerStep, HasOpenStep, OnActiveStep
       DEF RowsInv
  <2> QED BY <2>1, <2>2, <2>3 DEF Rows!RowsStep, OneName
<1> QED BY <1>1, <1>2 DEF Rows!Next, RowsStep, Reading

(* Whatever is rotated, killed and raced for, with any number of writers:  *)
(* a row whose append returned stays visible, a file gets one archive's    *)
(* name, and no archive changes.                                           *)
THEOREM RowsKeptAlways == Rows!Spec => Rows!RowsKept
BY InitRowsInv, RowsInvStep, PTL DEF Rows!Spec, Rows!RowsKept
-----------------------------------------------------------------------------
(* The rows of the archives. *)
ArchivedRows == UNION { Rows!Rows(files[i]) : i \in Rows!Rows(archives) }

Identities == { << >> } \cup (Nat \X Nat)

ReaderTyped ==
  reader \in [ at : { "start", "read", "list", "look again", "list again",
                      "returned", "raised" },
               tries : Nat, identity : Identities, rows : Seq(Row),
               listed : Seq(Nat), again : Identities, before : SUBSET Row ]

(* A row is written once: it is in one file, and its append has returned.  *)
OnceWritten ==
  /\ \A i \in DOMAIN files : \A r \in Rows!Rows(files[i]) :
       r = OldRow \/ (r \in Processes /\ at[r] = "done")
  /\ \A i, j \in DOMAIN files :
       Rows!Rows(files[i]) \cap Rows!Rows(files[j]) # {} => i = j

(* A file that has been the active one still is, or is an archive now.     *)
Known(i) == i \in Rows!Rows(archives) \/ (i = active /\ active # 0)

(* What the reader knows after its first look, ...                         *)
AfterLook ==
  reader.at = "read" =>
    /\ reader.before \subseteq Rows!Visible
    /\ reader.identity = << >> => reader.before \subseteq ArchivedRows
    /\ reader.identity # << >> => Known(reader.identity[1])

(* ... after the rows of the active file, ...                              *)
AfterRead ==
  reader.at = "list" =>
    /\ reader.before \subseteq Rows!Rows(reader.rows) \cup ArchivedRows
    /\ Rows!Rows(reader.rows) # {} =>
         /\ reader.identity # << >>
         /\ \E b \in DOMAIN files :
              /\ Known(b) /\ Rows!Rows(reader.rows) \subseteq Rows!Rows(files[b])
              /\ reader.identity[1] \in { b } \cup Rows!Rows(archives)

(* ... after the list of the archives, and after the second look.          *)
AfterList ==
  reader.at \in { "look again", "list again", "returned" } =>
    /\ Rows!Rows(reader.listed) \subseteq Rows!Rows(archives)
    /\ reader.before \subseteq Rows!Snapshot
    /\ Rows!Twice => /\ reader.identity # << >>
                     /\ reader.identity[1] \in Rows!Rows(archives)

AfterSecondLook ==
  reader.at = "list again" /\ Rows!Twice /\ reader.again # << >>
    => reader.again[1] # reader.identity[1]

(* The inductive invariant. *)
ReaderInv == /\ ReaderTyped
             /\ OnceWritten
             /\ AfterLook
             /\ AfterRead
             /\ AfterList
             /\ AfterSecondLook
             /\ Rows!SnapshotSound
-----------------------------------------------------------------------------
(* What is known of the files stays true of them.                          *)
LEMMA KnownStays ==
  ASSUME RowsInv, NEW p \in Processes, RowsStep(p)
  PROVE  /\ Rows!Rows(archives) \subseteq Rows!Rows(archives')
         /\ \A i \in Rows!Rows(archives) : files'[i] = files[i]
         /\ \A i \in DOMAIN files : /\ i \in DOMAIN files'
                                    /\ Rows!Rows(files[i]) \subseteq Rows!Rows(files'[i])
         /\ \A i : Known(i) => Known(i)'
         /\ ArchivedRows \subseteq ArchivedRows'
         /\ Rows!Visible \subseteq Rows!Visible'
<1> USE DEF RowsInv
<1>1. \/ Untouched \/ NewFile \/ Archived \/ Grown(p)
  BY FileChanges
<1>2. /\ \A i \in Rows!Rows(archives) : files'[i] = files[i]
      /\ Rows!Visible \subseteq Rows!Visible'
  BY <1>1, FilesStep
<1>3. /\ files \in Seq(Seq(Row)) /\ active \in 0..Len(files) /\ archives \in Seq(Nat)
      /\ p \in Row
  BY DEF RowsTyped, Row
<1>4. /\ Rows!Rows(archives) \subseteq Rows!Rows(archives')
      /\ \A i : Known(i) => Known(i)'
  <2>1. CASE Archived
    <3>1. /\ DOMAIN archives' = DOMAIN archives \cup { Len(archives) + 1 }
          /\ \A i \in DOMAIN archives : archives'[i] = archives[i]
          /\ archives'[Len(archives) + 1] = active
      BY <1>3, <2>1, AppendedRows DEF Archived
    <3>2. Rows!Rows(archives) \subseteq Rows!Rows(archives') /\ active \in Rows!Rows(archives')
      BY <3>1 DEF Rows!Rows
    <3> QED BY <3>2 DEF Known
  <2>2. CASE Untouched \/ NewFile \/ Grown(p)
    BY <2>2 DEF Untouched, NewFile, Grown, Known
  <2> QED BY <1>1, <2>1, <2>2
<1>5. \A i \in DOMAIN files : /\ i \in DOMAIN files'
                              /\ Rows!Rows(files[i]) \subseteq Rows!Rows(files'[i])
  <2>1. CASE NewFile
    <3>1. << >> \in Seq(Row) OBVIOUS
    <3>2. /\ DOMAIN files' = DOMAIN files \cup { Len(files) + 1 }
          /\ \A i \in DOMAIN files : files'[i] = files[i]
      BY <1>3, <2>1, <3>1, AppendedRows DEF NewFile
    <3> QED BY <3>2
  <2>2. CASE Grown(p)
    <3>1. active \in DOMAIN files /\ files[active] \in Seq(Row)
      BY <1>3, <2>2 DEF Grown
    <3>2. Rows!Rows(files[active]) \subseteq Rows!Rows(Append(files[active], p))
      BY <1>3, <3>1, AppendedRows DEF Rows!Rows
    <3>3. /\ DOMAIN files' = DOMAIN files
          /\ files'[active] = Append(files[active], p)
          /\ \A i \in DOMAIN files : i # active => files'[i] = files[i]
      BY <2>2, <3>1 DEF Grown
    <3> QED BY <3>2, <3>3
  <2>3. CASE Untouched \/ Archived
    BY <2>3 DEF Untouched, Archived
  <2> QED BY <1>1, <2>1, <2>2, <2>3
<1>6. ArchivedRows \subseteq ArchivedRows'
  BY <1>2, <1>4 DEF ArchivedRows
<1> QED BY <1>2, <1>4, <1>5, <1>6

(* A row is written once, by a call that returns.                          *)
LEMMA OnceWrittenStep ==
  ASSUME OldRow \notin Processes, RowsInv, OnceWritten, NEW p \in Processes, RowsStep(p)
  PROVE  OnceWritten'
<1> USE DEF RowsInv
<1>1. /\ files \in Seq(Seq(Row)) /\ active \in 0..Len(files) /\ p \in Row
      /\ at \in [Processes -> RowsPlaces]
  BY DEF RowsTyped, Row
<1>2. \A q \in Processes : at[q] = "done" => at'[q] = "done"
  <2>1. \E w \in RowsPlaces : at' = [at EXCEPT ![p] = w]
    BY OwnStep
  <2>2. at[p] # "done"
    BY DEF RowsStep, Rows!Visit, Rows!Open, Rows!Lock, Rows!Recheck,
           Rows!Sweep, Rows!Rename, Rows!Recreate, Rows!WriteSummary,
           Rows!PublishSummary, Rows!Check, Rows!Write, Rows!Crash
  <2> QED BY <1>1, <2>1, <2>2
<1>3. CASE UNCHANGED files
  BY <1>2, <1>3 DEF OnceWritten
<1>4. CASE NewFile
  <2>1. << >> \in Seq(Row) OBVIOUS
  <2>2. /\ DOMAIN files' = DOMAIN files \cup { Len(files) + 1 }
        /\ \A i \in DOMAIN files : files'[i] = files[i]
        /\ files'[Len(files) + 1] = << >>
    BY <1>1, <1>4, <2>1, AppendedRows DEF NewFile
  <2>3. Rows!Rows(files'[Len(files) + 1]) = {}
    BY <2>2 DEF Rows!Rows
  <2> QED BY <1>2, <2>2, <2>3 DEF OnceWritten
<1>5. CASE Grown(p) /\ Rows!Write(p)
  <2>1. active \in DOMAIN files /\ files[active] \in Seq(Row)
    BY <1>1, <1>5 DEF Grown
  <2>2. Rows!Rows(Append(files[active], p)) = Rows!Rows(files[active]) \cup { p }
    <3> DEFINE old == files[active]
               new == Append(files[active], p)
    <3>1. /\ DOMAIN new = DOMAIN old \cup { Len(old) + 1 } /\ new[Len(old) + 1] = p
          /\ \A i \in DOMAIN old : new[i] = old[i]
      BY <1>1, <2>1, AppendedRows
    <3> HIDE DEF old, new
    <3>2. { new[i] : i \in DOMAIN new } = { old[i] : i \in DOMAIN old } \cup { p }
      BY <3>1
    <3> QED BY <3>2 DEF old, new, Rows!Rows
  <2>3. /\ DOMAIN files' = DOMAIN files
        /\ files'[active] = Append(files[active], p)
        /\ \A i \in DOMAIN files : i # active => files'[i] = files[i]
    BY <1>5, <2>1 DEF Grown
  <2>4. at[p] = "write" /\ at'[p] = "done"
    BY <1>1, <1>5 DEF Rows!Write, Rows!GoTo
  <2>5. \A i \in DOMAIN files : p \notin Rows!Rows(files[i])
    BY <2>4 DEF OnceWritten
  <2>6. \A i \in DOMAIN files : Rows!Rows(files'[i]) \subseteq Rows!Rows(files[i]) \cup { p }
    BY <2>2, <2>3
  <2>7. \A i \in DOMAIN files : p \in Rows!Rows(files'[i]) => i = active
    BY <2>3, <2>5
  <2>8. \A i \in DOMAIN files' : \A row \in Rows!Rows(files'[i]) :
          row = OldRow \/ (row \in Processes /\ at'[row] = "done")
    BY <1>2, <2>3, <2>4, <2>6 DEF OnceWritten
  <2>9. \A i, j \in DOMAIN files' :
          Rows!Rows(files'[i]) \cap Rows!Rows(files'[j]) # {} => i = j
    <3> SUFFICES ASSUME NEW i \in DOMAIN files, NEW j \in DOMAIN files,
                        NEW row, row \in Rows!Rows(files'[i]), row \in Rows!Rows(files'[j])
                 PROVE  i = j
      BY <2>3
    <3>1. CASE row = p
      BY <2>7, <3>1
    <3>2. CASE row # p
      BY <2>6, <3>2 DEF OnceWritten
    <3> QED BY <3>1, <3>2
  <2> QED BY <2>8, <2>9 DEF OnceWritten, Rows!Rows
<1> QED BY <1>3, <1>4, <1>5, FileChanges DEF Untouched, Archived

(* What a reader knows survives the steps of the writers.                  *)
LEMMA WritersKeepReading ==
  ASSUME OldRow \notin Processes, RowsInv, ReaderInv, NEW p \in Processes, RowsStep(p)
  PROVE  ReaderInv'
<1> USE DEF ReaderInv
<1>1. reader' = reader
  BY DEF RowsStep, Rows!Visit, Rows!Open, Rows!Lock, Rows!Recheck,
         Rows!Sweep, Rows!Rename, Rows!Recreate, Rows!WriteSummary,
         Rows!PublishSummary, Rows!Check, Rows!Write, Rows!Crash
<1>2. /\ Rows!Rows(archives) \subseteq Rows!Rows(archives')
      /\ \A i \in Rows!Rows(archives) : files'[i] = files[i]
      /\ \A i \in DOMAIN files : /\ i \in DOMAIN files'
                                 /\ Rows!Rows(files[i]) \subseteq Rows!Rows(files'[i])
      /\ \A i : Known(i) => Known(i)'
      /\ ArchivedRows \subseteq ArchivedRows'
      /\ Rows!Visible \subseteq Rows!Visible'
  BY KnownStays
<1>3. ReaderTyped' /\ OnceWritten'
  BY <1>1, OnceWrittenStep DEF ReaderTyped
<1>4. AfterLook'
  BY <1>1, <1>2 DEF AfterLook
<1>5. AfterRead'
  <2> SUFFICES ASSUME reader.at = "list"
               PROVE  /\ reader.before \subseteq Rows!Rows(reader.rows) \cup ArchivedRows'
                      /\ Rows!Rows(reader.rows) # {} =>
                           /\ reader.identity # << >>
                           /\ \E b \in DOMAIN files' :
                                /\ Known(b)'
                                /\ Rows!Rows(reader.rows) \subseteq Rows!Rows(files'[b])
                                /\ reader.identity[1] \in { b } \cup Rows!Rows(archives')
    BY <1>1 DEF AfterRead, Rows!Rows
  <2>1. /\ reader.before \subseteq Rows!Rows(reader.rows) \cup ArchivedRows
        /\ Rows!Rows(reader.rows) # {} => reader.identity # << >>
    BY DEF AfterRead
  <2>2. ASSUME Rows!Rows(reader.rows) # {}
        PROVE  \E b \in DOMAIN files' :
                 /\ Known(b)'
                 /\ Rows!Rows(reader.rows) \subseteq Rows!Rows(files'[b])
                 /\ reader.identity[1] \in { b } \cup Rows!Rows(archives')
    <3>1. PICK b \in DOMAIN files :
            /\ Known(b) /\ Rows!Rows(reader.rows) \subseteq Rows!Rows(files[b])
            /\ reader.identity[1] \in { b } \cup Rows!Rows(archives)
      BY <2>2 DEF AfterRead
    <3>2. b \in DOMAIN files' /\ Known(b)'
      BY <1>2, <3>1
    <3>3. Rows!Rows(reader.rows) \subseteq Rows!Rows(files'[b])
      BY <1>2, <3>1
    <3> QED BY <1>2, <3>1, <3>2, <3>3
  <2> QED BY <1>2, <2>1, <2>2
<1>6. reader.at \in { "look again", "list again", "returned" } =>
        /\ (Rows!Snapshot)' = Rows!Snapshot
        /\ (Rows!Twice)' <=> Rows!Twice
  <2> SUFFICES ASSUME reader.at \in { "look again", "list again", "returned" }
               PROVE  /\ (Rows!Snapshot)' = Rows!Snapshot
                      /\ (Rows!Twice)' <=> Rows!Twice
    OBVIOUS
  <2>1. \A i \in Rows!Rows(reader.listed) : files'[i] = files[i]
    BY <1>2 DEF AfterList
  <2>2. (Rows!Rows(reader.listed))' = Rows!Rows(reader.listed)
        /\ (Rows!Rows(reader.rows))' = Rows!Rows(reader.rows)
    BY <1>1
  <2> QED BY <2>1, <2>2 DEF Rows!Snapshot, Rows!Twice
<1>7. AfterList'
  <2> SUFFICES ASSUME reader.at \in { "look again", "list again", "returned" }
               PROVE  /\ Rows!Rows(reader.listed) \subseteq Rows!Rows(archives')
                      /\ reader.before \subseteq (Rows!Snapshot)'
                      /\ (Rows!Twice)' => /\ reader.identity # << >>
                                          /\ reader.identity[1] \in Rows!Rows(archives')
    BY <1>1 DEF AfterList, Rows!Rows
  <2> QED BY <1>2, <1>6 DEF AfterList
<1>8. AfterSecondLook'
  BY <1>1, <1>6 DEF AfterSecondLook
<1>9. (Rows!SnapshotSound)'
  BY <1>1, <1>6 DEF Rows!SnapshotSound
<1> QED BY <1>3, <1>4, <1>5, <1>7, <1>8, <1>9

(* What a look at the active file tells.                                   *)
LEMMA IdentityTells ==
  ASSUME RowsInv
  PROVE  /\ Rows!Identity \in Identities
         /\ Rows!Identity = << >> <=> active = 0
         /\ active # 0 => Rows!Identity[1] = active
<1>1. active \in Nat /\ (active # 0 => Len(files[active]) \in Nat)
  BY DEF RowsInv, RowsTyped
<1> QED BY <1>1 DEF Rows!Identity, Identities

(* What is visible: the archives, and the active file if there is one.     *)
LEMMA VisibleIs ==
  /\ active = 0 => Rows!Visible = ArchivedRows
  /\ active # 0 => Rows!Visible = ArchivedRows \cup Rows!Rows(files[active])
BY DEF Rows!Visible, ArchivedRows

LEMMA VisibleRows ==
  ASSUME RowsInv
  PROVE  Rows!Visible \subseteq Row
<1>1. /\ \A i \in Rows!Rows(archives) : i \in DOMAIN files
      /\ active # 0 => active \in DOMAIN files
      /\ \A i \in DOMAIN files : files[i] \in Seq(Row)
  BY DEF RowsInv, RowsTyped, Rows!Rows
<1>2. \A i \in DOMAIN files : Rows!Rows(files[i]) \subseteq Row
  BY <1>1 DEF Rows!Rows
<1> QED BY <1>1, <1>2 DEF Rows!Visible

(* A reader's own steps.                                                   *)
LEMMA ReadingKeeps ==
  ASSUME RowsInv, ReaderInv, Reading
  PROVE  ReaderInv'
<1> USE DEF ReaderInv
<1>1. UNCHANGED << files, active, archives, at >>
  BY DEF Reading, Rows!LookAt, Rows!Read, Rows!List, Rows!LookAgain,
         Rows!ListAgain, Rows!disk, Rows!processes
<1>2. /\ ArchivedRows' = ArchivedRows /\ (Rows!Visible)' = Rows!Visible
      /\ \A i : Known(i)' <=> Known(i)
      /\ (Rows!Rows(archives))' = Rows!Rows(archives)
  BY <1>1 DEF ArchivedRows, Rows!Visible, Rows!Rows, Known
<1>3. OnceWritten'
  BY <1>1 DEF OnceWritten
<1>4. CASE Rows!LookAt
  <2>1. reader' = [reader EXCEPT !.at = "read", !.identity = Rows!Identity,
                                 !.before = Rows!Visible]
    BY <1>4 DEF Rows!LookAt
  <2>2. ReaderTyped'
    BY <2>1, IdentityTells, VisibleRows DEF ReaderTyped
  <2>3. /\ reader'.at = "read" /\ reader'.identity = Rows!Identity
        /\ reader'.before = Rows!Visible
    BY <2>1 DEF ReaderTyped
  <2>4. AfterLook'
    BY <1>2, <2>3, IdentityTells, VisibleIs DEF AfterLook, Known
  <2> QED BY <1>3, <2>2, <2>3, <2>4 DEF AfterRead, AfterList, AfterSecondLook,
          Rows!SnapshotSound
<1>5. CASE Rows!Read
  <2> DEFINE gone == reader.identity = << >> \/ active = 0
             rows == IF gone THEN << >> ELSE files[active]
  <2>1. /\ reader.at = "read"
        /\ reader' = [reader EXCEPT !.at = "list",
                        !.identity = IF gone THEN << >> ELSE @, !.rows = rows]
    BY <1>5 DEF Rows!Read
  <2>2. rows \in Seq(Row)
    BY DEF RowsInv, RowsTyped
  <2>3. << >> \in Identities BY DEF Identities
  <2>4. /\ reader'.at = "list" /\ reader'.rows = rows /\ reader'.before = reader.before
        /\ ~gone => reader'.identity = reader.identity
        /\ ReaderTyped'
    <3> HIDE DEF rows, gone
    <3> QED BY <2>1, <2>2, <2>3 DEF ReaderTyped
  <2>5. CASE gone
    <3>1. Rows!Rows(rows) = {} /\ reader.before \subseteq ArchivedRows
      BY <2>1, <2>5, VisibleIs DEF AfterLook, Rows!Rows
    <3>2. AfterRead'
      <4> HIDE DEF rows, gone
      <4> QED BY <1>2, <2>4, <3>1 DEF AfterRead, Rows!Rows
    <3> QED BY <1>3, <2>4, <3>2 DEF AfterLook, AfterList, AfterSecondLook,
            Rows!SnapshotSound
  <2>6. CASE ~gone
    <3>1. /\ active # 0 /\ active \in DOMAIN files /\ rows = files[active]
          /\ reader.identity # << >> /\ Known(reader.identity[1]) /\ Known(active)
          /\ reader.before \subseteq Rows!Rows(rows) \cup ArchivedRows
      BY <2>1, <2>6, VisibleIs DEF AfterLook, RowsInv, RowsTyped, Known
    <3>2. AfterRead'
      <4> SUFFICES /\ reader.before \subseteq Rows!Rows(rows) \cup ArchivedRows
                   /\ reader.identity # << >>
                   /\ Known(active) /\ active \in DOMAIN files
                   /\ Rows!Rows(rows) \subseteq Rows!Rows(files[active])
                   /\ reader.identity[1] \in { active } \cup Rows!Rows(archives)
        <5>1. (Rows!Rows(reader.rows))' = Rows!Rows(rows)
          BY <2>4 DEF Rows!Rows
        <5>2. /\ (reader.identity)' = reader.identity /\ (reader.before)' = reader.before
              /\ \A i : (Rows!Rows(files[i]))' = Rows!Rows(files[i])
              /\ DOMAIN files' = DOMAIN files
          BY <1>1, <2>4, <2>6 DEF Rows!Rows
        <5> HIDE DEF rows, gone
        <5> QED BY <1>2, <5>1, <5>2 DEF AfterRead
      <4> QED BY <3>1 DEF Known
    <3> QED BY <1>3, <2>4, <3>2 DEF AfterLook, AfterList, AfterSecondLook,
            Rows!SnapshotSound
  <2> QED BY <2>5, <2>6
<1>6. CASE Rows!List
  <2>1. reader.at = "list" /\ reader' = [reader EXCEPT !.at = "look again", !.listed = archives]
    BY <1>6 DEF Rows!List
  <2>2. /\ ReaderTyped' /\ reader'.at = "look again" /\ reader'.listed = archives
        /\ reader'.rows = reader.rows /\ reader'.before = reader.before
        /\ reader'.identity = reader.identity
    BY <2>1 DEF ReaderTyped, RowsInv, RowsTyped
  <2>7. (Rows!Rows(reader.listed))' = Rows!Rows(archives)
    BY <2>2 DEF Rows!Rows
  <2>8. (Rows!Rows(reader.rows))' = Rows!Rows(reader.rows)
    BY <2>2 DEF Rows!Rows
  <2>9. \A i : (Rows!Rows(files[i]))' = Rows!Rows(files[i])
    BY <1>1 DEF Rows!Rows
  <2>10. (Rows!Snapshot)' = Rows!Rows(reader.rows) \cup ArchivedRows
    BY <2>7, <2>8, <2>9 DEF Rows!Snapshot, ArchivedRows
  <2>3. /\ (Rows!Rows(reader.listed))' = Rows!Rows(archives)
        /\ (Rows!Rows(reader.rows))' = Rows!Rows(reader.rows)
        /\ (Rows!Snapshot)' = Rows!Rows(reader.rows) \cup ArchivedRows
    BY <2>7, <2>8, <2>10
  <2>4. ASSUME (Rows!Twice)'
        PROVE  reader.identity # << >> /\ reader.identity[1] \in Rows!Rows(archives)
    <3>1. PICK i \in Rows!Rows(archives) :
            Rows!Rows(files[i]) \cap Rows!Rows(reader.rows) # {}
      BY <1>1, <2>3, <2>4 DEF Rows!Twice, Rows!Rows
    <3>2. i \in DOMAIN files
      BY <3>1 DEF RowsInv, RowsTyped, Rows!Rows
    <3>3. reader.identity # << >>
      BY <2>1, <3>1 DEF AfterRead
    <3>4. PICK b \in DOMAIN files :
            /\ Known(b) /\ Rows!Rows(reader.rows) \subseteq Rows!Rows(files[b])
            /\ reader.identity[1] \in { b } \cup Rows!Rows(archives)
      BY <2>1, <3>1 DEF AfterRead
    <3>5. i = b
      BY <3>1, <3>2, <3>4 DEF OnceWritten
    <3> QED BY <3>1, <3>3, <3>4, <3>5
  <2>5. AfterList'
    BY <1>2, <2>1, <2>2, <2>3, <2>4 DEF AfterList, AfterRead
  <2> QED BY <1>3, <2>2, <2>5 DEF AfterLook, AfterRead, AfterSecondLook,
          Rows!SnapshotSound
<1>7. CASE Rows!LookAgain \/ Rows!ListAgain
  <2>1. /\ reader.at \in { "look again", "list again" }
        /\ UNCHANGED << reader.rows, reader.listed, reader.before, reader.identity >>
        /\ ReaderTyped'
        /\ reader'.at \in { "list again", "returned", "start", "raised" }
    <3>1. CASE Rows!LookAgain
      BY <3>1, IdentityTells DEF Rows!LookAgain, ReaderTyped
    <3>2. CASE Rows!ListAgain
      <4>1. reader.tries + 1 \in Nat
        <5>1. reader.tries \in Nat BY DEF ReaderTyped
        <5> QED BY <5>1
      <4> QED BY <3>2, <4>1 DEF Rows!ListAgain, ReaderTyped
    <3> QED BY <1>7, <3>1, <3>2
  <2>2. /\ (Rows!Rows(reader.listed))' = Rows!Rows(reader.listed)
        /\ (Rows!Snapshot)' = Rows!Snapshot
        /\ (Rows!Twice)' <=> Rows!Twice
    <3>1. (Rows!Rows(reader.listed))' = Rows!Rows(reader.listed)
      BY <2>1 DEF Rows!Rows
    <3>2. (Rows!Rows(reader.rows))' = Rows!Rows(reader.rows)
      BY <2>1 DEF Rows!Rows
    <3>3. \A i : (Rows!Rows(files[i]))' = Rows!Rows(files[i])
      BY <1>1 DEF Rows!Rows
    <3>4. (Rows!Snapshot)' = Rows!Snapshot
      BY <3>1, <3>2, <3>3 DEF Rows!Snapshot
    <3>5. (Rows!Twice)' <=> Rows!Twice
      BY <3>1, <3>2, <3>3 DEF Rows!Twice
    <3> QED BY <3>1, <3>4, <3>5
  <2>3. AfterList'
    BY <1>2, <2>1, <2>2 DEF AfterList
  <2>4. AfterLook' /\ AfterRead'
    BY <2>1 DEF AfterLook, AfterRead
  <2>5. CASE Rows!LookAgain
    <3>1. /\ reader.at = "look again" /\ reader'.at = "list again"
          /\ reader'.again = Rows!Identity
      BY <2>5 DEF Rows!LookAgain, ReaderTyped
    <3>2. active \notin Rows!Rows(archives)
      BY DEF RowsInv, OneName, Rows!Rows
    <3>3. AfterSecondLook'
      BY <2>1, <2>2, <3>1, <3>2, IdentityTells DEF AfterSecondLook, AfterList
    <3> QED BY <1>3, <2>1, <2>3, <2>4, <3>1, <3>3 DEF Rows!SnapshotSound
  <2>6. CASE Rows!ListAgain
    <3>1. /\ reader.at = "list again" /\ reader'.again = reader.again
          /\ reader'.at # "list again"
          /\ reader'.at = "returned" =>
               Rows!Stable(reader.identity, reader.again, reader.listed, archives)
      BY <2>6 DEF Rows!ListAgain, ReaderTyped
    <3>2. (Rows!SnapshotSound)'
      <4> SUFFICES ASSUME reader'.at = "returned"
                   PROVE  /\ reader.before \subseteq Rows!Snapshot
                          /\ Rows!Twice =>
                               /\ reader.identity # << >> /\ reader.again # << >>
                               /\ reader.again[1] # reader.identity[1]
                               /\ reader.again[2] > reader.identity[2]
        BY <2>1, <2>2, <3>1 DEF Rows!SnapshotSound
      <4>1. \/ reader.identity = reader.again
            \/ /\ reader.identity # << >> /\ reader.again # << >>
               /\ reader.again[2] > reader.identity[2]
        BY <3>1 DEF Rows!Stable
      <4> QED BY <3>1, <4>1 DEF AfterList, AfterSecondLook
    <3> QED BY <1>3, <2>1, <2>3, <2>4, <3>1, <3>2 DEF AfterSecondLook
  <2> QED BY <1>7, <2>5, <2>6
<1> QED BY <1>4, <1>5, <1>6, <1>7 DEF Reading

LEMMA ReaderInvStep ==
  ASSUME OldRow \notin Processes, RowsInv, ReaderInv, [Rows!Next]_(Rows!vars)
  PROVE  ReaderInv'
<1>1. CASE UNCHANGED Rows!vars
  <2>1. UNCHANGED << files, active, archives, at, reader >>
    BY <1>1 DEF Rows!vars
  <2>2. /\ \A i : (Rows!Rows(files[i]))' = Rows!Rows(files[i])
        /\ (Rows!Rows(archives))' = Rows!Rows(archives)
        /\ (Rows!Rows(reader.rows))' = Rows!Rows(reader.rows)
        /\ (Rows!Rows(reader.listed))' = Rows!Rows(reader.listed)
    BY <2>1 DEF Rows!Rows
  <2>3. /\ ArchivedRows' = ArchivedRows /\ (Rows!Visible)' = Rows!Visible
        /\ (Rows!Snapshot)' = Rows!Snapshot
    BY <2>1, <2>2 DEF ArchivedRows, Rows!Visible, Rows!Snapshot
  <2>4. /\ (Rows!Twice)' <=> Rows!Twice
        /\ \A i : Known(i)' <=> Known(i)
    BY <2>1, <2>2 DEF Rows!Twice, Known
  <2>5. ReaderTyped'
    BY <2>1 DEF ReaderInv, ReaderTyped
  <2>6. OnceWritten'
    BY <2>1, <2>2 DEF ReaderInv, OnceWritten
  <2>7. AfterLook'
    BY <2>1, <2>3, <2>4 DEF ReaderInv, AfterLook
  <2>8. AfterRead'
    BY <2>1, <2>2, <2>3, <2>4 DEF ReaderInv, AfterRead
  <2>9. AfterList' /\ AfterSecondLook' /\ (Rows!SnapshotSound)'
    BY <2>1, <2>2, <2>3, <2>4 DEF ReaderInv, AfterList, AfterSecondLook, Rows!SnapshotSound
  <2> QED BY <2>5, <2>6, <2>7, <2>8, <2>9 DEF ReaderInv
<1>2. CASE Rows!Next
  <2>1. Reading \/ \E p \in Processes : RowsStep(p)
    BY <1>2 DEF Rows!Next, RowsStep, Reading
  <2> QED BY <2>1, ReadingKeeps, WritersKeepReading
<1> QED BY <1>1, <1>2

LEMMA InitReaderInv ==
  ASSUME Rows!Init
  PROVE  ReaderInv
<1>1. /\ files = << << OldRow >> >> /\ active = 1 /\ archives = << >>
      /\ reader.at = "start"
  BY DEF Rows!Init
<1>2. ReaderTyped
  <2>1. << >> \in Identities /\ << >> \in Seq(Row) /\ << >> \in Seq(Nat)
    BY DEF Identities
  <2> QED BY <2>1 DEF Rows!Init, ReaderTyped
<1>3. OnceWritten
  BY <1>1 DEF OnceWritten, Rows!Rows
<1> QED BY <1>1, <1>2, <1>3 DEF ReaderInv, AfterLook, AfterRead, AfterList,
        AfterSecondLook, Rows!SnapshotSound

(* However many calls append and rotate while a reader reads: its result   *)
(* has every row that was there when it began, and twice only rows of a    *)
(* file that was rotated and has outgrown its old size.                    *)
THEOREM SnapshotSoundAlways ==
  ASSUME OldRow \notin Processes
  PROVE  Rows!Spec => []Rows!SnapshotSound
<1>1. Rows!Init => RowsInv /\ ReaderInv
  BY InitRowsInv, InitReaderInv
<1>2. RowsInv /\ ReaderInv /\ [Rows!Next]_(Rows!vars) => RowsInv' /\ ReaderInv'
  BY RowsInvStep, ReaderInvStep
<1>3. ReaderInv => Rows!SnapshotSound
  BY DEF ReaderInv
<1> QED BY <1>1, <1>2, <1>3, PTL DEF Rows!Spec
=============================================================================
