----------------------------- MODULE FilesProofs -----------------------------
(***************************************************************************)
(* Proofs about the files that processes share, scene by scene: what the    *)
(* rotations of the bus do to its events, for any processes, tickets and   *)
(* kills; what one writer of the bus may rely on; and, from the proofs of  *)
(* the locks, the test runner and the stores, what the whole promises.     *)
(***************************************************************************)
EXTENDS Files, LockProofs, SuiteProofs, StoreProofs, FiniteSetTheorems, TLAPS

(* Both names of the cardinality are the same operator. *)
LEMMA SameCardinality ==
  ASSUME NEW S
  PROVE  Archive!Cardinality(S) = Cardinality(S)
BY DEF Archive!Cardinality, Cardinality

(* The place of i among some positions. *)
Rank(I, i) == Cardinality({ j \in I : j <= i })

(* A later position has a higher place, and every place is taken.          *)
LEMMA Ranks ==
  ASSUME NEW n \in Nat, NEW I \in SUBSET (1..n)
  PROVE  /\ IsFiniteSet(I) /\ Cardinality(I) \in Nat
         /\ \A i \in I : Rank(I, i) \in 1..Cardinality(I)
         /\ \A i, j \in I : i < j => Rank(I, i) < Rank(I, j)
         /\ \A k \in 1..Cardinality(I) : \E i \in I : Rank(I, i) = k
<1>0. IsFiniteSet(1..n)
  BY FS_Interval
<1>1. IsFiniteSet(I) /\ Cardinality(I) \in Nat
  <2>1. IsFiniteSet(I)
    BY <1>0, FS_Subset
  <2> QED BY <2>1, FS_CardinalityType
<1>2. ASSUME NEW i \in I
      PROVE  Rank(I, i) \in 1..Cardinality(I)
  <2> DEFINE U == { j \in I : j <= i }
  <2>0. U \in SUBSET I OBVIOUS
  <2>1. IsFiniteSet(U) /\ Cardinality(U) \in Nat
          /\ Cardinality(U) <= Cardinality(I)
    <3> HIDE DEF U
    <3>1. IsFiniteSet(U) /\ Cardinality(U) <= Cardinality(I)
      BY <1>1, <2>0, FS_Subset
    <3>2. Cardinality(U) \in Nat
      BY <3>1, FS_CardinalityType
    <3> QED BY <3>1, <3>2
  <2>2. i \in U
    <3>1. i \in Int OBVIOUS
    <3> QED BY <3>1
  <2>3. Cardinality(U) # 0
    BY <2>1, <2>2, FS_EmptySet
  <2> QED BY <1>1, <2>1, <2>3 DEF Rank
<1>3. ASSUME NEW i \in I, NEW j \in I, i < j
      PROVE  Rank(I, i) < Rank(I, j)
  <2> DEFINE U == { k \in I : k <= i }
             V == { k \in I : k <= j }
  <2>0. I \subseteq Nat /\ U \in SUBSET V /\ V \in SUBSET I /\ U # V
    <3>1. I \subseteq Nat OBVIOUS
    <3>2. j \in V /\ j \notin U
      BY <1>3, <3>1
    <3>3. U \subseteq V
      <4> SUFFICES ASSUME NEW k \in U PROVE k \in V
        OBVIOUS
      <4>1. k \in Int /\ i \in Int /\ j \in Int /\ k <= i
        BY <3>1
      <4> QED BY <1>3, <4>1
    <3> QED BY <3>1, <3>2, <3>3
  <2>1. Cardinality(U) \in Nat /\ Cardinality(V) \in Nat
        /\ Cardinality(U) <= Cardinality(V) /\ Cardinality(U) # Cardinality(V)
    <3> HIDE DEF U, V
    <3>1. IsFiniteSet(V)
      BY <1>1, <2>0, FS_Subset
    <3>2. IsFiniteSet(U) /\ Cardinality(U) <= Cardinality(V)
          /\ (Cardinality(V) = Cardinality(U) => V = U)
      BY <2>0, <3>1, FS_Subset
    <3> QED BY <2>0, <3>1, <3>2, FS_CardinalityType
  <2> QED BY <2>1 DEF Rank
<1>4. \A k \in 1..Cardinality(I) : \E i \in I : Rank(I, i) = k
  <2> DEFINE f == [i \in I |-> Rank(I, i)]
             T == 1..Cardinality(I)
  <2>1. f \in [I -> T]
    BY <1>2
  <2>2. ASSUME NEW i \in I, NEW j \in I, f[i] = f[j]
        PROVE  i = j
    <3>1. Rank(I, i) = Rank(I, j)
      BY <2>2
    <3>2. Rank(I, i) \in Int
      BY <1>1, <1>2
    <3>3. ~(i < j) /\ ~(j < i)
      BY <1>3, <3>1, <3>2
    <3> QED BY <3>3
  <2>3. f \in Injection(I, T)
    BY <2>1, <2>2 DEF Injection, IsInjective
  <2>4. IsFiniteSet(T) /\ Cardinality(T) = Cardinality(I)
    BY <1>1, FS_Interval
  <2>5. f \in Surjection(I, T)
    <3> HIDE DEF f, T
    <3> QED BY <1>1, <2>3, <2>4, FS_Injection
  <2> QED BY <2>5 DEF Surjection
<1> QED BY <1>1, <1>2, <1>3, <1>4

(* The k-th position is the one of place k: the positions in their order.  *)
LEMMA NthIs ==
  ASSUME NEW n \in Nat, NEW I \in SUBSET (1..n)
  PROVE  /\ Cardinality(I) \in Nat
         /\ \A k \in 1..Cardinality(I) : Archive!Nth(I, k) \in I
         /\ \A k, l \in 1..Cardinality(I) : k < l
              => Archive!Nth(I, k) < Archive!Nth(I, l)
         /\ \A i \in I : \E k \in 1..Cardinality(I) : Archive!Nth(I, k) = i
<1>r. /\ Cardinality(I) \in Nat
      /\ \A i \in I : Rank(I, i) \in 1..Cardinality(I)
      /\ \A i, j \in I : i < j => Rank(I, i) < Rank(I, j)
      /\ \A k \in 1..Cardinality(I) : \E i \in I : Rank(I, i) = k
  BY Ranks
<1>1. ASSUME NEW k \in 1..Cardinality(I)
      PROVE  Archive!Nth(I, k) \in I /\ Rank(I, Archive!Nth(I, k)) = k
  <2>1. \E i \in I : Rank(I, i) = k
    BY <1>r
  <2> QED BY <2>1, SameCardinality DEF Archive!Nth, Rank
<1>2. ASSUME NEW k \in 1..Cardinality(I), NEW l \in 1..Cardinality(I), k < l
      PROVE  Archive!Nth(I, k) < Archive!Nth(I, l)
  <2>1. /\ Archive!Nth(I, k) \in I /\ Rank(I, Archive!Nth(I, k)) = k
        /\ Archive!Nth(I, l) \in I /\ Rank(I, Archive!Nth(I, l)) = l
    BY <1>1
  <2>2. Archive!Nth(I, k) \in Nat /\ Archive!Nth(I, l) \in Nat /\ k \in Int
          /\ l \in Int
    <3>1. I \subseteq Nat /\ 1..Cardinality(I) \subseteq Int OBVIOUS
    <3> QED BY <2>1, <3>1
  <2>3. Archive!Nth(I, k) # Archive!Nth(I, l)
    BY <1>2, <2>1, <2>2
  <2>4. ~(Archive!Nth(I, l) < Archive!Nth(I, k))
    BY <1>2, <2>1, <2>2, <1>r
  <2> QED BY <2>2, <2>3, <2>4
<1>3. ASSUME NEW i \in I
      PROVE  \E k \in 1..Cardinality(I) : Archive!Nth(I, k) = i
  <2> DEFINE k == Rank(I, i)
  <2>1. k \in 1..Cardinality(I)
    BY <1>r
  <2>2. Archive!Nth(I, k) \in I /\ Rank(I, Archive!Nth(I, k)) = Rank(I, i)
    BY <1>1, <2>1
  <2>3. Rank(I, i) \in Int
    BY <2>1
  <2>4. Archive!Nth(I, k) = i
    <3>1. Archive!Nth(I, k) \in Nat /\ i \in Nat
      <4>1. I \subseteq Nat OBVIOUS
      <4> HIDE DEF k
      <4> QED BY <2>2, <4>1
    <3>2. ~(Archive!Nth(I, k) < i) /\ ~(i < Archive!Nth(I, k))
      <4>1. \A m \in I : Rank(I, m) = Rank(I, i) => ~(m < i) /\ ~(i < m)
        BY <1>r, <2>3
      <4> HIDE DEF k
      <4> QED BY <2>2, <4>1
    <3> QED BY <3>1, <3>2
  <2> HIDE DEF k
  <2> QED BY <2>1, <2>4
<1> QED BY <1>1, <1>2, <1>3, <1>r

(* What is extracted: the records at these positions and no others, in     *)
(* their order.                                                            *)
LEMMA ExtractIs ==
  ASSUME NEW S, NEW s \in Seq(S), NEW I \in SUBSET DOMAIN s
  PROVE  /\ Archive!Extract(s, I) \in Seq(S)
         /\ \A k \in DOMAIN Archive!Extract(s, I) : \E i \in I :
              Archive!Extract(s, I)[k] = s[i]
         /\ \A i \in I : \E k \in DOMAIN Archive!Extract(s, I) :
              Archive!Extract(s, I)[k] = s[i]
         /\ \A k, l \in DOMAIN Archive!Extract(s, I) : k < l =>
              \E i, j \in I : i < j /\ Archive!Extract(s, I)[k] = s[i]
                /\ Archive!Extract(s, I)[l] = s[j]
<1> DEFINE u == Archive!Extract(s, I)
<1>1. DOMAIN s = 1..Len(s) /\ Len(s) \in Nat /\ I \in SUBSET (1..Len(s))
  OBVIOUS
<1>2. /\ DOMAIN u = 1..Cardinality(I)
      /\ \A k \in 1..Cardinality(I) : u[k] = s[Archive!Nth(I, k)]
      /\ u = [k \in 1..Cardinality(I) |-> s[Archive!Nth(I, k)]]
  BY SameCardinality DEF Archive!Extract
<1>3. /\ Cardinality(I) \in Nat
      /\ \A k \in 1..Cardinality(I) : Archive!Nth(I, k) \in I
      /\ \A k, l \in 1..Cardinality(I) : k < l
           => Archive!Nth(I, k) < Archive!Nth(I, l)
      /\ \A i \in I : \E k \in 1..Cardinality(I) : Archive!Nth(I, k) = i
  BY <1>1, NthIs
<1>4. u \in Seq(S)
  <2>1. \A k \in 1..Cardinality(I) : s[Archive!Nth(I, k)] \in S
    BY <1>3
  <2>2. u \in [1..Cardinality(I) -> S]
    BY <1>2, <2>1
  <2> HIDE DEF u
  <2> QED BY <1>3, <2>2
<1>5. \A k \in DOMAIN u : \E i \in I : u[k] = s[i]
  BY <1>2, <1>3
<1>6. \A i \in I : \E k \in DOMAIN u : u[k] = s[i]
  <2> SUFFICES ASSUME NEW i \in I PROVE \E k \in DOMAIN u : u[k] = s[i]
    OBVIOUS
  <2>1. PICK k \in 1..Cardinality(I) : Archive!Nth(I, k) = i
    BY <1>3
  <2> QED BY <1>2, <2>1
<1>7. \A k, l \in DOMAIN u : k < l =>
        \E i, j \in I : i < j /\ u[k] = s[i] /\ u[l] = s[j]
  BY <1>2, <1>3
<1> QED BY <1>4, <1>5, <1>6, <1>7
-----------------------------------------------------------------------------
(* In the order of writing; with growing numbers, up to outrun calls. *)
InOrder(s) == \A i, j \in DOMAIN s : i < j => s[i].id < s[j].id

Grows(s) ==
  \A i, j \in DOMAIN s : i < j =>
    \/ s[i].seq < s[j].seq
    \/ \E k \in outrun : s[i].id < k /\ k <= s[j].id

(* What is extracted is in order when the whole is. *)
LEMMA ExtractOrdered ==
  ASSUME NEW S, NEW s \in Seq(S), NEW I \in SUBSET DOMAIN s
  PROVE  /\ Grows(s) => Grows(Archive!Extract(s, I))
         /\ InOrder(s) => InOrder(Archive!Extract(s, I))
<1> DEFINE u == Archive!Extract(s, I)
<1>1. \A k, l \in DOMAIN u : k < l =>
        \E i, j \in I : i < j /\ u[k] = s[i] /\ u[l] = s[j]
  BY ExtractIs
<1>2. I \subseteq DOMAIN s OBVIOUS
<1> HIDE DEF u
<1>3. Grows(s) => Grows(u)
  BY <1>1, <1>2 DEF Grows
<1>4. InOrder(s) => InOrder(u)
  BY <1>1, <1>2 DEF InOrder
<1> QED BY <1>3, <1>4 DEF u

(* The records of a ticket, of all those of a file. *)
LEMMA OfTicketIs ==
  ASSUME NEW S, NEW s \in Seq(S), NEW t
  PROVE  /\ Archive!OfTicket(s, t) \in Seq(S)
         /\ \A k \in DOMAIN Archive!OfTicket(s, t) :
              /\ Archive!OfTicket(s, t)[k].ticket = t
              /\ \E i \in DOMAIN s : Archive!OfTicket(s, t)[k] = s[i]
         /\ \A i \in DOMAIN s : s[i].ticket = t =>
              \E k \in DOMAIN Archive!OfTicket(s, t) :
                Archive!OfTicket(s, t)[k] = s[i]
         /\ Grows(s) => Grows(Archive!OfTicket(s, t))
         /\ InOrder(s) => InOrder(Archive!OfTicket(s, t))
<1> DEFINE I == { i \in DOMAIN s : s[i].ticket = t }
<1>1. I \in SUBSET DOMAIN s /\ Archive!OfTicket(s, t) = Archive!Extract(s, I)
  BY DEF Archive!OfTicket
<1>2. /\ Archive!Extract(s, I) \in Seq(S)
      /\ \A k \in DOMAIN Archive!Extract(s, I) : \E i \in I :
           Archive!Extract(s, I)[k] = s[i]
      /\ \A i \in I : \E k \in DOMAIN Archive!Extract(s, I) :
           Archive!Extract(s, I)[k] = s[i]
      /\ Grows(s) => Grows(Archive!Extract(s, I))
      /\ InOrder(s) => InOrder(Archive!Extract(s, I))
  <2> HIDE DEF I
  <2> QED BY <1>1, ExtractIs, ExtractOrdered
<1>3. \A i : i \in I <=> i \in DOMAIN s /\ s[i].ticket = t
  OBVIOUS
<1> HIDE DEF I
<1> QED BY <1>1, <1>2, <1>3

(* The records of all other tickets. *)
LEMMA NotOfTicketIs ==
  ASSUME NEW S, NEW s \in Seq(S), NEW t
  PROVE  /\ Archive!NotOfTicket(s, t) \in Seq(S)
         /\ \A k \in DOMAIN Archive!NotOfTicket(s, t) :
              /\ Archive!NotOfTicket(s, t)[k].ticket # t
              /\ \E i \in DOMAIN s : Archive!NotOfTicket(s, t)[k] = s[i]
         /\ \A i \in DOMAIN s : s[i].ticket # t =>
              \E k \in DOMAIN Archive!NotOfTicket(s, t) :
                Archive!NotOfTicket(s, t)[k] = s[i]
         /\ Grows(s) => Grows(Archive!NotOfTicket(s, t))
         /\ InOrder(s) => InOrder(Archive!NotOfTicket(s, t))
<1> DEFINE I == { i \in DOMAIN s : s[i].ticket # t }
<1>1. I \in SUBSET DOMAIN s /\ Archive!NotOfTicket(s, t) = Archive!Extract(s,
        I)
  BY DEF Archive!NotOfTicket
<1>2. /\ Archive!Extract(s, I) \in Seq(S)
      /\ \A k \in DOMAIN Archive!Extract(s, I) : \E i \in I :
           Archive!Extract(s, I)[k] = s[i]
      /\ \A i \in I : \E k \in DOMAIN Archive!Extract(s, I) :
           Archive!Extract(s, I)[k] = s[i]
      /\ Grows(s) => Grows(Archive!Extract(s, I))
      /\ InOrder(s) => InOrder(Archive!Extract(s, I))
  <2> HIDE DEF I
  <2> QED BY <1>1, ExtractIs, ExtractOrdered
<1>3. \A i : i \in I <=> i \in DOMAIN s /\ s[i].ticket # t
  OBVIOUS
<1> HIDE DEF I
<1> QED BY <1>1, <1>2, <1>3
-----------------------------------------------------------------------------
(* What an append does to a sequence. *)
LEMMA Appended ==
  ASSUME NEW S, NEW s \in Seq(S), NEW e \in S
  PROVE  /\ Append(s, e) \in Seq(S)
         /\ Len(Append(s, e)) = Len(s) + 1 /\ Len(s) \in Nat
         /\ DOMAIN s = 1..Len(s)
         /\ DOMAIN Append(s, e) = DOMAIN s \cup { Len(s) + 1 }
         /\ Len(s) + 1 \notin DOMAIN s
         /\ \A i \in DOMAIN s : Append(s, e)[i] = s[i]
         /\ Append(s, e)[Len(s) + 1] = e
OBVIOUS

(* The records of a joined sequence. *)
LEMMA JoinedIs ==
  ASSUME NEW S, NEW a \in Seq(S), NEW b \in Seq(S)
  PROVE  /\ a \o b \in Seq(S)
         /\ \A k \in DOMAIN (a \o b) :
              \/ k \in DOMAIN a /\ (a \o b)[k] = a[k]
              \/ k - Len(a) \in DOMAIN b /\ (a \o b)[k] = b[k - Len(a)]
                   /\ k > Len(a)
         /\ Archive!Ids(a \o b) = Archive!Ids(a) \cup Archive!Ids(b)
<1>1. /\ a \o b \in Seq(S) /\ Len(a \o b) = Len(a) + Len(b)
      /\ DOMAIN (a \o b) = 1..(Len(a) + Len(b))
      /\ DOMAIN a = 1..Len(a) /\ DOMAIN b = 1..Len(b)
      /\ Len(a) \in Nat /\ Len(b) \in Nat
      /\ \A k \in 1..Len(a) : (a \o b)[k] = a[k]
      /\ \A k \in 1..Len(b) : (a \o b)[k + Len(a)] = b[k]
  OBVIOUS
<1> DEFINE c == a \o b
<1> HIDE DEF c
<1>2. ASSUME NEW k \in 1..(Len(a) + Len(b))
      PROVE  \/ k \in 1..Len(a) /\ c[k] = a[k]
             \/ k - Len(a) \in 1..Len(b) /\ c[k] = b[k - Len(a)] /\ k > Len(a)
  <2>1. CASE k <= Len(a)
    BY <1>1, <2>1 DEF c
  <2>2. CASE k > Len(a)
    <3>1. k - Len(a) \in 1..Len(b) /\ (k - Len(a)) + Len(a) = k
      BY <1>1, <2>2
    <3>2. c[(k - Len(a)) + Len(a)] = b[k - Len(a)]
      BY <1>1, <3>1 DEF c
    <3> QED BY <2>2, <3>1, <3>2
  <2> QED BY <1>1, <2>1, <2>2
<1>3. Archive!Ids(c) \subseteq Archive!Ids(a) \cup Archive!Ids(b)
  BY <1>1, <1>2 DEF Archive!Ids, c
<1>4. Archive!Ids(a) \cup Archive!Ids(b) \subseteq Archive!Ids(c)
  <2>1. ASSUME NEW i \in 1..Len(a) PROVE a[i].id \in Archive!Ids(c)
    <3>1. i \in DOMAIN c /\ c[i] = a[i]
      BY <1>1 DEF c
    <3> QED BY <3>1 DEF Archive!Ids
  <2>2. ASSUME NEW i \in 1..Len(b) PROVE b[i].id \in Archive!Ids(c)
    <3>1. i + Len(a) \in DOMAIN c /\ c[i + Len(a)] = b[i]
      BY <1>1 DEF c
    <3> QED BY <3>1 DEF Archive!Ids
  <2> QED BY <1>1, <2>1, <2>2 DEF Archive!Ids
<1> QED BY <1>1, <1>2, <1>3, <1>4 DEF c

(* A file that is overwritten has the new text, and of the old some rest.  *)
LEMMA OverwrittenIs ==
  ASSUME NEW S, NEW old \in Seq(S), NEW new \in Seq(S)
  PROVE  /\ Archive!Overwritten(old, new) \in Seq(S)
         /\ \A k \in DOMAIN Archive!Overwritten(old, new) :
              \/ \E i \in DOMAIN new : Archive!Overwritten(old, new)[k] = new[i]
              \/ \E i \in DOMAIN old : Archive!Overwritten(old, new)[k] = old[i]
         /\ Archive!Ids(new) \subseteq Archive!Ids(Archive!Overwritten(old, new))
         /\ DOMAIN old = {} => Archive!Overwritten(old, new) = new
<1> DEFINE I == { i \in DOMAIN old : i > Len(new) }
           rest == Archive!Extract(old, I)
<1>1. Archive!Overwritten(old, new) = new \o rest
  BY DEF Archive!Overwritten
<1>2. I \in SUBSET DOMAIN old
  OBVIOUS
<1>3. /\ rest \in Seq(S)
      /\ \A k \in DOMAIN rest : \E i \in I : rest[k] = old[i]
  <2> HIDE DEF I
  <2> QED BY <1>2, ExtractIs
<1>4. DOMAIN old = {} => rest = << >>
  <2> SUFFICES ASSUME DOMAIN old = {} PROVE rest = << >>
    OBVIOUS
  <2>1. I = {}
    OBVIOUS
  <2>2. DOMAIN rest = {}
    <3> HIDE DEF I, rest
    <3>1. \A k \in DOMAIN rest : FALSE
      BY <1>3, <2>1
    <3> QED BY <3>1
  <2> HIDE DEF I, rest
  <2> QED BY <1>3, <2>2
<1> HIDE DEF I, rest
<1>5. /\ new \o rest \in Seq(S)
      /\ \A k \in DOMAIN (new \o rest) :
           \/ k \in DOMAIN new /\ (new \o rest)[k] = new[k]
           \/ k - Len(new) \in DOMAIN rest
                /\ (new \o rest)[k] = rest[k - Len(new)]
      /\ Archive!Ids(new \o rest) = Archive!Ids(new) \cup Archive!Ids(rest)
  BY <1>3, JoinedIs
<1>6. rest = << >> => new \o rest = new
  OBVIOUS
<1>7. \A k \in DOMAIN (new \o rest) :
        \/ \E i \in DOMAIN new : (new \o rest)[k] = new[i]
        \/ \E i \in DOMAIN old : (new \o rest)[k] = old[i]
  BY <1>2, <1>3, <1>5
<1> QED BY <1>1, <1>4, <1>5, <1>6, <1>7
-----------------------------------------------------------------------------
(* What a rotation, and a call of emit, hold in memory. *)
Passes ==
  [ at : { "idle", "read", "merge", "truncate", "write", "replace" },
    todo : SUBSET Tickets, ticket : Tickets \cup { "" },
    kept : Seq(Archive!Archived), union : Seq(Archive!Archived) ]

Drafts == [ at : { "none", "numbered", "opened", "detached" }, seq : Nat,
            current : BOOLEAN ]

(* Every record is the one that was written under its id. *)
Genuine(s) ==
  \A i \in DOMAIN s : s[i].id \in DOMAIN written /\ s[i] = written[s[i].id]

AllGenuine ==
  /\ \A i \in DOMAIN written : written[i].id = i
  /\ Genuine(live)
  /\ \A t \in Tickets : Genuine(archive[t])
  /\ \A p \in BusProcesses : Genuine(pass[p].kept) /\ Genuine(pass[p].union)

(* What is the ticket's, and what is not, stays apart; a rotation between  *)
(* two moves holds nothing.                                                *)
AllOf(s, t) == \A i \in DOMAIN s : s[i].ticket = t
NoneOf(s, t) == \A i \in DOMAIN s : s[i].ticket # t

Sorted ==
  /\ \A t \in Tickets : AllOf(archive[t], t)
  /\ \A p \in BusProcesses :
       IF Archive!Holding(p)
       THEN /\ pass[p].ticket \in Tickets
            /\ AllOf(pass[p].union, pass[p].ticket)
            /\ NoneOf(pass[p].kept, pass[p].ticket)
       ELSE DOMAIN pass[p].union = {} /\ DOMAIN pass[p].kept = {}

(* The live file, and what may replace it, are in order; a number that was *)
(* read from the file as it is comes next.                                 *)
Numbered ==
  /\ InOrder(live) /\ Grows(live)
  /\ \A p \in BusProcesses :
       /\ InOrder(pass[p].kept) /\ Grows(pass[p].kept)
       /\ draft[p].current => draft[p].seq = Archive!LastSeq(live) + 1
       /\ draft[p].at = "detached" => ~draft[p].current

(* The events that every race spared, and where each is: in its archive or *)
(* about to be written there, or else still in the live file; and so, once *)
(* the live file is replaced, in what was kept of it.                      *)
Excused == stranded \cup overtaken \cup contended \cup torn

Spared(t) ==
  { i \in DOMAIN written : written[i].ticket = t /\ i \notin Excused }

Held(t) ==
  Archive!Ids(archive[t]) \cup
    UNION { Archive!Ids(pass[p].union) :
              p \in { q \in BusProcesses :
                        pass[q].at = "write" /\ pass[q].ticket = t } }

Knows(p, t) ==
  CASE t # pass[p].ticket -> Archive!Ids(pass[p].kept) \cup Held(t)
    [] t = pass[p].ticket /\ pass[p].at = "merge"
         -> Archive!Ids(pass[p].union) \cup Held(t)
    [] t = pass[p].ticket /\ pass[p].at \in { "truncate", "write" }
         -> Archive!Ids(pass[p].union)
    [] OTHER -> Held(t)

NoneLost ==
  \A t \in Tickets :
    /\ Spared(t) \subseteq Archive!Ids(live) \cup Held(t)
    /\ \A p \in BusProcesses :
         Archive!Holding(p) => Spared(t) \subseteq Knows(p, t)
    /\ \A p, q \in BusProcesses :
         p # q /\ Archive!Rewriting(p, t) /\ Archive!Rewriting(q, t)
           => Spared(t) = {}

(* Until a rotation is killed or overlaps another one, the archive of a    *)
(* ticket comes before what the live file has of it, unless the rotation   *)
(* is about to replace both.                                               *)
Before(s, t) ==
  \A i \in DOMAIN s, j \in DOMAIN live : live[j].ticket = t
    => s[i].id < live[j].id

Part(s, u) == \A i \in DOMAIN s : \E j \in DOMAIN u : u[j] = s[i]

Settled(t) ==
  \A p \in BusProcesses :
    ~(pass[p].at \in { "write", "replace" } /\ pass[p].ticket = t)

Chronological ==
  crashes = 0 /\ ~overlapped =>
    /\ \A p, q \in BusProcesses :
         Archive!Holding(p) /\ Archive!Holding(q) => p = q
    /\ \A p \in BusProcesses : Archive!Holding(p) =>
         /\ InOrder(pass[p].union)
         /\ Part(pass[p].kept, live)
         /\ pass[p].at = "merge" => Part(pass[p].union, live)
         /\ pass[p].at = "write" => DOMAIN archive[pass[p].ticket] = {}
         /\ pass[p].at = "replace" => archive[pass[p].ticket] = pass[p].union
    /\ \A t \in Tickets : Settled(t) => InOrder(archive[t]) /\ Before(archive[t], t)

(* The inductive invariant. *)
ArchiveInv == /\ Archive!TypeOK
              /\ AllGenuine
              /\ Sorted
              /\ Numbered
              /\ NoneLost
              /\ Chronological

(* Before anything is written. *)
LEMMA InitArchiveInv ==
  ASSUME Archive!Init, MaxCrashes \in Nat, MaxRotations \in Nat
  PROVE  ArchiveInv
<1> DEFINE empty == << >>
<1>a. /\ empty \in Seq(Archive!Archived) /\ \A i : i \notin DOMAIN empty
      /\ live = empty /\ written = empty /\ archive = [t \in Tickets |-> empty]
      /\ outrun = {} /\ stranded = {} /\ overtaken = {} /\ contended = {}
      /\ torn = {} /\ crashes = 0 /\ rotations = 0 /\ overlapped = FALSE
      /\ pass = [p \in BusProcesses |-> Archive!NoPass]
      /\ draft = [p \in BusProcesses |-> Archive!NoDraft]
  BY DEF Archive!Init
<1>b. /\ Archive!NoPass \in Passes /\ Archive!NoPass.at = "idle"
      /\ Archive!NoPass.kept = empty /\ Archive!NoPass.union = empty
  BY <1>a DEF Archive!NoPass, Passes
<1>c. /\ Archive!NoDraft \in Drafts /\ Archive!NoDraft.current = FALSE
      /\ Archive!NoDraft.at = "none"
  BY DEF Archive!NoDraft, Drafts
<1> HIDE DEF empty
<1>d. \A p \in BusProcesses :
        /\ pass[p] = Archive!NoPass /\ draft[p] = Archive!NoDraft
        /\ ~Archive!Holding(p)
  BY <1>a, <1>b DEF Archive!Holding
<1>1. Archive!TypeOK
  <2>1. crashes \in 0..MaxCrashes /\ rotations \in 0..MaxRotations
    BY <1>a
  <2>2. archive \in [Tickets -> Seq(Archive!Archived)]
    BY <1>a
  <2>3. pass \in [BusProcesses -> Passes]
    BY <1>a, <1>b
  <2>4. draft \in [BusProcesses -> Drafts]
    BY <1>a, <1>c
  <2>5. overlapped \in BOOLEAN
    BY <1>a
  <2>6. \A ids \in { outrun, stranded, overtaken, contended, torn } :
          ids \subseteq DOMAIN written
    BY <1>a
  <2>7. live \in Seq(Archive!Archived) /\ written \in Seq(Archive!Archived)
    BY <1>a
  <2> QED BY <2>1, <2>2, <2>3, <2>4, <2>5, <2>6, <2>7
          DEF Archive!TypeOK, Passes, Drafts
<1>2. AllGenuine BY <1>a, <1>b, <1>d DEF AllGenuine, Genuine
<1>3. Sorted
  <2>1. DOMAIN empty = {} BY <1>a
  <2> QED BY <1>a, <1>b, <1>d, <2>1 DEF Sorted, AllOf
<1>4. Numbered BY <1>a, <1>b, <1>c, <1>d DEF Numbered, InOrder, Grows
<1>5. NoneLost
  <2>1. \A t : Spared(t) = {}
    BY <1>a DEF Spared
  <2> QED BY <1>d, <2>1 DEF NoneLost
<1>6. Chronological BY <1>a, <1>d DEF Chronological, InOrder, Before
<1> QED BY <1>1, <1>2, <1>3, <1>4, <1>5, <1>6 DEF ArchiveInv

(* The types, in the words of these proofs. *)
LEMMA ArchiveTypes ==
  ASSUME Archive!TypeOK
  PROVE  /\ live \in Seq(Archive!Archived) /\ written \in Seq(Archive!Archived)
         /\ archive \in [Tickets -> Seq(Archive!Archived)]
         /\ pass \in [BusProcesses -> Passes]
         /\ draft \in [BusProcesses -> Drafts]
         /\ \A i \in DOMAIN live : i \in Nat /\ live[i].id \in Nat /\ live[i].seq \in Nat
         /\ \A i \in DOMAIN written : i \in Nat /\ written[i].ticket \in Tickets
         /\ outrun \subseteq Nat
<1>1. /\ live \in Seq(Archive!Archived) /\ written \in Seq(Archive!Archived)
      /\ archive \in [Tickets -> Seq(Archive!Archived)]
      /\ pass \in [BusProcesses -> Passes]
      /\ draft \in [BusProcesses -> Drafts]
      /\ outrun \subseteq DOMAIN written
  BY DEF Archive!TypeOK, Passes, Drafts
<1>2. \A a \in Archive!Archived : a.seq \in Nat /\ a.id \in Nat /\ a.ticket \in Tickets
  BY DEF Archive!Archived
<1>3. /\ \A i \in DOMAIN live : i \in Nat /\ live[i] \in Archive!Archived
      /\ \A i \in DOMAIN written : i \in Nat /\ written[i] \in Archive!Archived
  BY <1>1
<1> QED BY <1>1, <1>2, <1>3

(* What other processes read, or opened, when the live file changes.       *)
LEMMA OutdatedIs ==
  ASSUME Archive!TypeOK, NEW opened \in { "opened", "detached" }
  PROVE  /\ Archive!Outdated(opened) \in [BusProcesses -> Drafts]
         /\ \A p \in BusProcesses : ~Archive!Outdated(opened)[p].current
<1>1. ASSUME NEW p \in BusProcesses
      PROVE  /\ Archive!Outdated(opened)[p] \in Drafts
             /\ ~Archive!Outdated(opened)[p].current
  <2>1. draft[p] \in Drafts
    BY ArchiveTypes
  <2>2. draft[p].at \in { "none", "numbered", "opened", "detached" }
        /\ draft[p].seq \in Nat
    BY <2>1 DEF Drafts
  <2> QED BY <2>2 DEF Archive!Outdated, Drafts
<1>2. DOMAIN Archive!Outdated(opened) = BusProcesses
      /\ Archive!Outdated(opened)
           = [p \in BusProcesses |-> Archive!Outdated(opened)[p]]
  BY DEF Archive!Outdated
<1> QED BY <1>1, <1>2

(* A pass that begins or ends holds nothing. *)
LEMMA HoldsNothing ==
  ASSUME NEW T \in SUBSET Tickets, NEW q,
         q = Archive!NoPass
           \/ q = [ Archive!NoPass EXCEPT !.at = "read", !.todo = T ]
  PROVE  /\ q \in Passes /\ q.at \in { "idle", "read" }
         /\ DOMAIN q.kept = {} /\ DOMAIN q.union = {}
<1> DEFINE empty == << >>
<1>1. empty \in Seq(Archive!Archived) /\ DOMAIN empty = {}
  OBVIOUS
<1>2. Archive!NoPass = [ at |-> "idle", todo |-> {}, ticket |-> "",
                          kept |-> empty, union |-> empty ]
  BY DEF Archive!NoPass
<1> HIDE DEF empty
<1>3. /\ Archive!NoPass \in Passes /\ Archive!NoPass.at = "idle"
      /\ Archive!NoPass.kept = empty /\ Archive!NoPass.union = empty
  BY <1>1, <1>2 DEF Passes
<1>4. CASE q = [ Archive!NoPass EXCEPT !.at = "read", !.todo = T ]
  <2>1. /\ q \in Passes /\ q.at = "read"
        /\ q.kept = empty /\ q.union = empty
    BY <1>3, <1>4 DEF Passes
  <2> QED BY <1>1, <2>1
<1> QED BY <1>1, <1>3, <1>4
-----------------------------------------------------------------------------
(* A call of emit is numbered, and opens the file: only its draft changes. *)
LEMMA DraftStep ==
  ASSUME ArchiveInv, NEW p \in BusProcesses, Archive!Number(p) \/ Archive!Open(p)
  PROVE  ArchiveInv'
<1> USE DEF ArchiveInv
<1>1. UNCHANGED << live, archive, pass, rotations, written, outrun, stranded, overtaken,
                   contended, torn, overlapped, crashes >>
  BY DEF Archive!Number, Archive!Open, Archive!races
<1>2. draft \in [BusProcesses -> Drafts] /\ live \in Seq(Archive!Archived)
  BY ArchiveTypes
<1>3. PICK a \in { "none", "numbered", "opened", "detached" }, n \in Nat, b \in BOOLEAN :
        /\ draft' = [draft EXCEPT ![p] = [ at |-> a, seq |-> n, current |-> b ]]
        /\ a # "detached"
        /\ b => n = Archive!LastSeq(live) + 1
  <2>1. CASE Archive!Number(p)
    <3>1. Archive!LastSeq(live) + 1 \in Nat
      <4>1. CASE Len(live) = 0
        BY <4>1 DEF Archive!LastSeq
      <4>2. CASE Len(live) # 0
        <5>1. Len(live) \in DOMAIN live
          BY <1>2, <4>2
        <5>2. live[Len(live)].seq \in Nat
          BY <5>1, ArchiveTypes
        <5> QED BY <4>2, <5>2 DEF Archive!LastSeq
      <4> QED BY <4>1, <4>2
    <3> QED BY <2>1, <3>1 DEF Archive!Number
  <2>2. CASE Archive!Open(p)
    <3>1. PICK a \in { "none", "numbered", "opened", "detached" }, n \in Nat,
               b \in BOOLEAN : draft[p] = [ at |-> a, seq |-> n, current |-> b ]
      BY <1>2 DEF Drafts
    <3> DEFINE d == draft[p]
    <3>a. d = [ at |-> a, seq |-> n, current |-> b ]
      BY <3>1
    <3>b. draft' = [draft EXCEPT ![p] = [ d EXCEPT !.at = "opened" ]]
      BY <2>2, <1>2 DEF Archive!Open
    <3> HIDE DEF d
    <3>c. [ d EXCEPT !.at = "opened" ] = [ at |-> "opened", seq |-> n, current |-> b ]
      BY <3>a
    <3>2. draft' = [draft EXCEPT ![p] = [ at |-> "opened", seq |-> n, current |-> b ]]
      BY <3>b, <3>c
    <3>3. b => n = Archive!LastSeq(live) + 1
      BY <3>1 DEF Numbered
    <3> QED BY <3>2, <3>3
  <2> QED BY <2>1, <2>2
<1>4. /\ draft' \in [BusProcesses -> Drafts]
      /\ \A q \in BusProcesses :
           IF q = p THEN /\ draft'[q].at = a /\ draft'[q].seq = n
                         /\ draft'[q].current = b
                    ELSE draft'[q] = draft[q]
  <2>1. [ at |-> a, seq |-> n, current |-> b ] \in Drafts
    BY DEF Drafts
  <2> QED BY <1>2, <1>3, <2>1
<1>5. Archive!TypeOK'
  BY <1>1, <1>4 DEF Archive!TypeOK, Drafts
<1>6. Numbered'
  <2>1. InOrder(live)' /\ Grows(live)'
    BY <1>1 DEF Numbered, InOrder, Grows
  <2>2. ASSUME NEW q \in BusProcesses
        PROVE  /\ InOrder(pass'[q].kept) /\ Grows(pass[q].kept)'
               /\ draft'[q].current => draft'[q].seq = Archive!LastSeq(live') + 1
               /\ draft'[q].at = "detached" => ~draft'[q].current
    BY <1>1, <1>3, <1>4 DEF Numbered, InOrder, Grows
  <2> QED BY <2>1, <2>2 DEF Numbered, InOrder, Grows
<1>7. AllGenuine' /\ Sorted'
  BY <1>1 DEF AllGenuine, Genuine, Sorted, AllOf, NoneOf, Archive!Holding
<1>8. NoneLost'
  BY <1>1 DEF NoneLost, Spared, Excused, Held, Knows, Archive!Ids,
     Archive!Holding, Archive!Rewriting
<1>9. Chronological'
  BY <1>1 DEF Chronological, InOrder, Before, Part, Settled, Archive!Holding
<1> QED BY <1>5, <1>6, <1>7, <1>8, <1>9

(* A call writes the next event, at the end of the live file or to the     *)
(* file that was there before.                                             *)
LEMMA WriteEventStep ==
  ASSUME ArchivedRequests \subseteq Archive!Request, ArchiveInv,
         NEW p \in BusProcesses, NEW r \in ArchivedRequests, Archive!Write(p, r)
  PROVE  ArchiveInv'
<1> DEFINE n == Len(written) + 1
           m == Len(live) + 1
           e == Archive!Record(r, draft[p].seq, n)
           lost == draft[p].at = "detached"
<1> USE DEF ArchiveInv
<1>1. /\ live' = IF lost THEN live ELSE Append(live, e)
      /\ written' = Append(written, e)
      /\ draft' = [(IF lost THEN draft ELSE Archive!Outdated("opened"))
                     EXCEPT ![p] = Archive!NoDraft]
      /\ stranded' = IF lost THEN stranded \cup { n } ELSE stranded
      /\ outrun' = IF ~draft[p].current THEN outrun \cup { n } ELSE outrun
      /\ overtaken' = IF \E q \in BusProcesses : Archive!Holding(q)
                      THEN overtaken \cup { n } ELSE overtaken
      /\ UNCHANGED << archive, pass, rotations, contended, torn, overlapped, crashes >>
  BY DEF Archive!Write, Archive!With
<1>s. /\ live \in Seq(Archive!Archived) /\ written \in Seq(Archive!Archived)
      /\ draft \in [BusProcesses -> Drafts] /\ pass \in [BusProcesses -> Passes]
      /\ \A i \in DOMAIN live : i \in Nat /\ live[i].id \in Nat /\ live[i].seq \in Nat
      /\ outrun \subseteq Nat
  BY ArchiveTypes
<1>2. e \in Archive!Archived /\ e.id = n /\ e.seq = draft[p].seq
      /\ draft[p].seq \in Nat /\ n \in Nat /\ e.ticket \in Tickets
  <2>1. draft[p].seq \in Nat /\ n \in Nat
    <3>1. draft[p] \in Drafts BY <1>s
    <3> QED BY <1>s, <3>1 DEF Drafts
  <2>2. r \in Archive!Request OBVIOUS
  <2> QED BY <2>1, <2>2 DEF Archive!Record, Archive!Request, Archive!Archived
<1>3. /\ written' \in Seq(Archive!Archived)
      /\ DOMAIN written' = DOMAIN written \cup { n }
      /\ n \notin DOMAIN written /\ written'[n] = e
      /\ \A i \in DOMAIN written : written'[i] = written[i] /\ i < n
  <2>1. /\ Append(written, e) \in Seq(Archive!Archived)
             /\ DOMAIN written = 1..Len(written)
        /\ DOMAIN Append(written, e) = DOMAIN written \cup { n }
             /\ n \notin DOMAIN written
        /\ \A i \in DOMAIN written : Append(written, e)[i] = written[i]
        /\ Append(written, e)[n] = e /\ Len(written) \in Nat
    <3> HIDE DEF e
    <3> QED BY <1>s, <1>2, Appended
  <2>2. \A i \in 1..Len(written) : i < n
    BY <2>1
  <2> HIDE DEF e, n
  <2> QED BY <1>1, <2>1, <2>2
<1>4. ~lost => /\ live' \in Seq(Archive!Archived) /\ m \in Nat
               /\ DOMAIN live' = DOMAIN live \cup { m }
               /\ m \notin DOMAIN live /\ live'[m] = e
               /\ \A i \in DOMAIN live : live'[i] = live[i] /\ i < m
  <2> SUFFICES ASSUME ~lost
               PROVE  /\ live' \in Seq(Archive!Archived) /\ m \in Nat
                      /\ DOMAIN live' = DOMAIN live \cup { m }
                      /\ m \notin DOMAIN live /\ live'[m] = e
                      /\ \A i \in DOMAIN live : live'[i] = live[i] /\ i < m
    OBVIOUS
  <2>1. /\ Append(live, e) \in Seq(Archive!Archived)
             /\ DOMAIN live = 1..Len(live)
        /\ DOMAIN Append(live, e) = DOMAIN live \cup { m }
             /\ m \notin DOMAIN live
        /\ \A i \in DOMAIN live : Append(live, e)[i] = live[i]
        /\ Append(live, e)[m] = e /\ Len(live) \in Nat
    <3> HIDE DEF e
    <3> QED BY <1>s, <1>2, Appended
  <2>2. \A i \in 1..Len(live) : i < m
    BY <2>1
  <2>3. live' = Append(live, e)
    BY <1>1
  <2> HIDE DEF e, m
  <2> QED BY <2>1, <2>2, <2>3
<1>5. \A s : Genuine(s) => /\ Genuine(s)'
                           /\ \A i \in DOMAIN s : s[i].id < n
  BY <1>3 DEF Genuine
<1>6. lost => live' = live
  BY <1>1
<1>7. outrun \subseteq outrun' /\ (~draft[p].current => n \in outrun')
  BY <1>1
<1>8. overtaken \subseteq overtaken'
      /\ ((\E q \in BusProcesses : Archive!Holding(q)) => n \in overtaken')
  BY <1>1
<1>9. stranded \subseteq stranded' /\ (lost => n \in stranded')
  BY <1>1
<1>d. /\ draft' \in [BusProcesses -> Drafts]
      /\ \A q \in BusProcesses : ~lost => ~draft'[q].current
      /\ \A q \in BusProcesses : lost /\ q # p => draft'[q] = draft[q]
      /\ draft'[p] = Archive!NoDraft
  <2>1. /\ Archive!NoDraft \in Drafts /\ ~Archive!NoDraft.current
    BY DEF Archive!NoDraft, Drafts
  <2>2. /\ Archive!Outdated("opened") \in [BusProcesses -> Drafts]
        /\ \A q \in BusProcesses : ~Archive!Outdated("opened")[q].current
    BY OutdatedIs
  <2>3. CASE lost
    BY <1>1, <1>s, <2>1, <2>3
  <2>4. CASE ~lost
    BY <1>1, <2>1, <2>2, <2>4
  <2> QED BY <2>3, <2>4
<1>10. Archive!TypeOK'
  <2>1. live' \in Seq(Archive!Archived)
    BY <1>s, <1>4, <1>6
  <2>2. \A ids \in { outrun', stranded', overtaken', contended', torn' } :
          ids \subseteq DOMAIN written'
    <3>1. \A ids \in { outrun, stranded, overtaken, contended, torn } :
            ids \subseteq DOMAIN written
      BY DEF Archive!TypeOK
    <3> HIDE DEF n, e, lost
    <3>2. /\ outrun' \subseteq DOMAIN written' /\ stranded' \subseteq DOMAIN written'
          /\ overtaken' \subseteq DOMAIN written'
      BY <1>1, <1>3, <3>1
    <3>3. contended' \subseteq DOMAIN written' /\ torn' \subseteq DOMAIN written'
      BY <1>1, <1>3, <3>1
    <3> QED BY <3>2, <3>3
  <2> HIDE DEF n, e, m
  <2> QED BY <1>1, <1>3, <1>d, <2>1, <2>2 DEF Archive!TypeOK, Drafts
<1>11. AllGenuine'
  <2> HIDE DEF n, e, m
  <2>1. Genuine(live)'
    BY <1>2, <1>3, <1>4, <1>5, <1>6 DEF AllGenuine, Genuine
  <2>2. \A i \in DOMAIN written' : written'[i].id = i
    BY <1>2, <1>3 DEF AllGenuine
  <2>3. \A t \in Tickets : Genuine(archive[t])'
    BY <1>1, <1>3 DEF AllGenuine, Genuine
  <2>4. \A q \in BusProcesses : Genuine(pass[q].kept)' /\ Genuine(pass[q].union)'
    BY <1>1, <1>3 DEF AllGenuine, Genuine
  <2> QED BY <2>1, <2>2, <2>3, <2>4 DEF AllGenuine
<1>12. Sorted'
  BY <1>1 DEF Sorted, AllOf, NoneOf, Archive!Holding
<1>13. Numbered'
  <2>1. \A s : Grows(s) => Grows(s)'
    BY <1>7 DEF Grows
  <2>2. CASE lost
    <3>1. InOrder(live') /\ Grows(live)'
      BY <1>6, <2>1, <2>2 DEF Numbered, Grows
    <3>2. \A q \in BusProcesses : q # p =>
            /\ draft'[q].current => draft'[q].seq = Archive!LastSeq(live') + 1
            /\ draft'[q].at = "detached" => ~draft'[q].current
      BY <1>6, <1>d, <2>2 DEF Numbered
    <3>3. ~draft'[p].current
      BY <1>d DEF Archive!NoDraft
    <3>4. \A q \in BusProcesses : InOrder(pass'[q].kept) /\ Grows(pass[q].kept)'
      BY <1>1, <2>1 DEF Numbered, InOrder, Grows
    <3> QED BY <1>1, <3>1, <3>2, <3>3, <3>4 DEF Numbered, InOrder, Grows
  <2>3. CASE ~lost
    <3> HIDE DEF n, m, e, lost
    <3>1. \A i \in DOMAIN live : live[i].id < n
      BY <1>5 DEF AllGenuine
    <3>2. InOrder(live')
      <4> SUFFICES ASSUME NEW i \in DOMAIN live', NEW j \in DOMAIN live', i < j
                   PROVE  live'[i].id < live'[j].id
        BY DEF InOrder
      <4>1. i \in DOMAIN live /\ live'[i] = live[i]
        BY <1>4, <1>s, <2>3
      <4>2. CASE j \in DOMAIN live
        BY <1>4, <2>3, <4>1, <4>2 DEF Numbered, InOrder
      <4>3. CASE j = m
        BY <1>2, <1>4, <2>3, <3>1, <4>1, <4>3
      <4> QED BY <1>4, <2>3, <4>2, <4>3
    <3>3. ASSUME NEW i \in DOMAIN live
          PROVE  \/ live[i].seq < e.seq
                 \/ \E k \in outrun' : live[i].id < k /\ k <= n
      <4>1. CASE ~draft[p].current
        BY <1>2, <1>7, <3>1, <4>1
      <4>2. CASE draft[p].current
        <5>0. Len(live) \in DOMAIN live /\ DOMAIN live = 1..Len(live) /\ Len(live) \in Nat
          BY <1>s
        <5>1. e.seq = live[Len(live)].seq + 1
          <6>1. Len(live) # 0
            BY <5>0
          <6> QED BY <1>2, <4>2, <6>1 DEF Numbered, Archive!LastSeq
        <5>2. CASE i = Len(live)
          BY <1>s, <5>0, <5>1, <5>2
        <5>3. CASE i # Len(live)
          <6>1. i < Len(live)
            BY <5>0, <5>3
          <6>2. \/ live[i].seq < live[Len(live)].seq
                \/ \E k \in outrun : live[i].id < k /\ k <= live[Len(live)].id
            BY <5>0, <6>1 DEF Numbered, Grows
          <6>3. live[i].seq < live[Len(live)].seq => live[i].seq < e.seq
            BY <1>s, <5>0, <5>1
          <6>4. ASSUME NEW k \in outrun, live[i].id < k, k <= live[Len(live)].id
                PROVE  live[i].id < k /\ k <= n
            <7>1. live[Len(live)].id < n /\ k \in Nat /\ live[Len(live)].id \in Nat
              BY <1>s, <3>1, <5>0
            <7> QED BY <1>2, <6>4, <7>1
          <6> QED BY <1>7, <6>2, <6>3, <6>4
        <5> QED BY <5>2, <5>3
      <4> QED BY <4>1, <4>2
    <3>4. Grows(live)'
      <4> SUFFICES ASSUME NEW i \in DOMAIN live', NEW j \in DOMAIN live', i < j
                   PROVE  \/ live'[i].seq < live'[j].seq
                          \/ \E k \in outrun' : live'[i].id < k /\ k <= live'[j].id
        BY DEF Grows
      <4>1. i \in DOMAIN live /\ live'[i] = live[i]
        BY <1>4, <1>s, <2>3
      <4>2. CASE j \in DOMAIN live
        BY <1>4, <1>7, <2>3, <4>1, <4>2 DEF Numbered, Grows
      <4>3. CASE j = m
        BY <1>2, <1>4, <2>3, <3>3, <4>1, <4>3
      <4> QED BY <1>4, <2>3, <4>2, <4>3
    <3>5. \A q \in BusProcesses : InOrder(pass'[q].kept) /\ Grows(pass[q].kept)'
      BY <1>1, <2>1 DEF Numbered, InOrder, Grows
    <3> QED BY <1>d, <2>3, <3>2, <3>4, <3>5 DEF Numbered, InOrder, Grows
  <2> QED BY <2>2, <2>3
<1>14. NoneLost'
  <2>0. \A t : Held(t)' = Held(t)
    BY <1>1 DEF Held, Archive!Ids
  <2>1. \A q \in BusProcesses : \A t : Knows(q, t)' = Knows(q, t)
    BY <1>1, <2>0 DEF Knows, Archive!Ids
  <2>2. \A t : Spared(t)' \subseteq Spared(t) \cup { n }
    <3> HIDE DEF n, e
    <3> QED BY <1>1, <1>3, <1>8, <1>9 DEF Spared, Excused
  <2>3. n \in Excused' \/ n \in Archive!Ids(live')
    <3>1. CASE lost
      BY <1>9, <3>1 DEF Excused
    <3>2. CASE ~lost
      <4> HIDE DEF n, m, e
      <4> QED BY <1>2, <1>4, <3>2 DEF Archive!Ids
    <3> QED BY <3>1, <3>2
  <2>4. \A t : n \in Spared(t)' =>
          n \in Archive!Ids(live') /\ \A q \in BusProcesses : ~Archive!Holding(q)
    BY <1>8, <2>3 DEF Spared, Excused
  <2>5. Archive!Ids(live) \subseteq Archive!Ids(live')
    <3> HIDE DEF n, m, e
    <3> QED BY <1>4, <1>6 DEF Archive!Ids
  <2>6. \A q \in BusProcesses : \A t :
          (Archive!Holding(q)' <=> Archive!Holding(q))
            /\ (Archive!Rewriting(q, t)' <=> Archive!Rewriting(q, t))
    BY <1>1 DEF Archive!Holding, Archive!Rewriting
  <2>7. \A q \in BusProcesses : \A t : Archive!Rewriting(q, t) => Archive!Holding(q)
    BY DEF Archive!Holding, Archive!Rewriting
  <2> HIDE DEF n
  <2> SUFFICES ASSUME NEW t \in Tickets
               PROVE  /\ Spared(t)' \subseteq Archive!Ids(live') \cup Held(t)'
                      /\ \A q \in BusProcesses :
                           Archive!Holding(q)' => Spared(t)' \subseteq Knows(q, t)'
                      /\ \A q, w \in BusProcesses :
                           q # w /\ Archive!Rewriting(q, t)' /\ Archive!Rewriting(w, t)'
                             => Spared(t)' = {}
    BY DEF NoneLost
  <2>8. /\ Spared(t) \subseteq Archive!Ids(live) \cup Held(t)
        /\ \A q \in BusProcesses :
             Archive!Holding(q) => Spared(t) \subseteq Knows(q, t)
        /\ \A q, w \in BusProcesses :
             q # w /\ Archive!Rewriting(q, t) /\ Archive!Rewriting(w, t)
               => Spared(t) = {}
    BY DEF NoneLost
  <2> QED BY <2>0, <2>1, <2>2, <2>4, <2>5, <2>6, <2>7, <2>8
<1>15. Chronological'
  <2>1. \A s : Genuine(s) => \A i \in DOMAIN s : s[i].id < n
    BY <1>5
  <2> HIDE DEF n, m, e, lost
  <2>2. ASSUME NEW t \in Tickets, Before(archive[t], t)
        PROVE  Before(archive[t], t)'
    BY <1>1, <1>2, <1>4, <1>6, <2>1, <2>2 DEF Before, AllGenuine
  <2>3. \A s : Part(s, live) => Part(s, live)'
    BY <1>4, <1>6 DEF Part
  <2>4. ASSUME crashes' = 0, ~overlapped'
        PROVE  /\ \A q, w \in BusProcesses :
                    Archive!Holding(q)' /\ Archive!Holding(w)' => q = w
               /\ \A q \in BusProcesses : Archive!Holding(q)' =>
                    /\ InOrder(pass'[q].union)
                    /\ Part(pass'[q].kept, live')
                    /\ pass'[q].at = "merge" => Part(pass'[q].union, live')
                    /\ pass'[q].at = "write" => DOMAIN archive'[pass'[q].ticket] = {}
                    /\ pass'[q].at = "replace"
                         => archive'[pass'[q].ticket] = pass'[q].union
    <3>1. crashes = 0 /\ ~overlapped
      BY <1>1, <2>4
    <3>2. \A q \in BusProcesses : Archive!Holding(q)' => Archive!Holding(q)
      BY <1>1 DEF Archive!Holding
    <3>3. \A s : Part(s, live) => Part(s, live')
      BY <2>3 DEF Part
    <3> QED BY <1>1, <3>1, <3>2, <3>3 DEF Chronological
  <2>5. ASSUME crashes' = 0, ~overlapped', NEW t \in Tickets, Settled(t)'
        PROVE  InOrder(archive'[t]) /\ Before(archive[t], t)'
    <3>1. Settled(t)
      BY <1>1, <2>5 DEF Settled
    <3> QED BY <1>1, <2>2, <2>5, <3>1 DEF Chronological
  <2> QED BY <2>4, <2>5 DEF Chronological, InOrder, Part
<1> QED BY <1>10, <1>11, <1>12, <1>13, <1>14, <1>15
-----------------------------------------------------------------------------
(* What a rotation knows it knows while others go on. *)
LEMMA StillKnows ==
  ASSUME NEW q, NEW t, NEW U, pass'[q] = pass[q],
         U \cap Held(t) \subseteq Held(t)', U \subseteq Knows(q, t)
  PROVE  U \subseteq Knows(q, t)'
BY DEF Knows, Archive!Ids

(* Between two moves, and when a rotation is killed, its memory goes.      *)
LEMMA ForgetStep ==
  ASSUME MaxCrashes \in Nat, ArchiveInv, NEW p \in BusProcesses, NEW new \in Passes,
         pass' = [pass EXCEPT ![p] = new], new.at \in { "idle", "read" },
         DOMAIN new.kept = {}, DOMAIN new.union = {},
         rotations' \in 0..MaxRotations,
         UNCHANGED << live, archive, draft, written, outrun, stranded, overtaken,
                      contended, overlapped >>,
         \/ UNCHANGED << torn, crashes >> /\ pass[p].at \in { "idle", "read" }
         \/ /\ torn' = IF pass[p].at = "write"
                       THEN torn \cup (Archive!Ids(pass[p].union) \ Archive!Safe(p))
                       ELSE torn
            /\ crashes < MaxCrashes /\ crashes' = crashes + 1
  PROVE  ArchiveInv'
<1> USE DEF ArchiveInv
<1>s. pass \in [BusProcesses -> Passes]
  BY ArchiveTypes
<1>1. /\ pass' \in [BusProcesses -> Passes] /\ pass'[p] = new
      /\ \A q \in BusProcesses : q # p => pass'[q] = pass[q]
      /\ ~Archive!Holding(p)'
      /\ \A t : ~Archive!Rewriting(p, t)'
      /\ \A q \in BusProcesses : q # p =>
           /\ Archive!Holding(q)' <=> Archive!Holding(q)
           /\ \A t : Archive!Rewriting(q, t)' <=> Archive!Rewriting(q, t)
  BY <1>s DEF Archive!Holding, Archive!Rewriting
<1>2. Archive!TypeOK'
  <2>1. Archive!Ids(pass[p].union) \subseteq DOMAIN written
    BY DEF AllGenuine, Genuine, Archive!Ids
  <2>2. torn' \subseteq DOMAIN written'
    BY <2>1 DEF Archive!TypeOK
  <2>3. crashes' \in 0..MaxCrashes
    <3>1. crashes \in 0..MaxCrashes
      BY DEF Archive!TypeOK
    <3> QED BY <3>1
  <2>4. /\ outrun' \subseteq DOMAIN written' /\ stranded' \subseteq DOMAIN written'
        /\ overtaken' \subseteq DOMAIN written'
        /\ contended' \subseteq DOMAIN written'
    BY DEF Archive!TypeOK
  <2>5. \A ids \in { outrun', stranded', overtaken', contended', torn' } :
          ids \subseteq DOMAIN written'
    BY <2>2, <2>4
  <2> QED BY <1>1, <2>3, <2>5 DEF Archive!TypeOK, Passes
<1>3. AllGenuine' BY <1>1 DEF AllGenuine, Genuine
<1>4. Sorted' BY <1>1 DEF Sorted, AllOf, NoneOf
<1>5. Numbered' BY <1>1 DEF Numbered, InOrder, Grows
<1>6. NoneLost'
  <2> SUFFICES ASSUME NEW t \in Tickets
               PROVE  /\ Spared(t)' \subseteq Archive!Ids(live) \cup Held(t)'
                      /\ \A q \in BusProcesses :
                           Archive!Holding(q)' => Spared(t)' \subseteq Knows(q, t)'
                      /\ \A q, w \in BusProcesses :
                           q # w /\ Archive!Rewriting(q, t)' /\ Archive!Rewriting(w, t)'
                             => Spared(t)' = {}
    BY DEF NoneLost, Archive!Ids
  <2> DEFINE X == IF pass[p].at = "write" THEN Archive!Ids(pass[p].union) ELSE {}
  <2>1. Spared(t)' \subseteq Spared(t)
    BY DEF Spared, Excused
  <2>2. Held(t) \subseteq Held(t)' \cup X
    BY <1>1 DEF Held, Archive!Ids
  <2>3. Spared(t)' \cap X \subseteq Archive!Safe(p)
    BY DEF Spared, Excused
  <2>4. Archive!Safe(p) \subseteq Archive!Ids(live)
    BY DEF Archive!Safe
  <2>5. /\ Spared(t) \subseteq Archive!Ids(live) \cup Held(t)
        /\ \A q \in BusProcesses :
             Archive!Holding(q) => Spared(t) \subseteq Knows(q, t)
        /\ \A q, w \in BusProcesses :
             q # w /\ Archive!Rewriting(q, t) /\ Archive!Rewriting(w, t)
               => Spared(t) = {}
    BY DEF NoneLost
  <2> HIDE DEF X
  <2>6. ASSUME NEW q \in BusProcesses, Archive!Holding(q)'
        PROVE  Spared(t)' \subseteq Knows(q, t)'
    <3>1. q # p /\ Archive!Holding(q) /\ pass'[q] = pass[q]
      BY <1>1, <2>6
    <3>2. Archive!Safe(p) = {}
      BY <3>1 DEF Archive!Safe
    <3>3. Spared(t)' \cap Held(t) \subseteq Held(t)'
      BY <2>2, <2>3, <3>2
    <3>4. Spared(t)' \subseteq Knows(q, t)
      BY <2>1, <2>5, <3>1
    <3> QED BY <3>1, <3>3, <3>4, StillKnows
  <2> QED BY <1>1, <2>1, <2>2, <2>3, <2>4, <2>5, <2>6
<1>7. Chronological'
  <2> SUFFICES ASSUME crashes' = 0, ~overlapped'
               PROVE  Chronological'
    BY DEF Chronological
  <2>1. crashes = 0 /\ ~overlapped /\ pass[p].at \in { "idle", "read" }
    <3>1. crashes \in 0..MaxCrashes
      BY DEF Archive!TypeOK
    <3>2. crashes + 1 # 0
      BY <3>1
    <3> QED BY <3>2
  <2>2. \A t : Settled(t)' => Settled(t)
    BY <1>1, <2>1 DEF Settled
  <2>3. \A q, w \in BusProcesses :
          Archive!Holding(q)' /\ Archive!Holding(w)' => q = w
    BY <1>1, <2>1 DEF Chronological
  <2>4. \A t \in Tickets : Settled(t)' => InOrder(archive'[t]) /\ Before(archive[t], t)'
    BY <2>1, <2>2 DEF Chronological, Before
  <2>5. ASSUME NEW q \in BusProcesses, Archive!Holding(q)'
        PROVE  /\ InOrder(pass'[q].union)
               /\ Part(pass'[q].kept, live')
               /\ pass'[q].at = "merge" => Part(pass'[q].union, live')
               /\ pass'[q].at = "write" => DOMAIN archive'[pass'[q].ticket] = {}
               /\ pass'[q].at = "replace"
                    => archive'[pass'[q].ticket] = pass'[q].union
    <3>1. Archive!Holding(q) /\ pass'[q] = pass[q] /\ live' = live /\ archive' = archive
      BY <1>1, <2>5
    <3> QED BY <2>1, <3>1 DEF Chronological
  <2> QED BY <2>3, <2>4, <2>5 DEF Chronological, InOrder, Part
<1> QED BY <1>2, <1>3, <1>4, <1>5, <1>6, <1>7

(* A rotation begins, ends or is killed. *)
LEMMA BeginEndStep ==
  ASSUME MaxCrashes \in Nat, MaxRotations \in Nat, ArchiveInv, NEW p \in BusProcesses,
         Archive!Select(p) \/ Archive!Finish(p) \/ Archive!Crash(p)
  PROVE  ArchiveInv'
<1>0. Archive!TypeOK /\ rotations \in 0..MaxRotations
  BY DEF ArchiveInv, Archive!TypeOK
<1>1. CASE Archive!Select(p)
  <2>1. PICK chosen \in SUBSET Tickets :
          pass' = [pass EXCEPT ![p] = [Archive!NoPass EXCEPT !.at = "read",
                                                             !.todo = chosen]]
    <3>1. Archive!ClosedTickets(live) \in SUBSET Tickets
      BY DEF Archive!ClosedTickets
    <3>2. \A t \in Tickets : {t} \in SUBSET Tickets
      OBVIOUS
    <3> QED BY <1>1, <3>1, <3>2 DEF Archive!Select
  <2> DEFINE new == [Archive!NoPass EXCEPT !.at = "read", !.todo = chosen]
  <2>2. /\ new \in Passes /\ new.at \in { "idle", "read" }
        /\ DOMAIN new.kept = {} /\ DOMAIN new.union = {}
    BY <2>1, HoldsNothing
  <2>3. rotations' \in 0..MaxRotations
    <3>1. rotations < MaxRotations /\ rotations' = rotations + 1
      BY <1>1 DEF Archive!Select
    <3> QED BY <1>0, <3>1
  <2>4. /\ UNCHANGED << live, archive, draft, written, outrun, stranded, overtaken,
                        contended, overlapped >>
        /\ UNCHANGED << torn, crashes >> /\ pass[p].at \in { "idle", "read" }
    BY <1>1 DEF Archive!Select, Archive!races
  <2> HIDE DEF new
  <2> QED BY <2>1, <2>2, <2>3, <2>4, ForgetStep DEF new
<1>2. CASE Archive!Finish(p) \/ Archive!Crash(p)
  <2>1. /\ pass' = [pass EXCEPT ![p] = Archive!NoPass] /\ rotations' = rotations
        /\ UNCHANGED << live, archive, draft, written, outrun, stranded, overtaken,
                        contended, overlapped >>
    BY <1>2 DEF Archive!Finish, Archive!Crash, Archive!races
  <2>2. /\ Archive!NoPass \in Passes /\ Archive!NoPass.at \in { "idle", "read" }
        /\ DOMAIN Archive!NoPass.kept = {} /\ DOMAIN Archive!NoPass.union = {}
    BY HoldsNothing
  <2>3. \/ UNCHANGED << torn, crashes >> /\ pass[p].at \in { "idle", "read" }
        \/ /\ torn' = IF pass[p].at = "write"
                      THEN torn \cup (Archive!Ids(pass[p].union) \ Archive!Safe(p))
                      ELSE torn
           /\ crashes < MaxCrashes /\ crashes' = crashes + 1
    BY <1>2 DEF Archive!Finish, Archive!Crash, Archive!races
  <2> QED BY <1>0, <2>1, <2>2, <2>3, ForgetStep
<1> QED BY <1>1, <1>2
-----------------------------------------------------------------------------
(* A record of a rotation that is changed field by field. *)
LEMMA PassIs ==
  ASSUME NEW q \in Passes
  PROVE  /\ q = [ at |-> q.at, todo |-> q.todo, ticket |-> q.ticket,
                  kept |-> q.kept, union |-> q.union ]
         /\ q.at \in { "idle", "read", "merge", "truncate", "write", "replace" }
         /\ q.todo \in SUBSET Tickets /\ q.ticket \in Tickets \cup { "" }
         /\ q.kept \in Seq(Archive!Archived) /\ q.union \in Seq(Archive!Archived)
BY DEF Passes

(* What one rotation does to its own record. *)
LEMMA OwnPassStep ==
  ASSUME Archive!TypeOK, NEW p \in BusProcesses, NEW new \in Passes,
         pass' = [pass EXCEPT ![p] = new]
  PROVE  /\ pass' \in [BusProcesses -> Passes] /\ pass'[p] = new
         /\ \A q \in BusProcesses : q # p =>
              /\ pass'[q] = pass[q]
              /\ Archive!Holding(q)' <=> Archive!Holding(q)
              /\ \A t : Archive!Rewriting(q, t)' <=> Archive!Rewriting(q, t)
BY ArchiveTypes DEF Archive!Holding, Archive!Rewriting

(* A rotation reads the live file and splits it. *)
LEMMA ReadLiveStep ==
  ASSUME MaxCrashes \in Nat, ArchiveInv, NEW p \in BusProcesses, NEW t \in Tickets,
         Archive!ReadLive(p, t)
  PROVE  ArchiveInv'
<1> USE DEF ArchiveInv
<1> DEFINE old == Archive!OfTicket(live, t)
           rest == Archive!NotOfTicket(live, t)
<1>1. /\ pass[p].at = "read" /\ ~Archive!Holding(p)
      /\ UNCHANGED << live, archive, draft, rotations, written, outrun, stranded,
                      overtaken, contended, torn, crashes >>
      /\ pass[p] \in Passes /\ live \in Seq(Archive!Archived)
  BY ArchiveTypes DEF Archive!ReadLive, Archive!Holding
<1>2. CASE old = << >>
  <2> DEFINE new == [pass[p] EXCEPT !.todo = pass[p].todo \ {t}]
  <2>1. pass' = [pass EXCEPT ![p] = new] /\ overlapped' = overlapped
    BY <1>2 DEF Archive!ReadLive
  <2>2. /\ new \in Passes /\ new.at = "read"
        /\ new.kept = pass[p].kept /\ new.union = pass[p].union
    BY <1>1 DEF Passes
  <2>3. DOMAIN new.kept = {} /\ DOMAIN new.union = {}
    BY <1>1, <2>2 DEF Sorted
  <2>4. rotations' \in 0..MaxRotations
    BY <1>1 DEF Archive!TypeOK
  <2> HIDE DEF new, ArchiveInv
  <2> QED BY <1>1, <2>1, <2>2, <2>3, <2>4, ForgetStep
<1>3. CASE old # << >>
  <2> DEFINE new == [ at |-> "merge", todo |-> pass[p].todo \ {t}, ticket |-> t,
                      kept |-> rest, union |-> old ]
  <2>1. /\ pass' = [pass EXCEPT ![p] = new]
        /\ overlapped' = (overlapped \/ \E q \in BusProcesses : Archive!Holding(q))
    BY <1>3 DEF Archive!ReadLive
  <2>2. /\ old \in Seq(Archive!Archived) /\ rest \in Seq(Archive!Archived)
        /\ \A k \in DOMAIN old : old[k].ticket = t /\ \E i \in DOMAIN live :
             old[k] = live[i]
        /\ \A k \in DOMAIN rest : rest[k].ticket # t /\ \E i \in DOMAIN live :
             rest[k] = live[i]
        /\ \A i \in DOMAIN live :
             IF live[i].ticket = t THEN \E k \in DOMAIN old : old[k] = live[i]
                                   ELSE \E k \in DOMAIN rest : rest[k] = live[i]
        /\ InOrder(old) /\ InOrder(rest) /\ Grows(rest)
    <3>1. InOrder(live) /\ Grows(live) BY DEF Numbered
    <3> QED BY <1>1, <3>1, OfTicketIs, NotOfTicketIs
  <2> HIDE DEF old, rest
  <2>3. new \in Passes
    BY <1>1, <2>2 DEF Passes
  <2>4. /\ pass' \in [BusProcesses -> Passes]
        /\ pass'[p].at = "merge" /\ pass'[p].ticket = t
        /\ pass'[p].kept = rest /\ pass'[p].union = old
        /\ Archive!Holding(p)' /\ (\A u : ~Archive!Rewriting(p, u)')
        /\ \A q \in BusProcesses : q # p =>
             /\ pass'[q] = pass[q]
             /\ Archive!Holding(q)' <=> Archive!Holding(q)
             /\ \A u : Archive!Rewriting(q, u)' <=> Archive!Rewriting(q, u)
    BY <2>1, <2>3, OwnPassStep DEF Archive!Holding, Archive!Rewriting
  <2>5. Archive!TypeOK'
    <3>1. overlapped' \in BOOLEAN
      <4>1. overlapped \in BOOLEAN BY DEF Archive!TypeOK
      <4>2. (\E q \in BusProcesses : Archive!Holding(q)) \in BOOLEAN OBVIOUS
      <4> QED BY <2>1, <4>1, <4>2
    <3>2. \A ids \in { outrun', stranded', overtaken', contended', torn' } :
            ids \subseteq DOMAIN written'
      BY <1>1 DEF Archive!TypeOK
    <3> QED BY <1>1, <2>4, <3>1, <3>2 DEF Archive!TypeOK, Passes
  <2>6. AllGenuine'
    <3>1. Genuine(old) /\ Genuine(rest)
      BY <2>2 DEF AllGenuine, Genuine
    <3>2. \A q \in BusProcesses : Genuine(pass'[q].kept) /\ Genuine(pass'[q].union)
      BY <2>4, <3>1 DEF AllGenuine
    <3> QED BY <1>1, <3>2 DEF AllGenuine, Genuine
  <2>7. Sorted'
    BY <1>1, <2>2, <2>4 DEF Sorted, AllOf, NoneOf
  <2>8. Numbered'
    <3>1. \A q \in BusProcesses : InOrder(pass'[q].kept) /\ Grows(pass'[q].kept)
      BY <2>2, <2>4 DEF Numbered
    <3> QED BY <1>1, <3>1 DEF Numbered, InOrder, Grows
  <2>9. \A u : Held(u)' = Held(u) /\ Spared(u)' = Spared(u)
    BY <1>1, <2>4 DEF Held, Spared, Excused, Archive!Ids
  <2>10. NoneLost'
    <3> SUFFICES ASSUME NEW u \in Tickets
                 PROVE  /\ Spared(u) \subseteq Archive!Ids(live) \cup Held(u)
                        /\ \A q \in BusProcesses :
                             Archive!Holding(q)' => Spared(u) \subseteq Knows(q, u)'
                        /\ \A q, w \in BusProcesses :
                             q # w /\ Archive!Rewriting(q, u)' /\ Archive!Rewriting(w, u)'
                               => Spared(u) = {}
      BY <1>1, <2>9 DEF NoneLost, Archive!Ids
    <3>1. /\ Spared(u) \subseteq Archive!Ids(live) \cup Held(u)
          /\ \A q \in BusProcesses :
               Archive!Holding(q) => Spared(u) \subseteq Knows(q, u)
          /\ \A q, w \in BusProcesses :
               q # w /\ Archive!Rewriting(q, u) /\ Archive!Rewriting(w, u)
                 => Spared(u) = {}
      BY DEF NoneLost
    <3>2. Spared(u) \cap Archive!Ids(live)
            \subseteq IF u = t THEN Archive!Ids(old) ELSE Archive!Ids(rest)
      <4> SUFFICES ASSUME NEW i \in Spared(u), i \in Archive!Ids(live)
                   PROVE  i \in IF u = t THEN Archive!Ids(old) ELSE Archive!Ids(rest)
        OBVIOUS
      <4>1. PICK j \in DOMAIN live : live[j].id = i
        BY DEF Archive!Ids
      <4>2. live[j].ticket = u
        BY <4>1 DEF Spared, AllGenuine, Genuine
      <4> QED BY <2>2, <4>1, <4>2 DEF Archive!Ids
    <3>3. Spared(u) \subseteq Knows(p, u)'
      BY <2>4, <2>9, <3>1, <3>2 DEF Knows, Archive!Ids
    <3>4. ASSUME NEW q \in BusProcesses, q # p, Archive!Holding(q)'
          PROVE  Spared(u) \subseteq Knows(q, u)'
      <4>1. pass'[q] = pass[q] /\ Spared(u) \subseteq Knows(q, u)
        BY <2>4, <3>1, <3>4
      <4>2. Spared(u) \cap Held(u) \subseteq Held(u)'
        BY <2>9
      <4> QED BY <4>1, <4>2, StillKnows
    <3> QED BY <2>4, <3>1, <3>3, <3>4
  <2>11. Chronological'
    <3> SUFFICES ASSUME crashes' = 0, ~overlapped'
                 PROVE  Chronological'
      BY DEF Chronological
    <3>1. crashes = 0 /\ ~overlapped /\ \A q \in BusProcesses : ~Archive!Holding(q)
      BY <1>1, <2>1
    <3>2. \A q, w \in BusProcesses :
            Archive!Holding(q)' /\ Archive!Holding(w)' => q = w
      BY <2>4, <3>1
    <3>3. \A u \in Tickets : InOrder(archive[u]) /\ Before(archive[u], u)
      BY <3>1 DEF Chronological, Settled, Archive!Holding
    <3>4. \A q \in BusProcesses : Archive!Holding(q)' => q = p
      BY <2>4, <3>1
    <3>5. InOrder(old) /\ Part(rest, live) /\ Part(old, live)
      BY <2>2 DEF Part
    <3> QED BY <1>1, <2>4, <3>2, <3>3, <3>4, <3>5
            DEF Chronological, InOrder, Part, Before
  <2> QED BY <2>5, <2>6, <2>7, <2>8, <2>10, <2>11
<1> QED BY <1>2, <1>3

(* Two sequences in order, joined. *)
LEMMA JoinedInOrder ==
  ASSUME NEW a \in Seq(Archive!Archived), NEW b \in Seq(Archive!Archived),
         InOrder(a), InOrder(b),
         \A i \in DOMAIN a, j \in DOMAIN b : a[i].id < b[j].id
  PROVE  InOrder(a \o b)
<1> DEFINE c == a \o b
<1>1. /\ c \in Seq(Archive!Archived)
      /\ \A k \in DOMAIN c :
           \/ k \in DOMAIN a /\ c[k] = a[k]
           \/ k - Len(a) \in DOMAIN b /\ c[k] = b[k - Len(a)] /\ k > Len(a)
  BY JoinedIs
<1> HIDE DEF c
<1>2. /\ DOMAIN c = 1..Len(c) /\ DOMAIN a = 1..Len(a) /\ DOMAIN b = 1..Len(b)
      /\ Len(a) \in Int
  BY <1>1
<1>3. InOrder(c)
  <2> SUFFICES ASSUME NEW k \in DOMAIN c, NEW l \in DOMAIN c, k < l
               PROVE  c[k].id < c[l].id
    BY DEF InOrder
  <2>0. k \in Int /\ l \in Int
    BY <1>2
  <2>1. CASE l \in DOMAIN a
    BY <1>1, <1>2, <2>0, <2>1 DEF InOrder
  <2>2. CASE l - Len(a) \in DOMAIN b /\ l > Len(a)
    <3>1. c[l] = b[l - Len(a)]
      BY <1>1, <1>2, <2>0, <2>2
    <3>2. CASE k \in DOMAIN a
      BY <1>1, <1>2, <2>0, <2>2, <3>1, <3>2
    <3>3. CASE k - Len(a) \in DOMAIN b /\ k > Len(a)
      <4>1. c[k] = b[k - Len(a)] /\ k - Len(a) < l - Len(a)
        BY <1>1, <1>2, <2>0, <3>3
      <4> QED BY <2>2, <3>1, <3>3, <4>1 DEF InOrder
    <3> QED BY <1>1, <3>2, <3>3
  <2> QED BY <1>1, <2>1, <2>2
<1> QED BY <1>3 DEF c

(* A rotation reads the archive, and joins what is to be moved to it.      *)
LEMMA MergeStep ==
  ASSUME ArchiveInv, NEW p \in BusProcesses, Archive!MergeArchive(p)
  PROVE  ArchiveInv'
<1> USE DEF ArchiveInv
<1>t. PICK t \in Tickets : pass[p].ticket = t
  BY DEF Archive!MergeArchive, Sorted, Archive!Holding
<1> DEFINE a == archive[t]
           b == pass[p].union
           c == a \o b
           new == [pass[p] EXCEPT !.at = "truncate", !.union = c]
           clash == \E q \in BusProcesses : Archive!Rewriting(q, t)
<1>1. /\ pass[p].at = "merge" /\ Archive!Holding(p) /\ pass[p] \in Passes
      /\ pass' = [pass EXCEPT ![p] = new]
      /\ contended' = IF clash
                      THEN contended \cup { i \in DOMAIN written : written[i].ticket = t }
                      ELSE contended
      /\ UNCHANGED << live, archive, draft, rotations, written, outrun, stranded,
                      overtaken, torn, overlapped, crashes >>
  BY <1>t, ArchiveTypes DEF Archive!MergeArchive, Archive!Joined, Archive!Holding
<1>2. /\ t \in Tickets /\ a \in Seq(Archive!Archived) /\ b \in Seq(Archive!Archived)
      /\ AllOf(a, t) /\ AllOf(b, t) /\ Genuine(a) /\ Genuine(b) /\ Genuine(live)
  <2>1. archive \in [Tickets -> Seq(Archive!Archived)] BY ArchiveTypes
  <2> QED BY <1>1, <1>t, <2>1 DEF Sorted, AllGenuine, Passes
<1>3. /\ c \in Seq(Archive!Archived)
      /\ Archive!Ids(c) = Archive!Ids(a) \cup Archive!Ids(b)
      /\ \A k \in DOMAIN c : \/ \E i \in DOMAIN a : c[k] = a[i]
                             \/ \E i \in DOMAIN b : c[k] = b[i]
  <2> HIDE DEF a, b
  <2> QED BY <1>2, JoinedIs
<1>4. AllOf(c, t) /\ Genuine(c)
  <2> HIDE DEF a, b, c
  <2> QED BY <1>2, <1>3 DEF AllOf, Genuine
<1>5. crashes = 0 /\ ~overlapped => InOrder(c)
  <2> SUFFICES ASSUME crashes = 0, ~overlapped PROVE InOrder(c)
    OBVIOUS
  <2>1. Settled(t)
    <3>1. \A q \in BusProcesses : Archive!Holding(q) => q = p
      BY <1>1 DEF Chronological
    <3> QED BY <1>1, <3>1 DEF Settled, Archive!Holding
  <2>2. InOrder(a) /\ Before(a, t) /\ InOrder(b) /\ Part(b, live)
    BY <1>1, <1>2, <2>1 DEF Chronological
  <2> HIDE DEF a, b, c
  <2>3. \A i \in DOMAIN a, j \in DOMAIN b : a[i].id < b[j].id
    BY <1>2, <2>2 DEF Before, Part, AllOf
  <2> QED BY <1>2, <2>2, <2>3, JoinedInOrder DEF c
<1> HIDE DEF c
<1>6. /\ new \in Passes /\ new.at = "truncate" /\ new.ticket = t
      /\ new.kept = pass[p].kept /\ new.union = c
  BY <1>1, <1>3, <1>t DEF Passes
<1> HIDE DEF new
<1>7. /\ pass' \in [BusProcesses -> Passes]
      /\ pass'[p].at = "truncate" /\ pass'[p].ticket = t
      /\ pass'[p].kept = pass[p].kept /\ pass'[p].union = c
      /\ Archive!Holding(p)' /\ (\A u : Archive!Rewriting(p, u)' <=> u = t)
      /\ \A q \in BusProcesses : q # p =>
           /\ pass'[q] = pass[q]
           /\ Archive!Holding(q)' <=> Archive!Holding(q)
           /\ \A u : Archive!Rewriting(q, u)' <=> Archive!Rewriting(q, u)
  BY <1>1, <1>6, OwnPassStep DEF Archive!Holding, Archive!Rewriting
<1>8. Archive!TypeOK'
  <2>1. \A ids \in { outrun, stranded, overtaken, contended, torn } :
          ids \subseteq DOMAIN written
    BY DEF Archive!TypeOK
  <2> HIDE DEF clash
  <2>2. contended' \subseteq DOMAIN written'
    BY <1>1, <2>1
  <2>3. \A ids \in { outrun', stranded', overtaken', contended', torn' } :
          ids \subseteq DOMAIN written'
    BY <1>1, <2>1, <2>2
  <2> QED BY <1>1, <1>7, <2>3 DEF Archive!TypeOK, Passes
<1>9. AllGenuine'
  <2>1. \A q \in BusProcesses : Genuine(pass'[q].kept) /\ Genuine(pass'[q].union)
    BY <1>4, <1>7 DEF AllGenuine
  <2> QED BY <1>1, <2>1 DEF AllGenuine, Genuine
<1>10. Sorted'
  <2>1. \A u \in Tickets : AllOf(archive'[u], u)
    BY <1>1 DEF Sorted
  <2>2. NoneOf(pass[p].kept, t)
    BY <1>1, <1>t DEF Sorted
  <2>3. ASSUME NEW q \in BusProcesses
        PROVE  IF Archive!Holding(q)'
               THEN /\ pass'[q].ticket \in Tickets
                    /\ AllOf(pass'[q].union, pass'[q].ticket)
                    /\ NoneOf(pass'[q].kept, pass'[q].ticket)
               ELSE DOMAIN pass'[q].union = {} /\ DOMAIN pass'[q].kept = {}
    <3>1. CASE q = p
      BY <1>4, <1>7, <2>2, <3>1
    <3>2. CASE q # p
      BY <1>7, <3>2 DEF Sorted
    <3> QED BY <3>1, <3>2
  <2> QED BY <2>1, <2>3 DEF Sorted, AllOf, NoneOf
<1>11. Numbered'
  <2>1. \A q \in BusProcesses : InOrder(pass'[q].kept) /\ Grows(pass'[q].kept)
    BY <1>7 DEF Numbered
  <2> QED BY <1>1, <2>1 DEF Numbered, InOrder, Grows
<1>12. NoneLost'
  <2>1. \A u : Held(u)' = Held(u)
    BY <1>1, <1>7 DEF Held, Archive!Ids
  <2>2. \A u : Spared(u)' \subseteq Spared(u)
    BY <1>1 DEF Spared, Excused
  <2>3. clash => Spared(t)' = {}
    <3>1. clash => contended' = contended \cup { i \in DOMAIN written : written[i].ticket = t }
      BY <1>1
    <3> HIDE DEF clash
    <3> QED BY <1>1, <3>1 DEF Spared, Excused
  <2>4. ~clash => Held(t) = Archive!Ids(a)
    BY DEF Held, Archive!Rewriting
  <2> HIDE DEF clash
  <2> SUFFICES ASSUME NEW u \in Tickets
               PROVE  /\ Spared(u)' \subseteq Archive!Ids(live) \cup Held(u)
                      /\ \A q \in BusProcesses :
                           Archive!Holding(q)' => Spared(u)' \subseteq Knows(q, u)'
                      /\ \A q, w \in BusProcesses :
                           q # w /\ Archive!Rewriting(q, u)' /\ Archive!Rewriting(w, u)'
                             => Spared(u)' = {}
    BY <1>1, <2>1 DEF NoneLost, Archive!Ids
  <2>5. /\ Spared(u) \subseteq Archive!Ids(live) \cup Held(u)
        /\ \A q \in BusProcesses :
             Archive!Holding(q) => Spared(u) \subseteq Knows(q, u)
        /\ \A q, w \in BusProcesses :
             q # w /\ Archive!Rewriting(q, u) /\ Archive!Rewriting(w, u)
               => Spared(u) = {}
    BY DEF NoneLost
  <2>6. Spared(u)' \subseteq Knows(p, u)'
    <3>1. Spared(u)' \subseteq Knows(p, u)
      BY <1>1, <2>2, <2>5
    <3>2. CASE u = t
      <4>1. Knows(p, u) = Archive!Ids(b) \cup Held(t)
        BY <1>1, <1>t, <3>2 DEF Knows
      <4>2. Knows(p, u)' = Archive!Ids(c)
        BY <1>7, <3>2 DEF Knows, Archive!Ids
      <4> QED BY <1>3, <2>3, <2>4, <3>1, <3>2, <4>1, <4>2
    <3>3. CASE u # t
      <4>1. Knows(p, u) = Archive!Ids(pass[p].kept) \cup Held(u)
        BY <1>t, <3>3 DEF Knows
      <4>2. Knows(p, u)' = Archive!Ids(pass[p].kept) \cup Held(u)
        BY <1>7, <2>1, <3>3 DEF Knows, Archive!Ids
      <4> QED BY <3>1, <4>1, <4>2
    <3> QED BY <3>2, <3>3
  <2>7. ASSUME NEW q \in BusProcesses, q # p, Archive!Holding(q)'
        PROVE  Spared(u)' \subseteq Knows(q, u)'
    <3>1. pass'[q] = pass[q] /\ Spared(u)' \subseteq Knows(q, u)
      BY <1>7, <2>2, <2>5, <2>7
    <3>2. Spared(u)' \cap Held(u) \subseteq Held(u)'
      BY <2>1
    <3> QED BY <3>1, <3>2, StillKnows
  <2>8. \A q \in BusProcesses : Archive!Rewriting(q, t) => clash
    BY DEF clash
  <2>9. ASSUME NEW q \in BusProcesses, NEW w \in BusProcesses, q # w,
               Archive!Rewriting(q, u)', Archive!Rewriting(w, u)'
        PROVE  Spared(u)' = {}
    <3>1. CASE q # p /\ w # p
      BY <1>7, <2>2, <2>5, <2>9, <3>1
    <3>2. CASE q = p \/ w = p
      BY <1>7, <2>3, <2>8, <2>9, <3>2
    <3> QED BY <3>1, <3>2
  <2> QED BY <2>2, <2>5, <2>6, <2>7, <2>9
<1>13. Chronological'
  <2> SUFFICES ASSUME crashes' = 0, ~overlapped'
               PROVE  Chronological'
    BY DEF Chronological
  <2>1. crashes = 0 /\ ~overlapped
    BY <1>1
  <2>2. \A u : Settled(u)' => Settled(u)
    BY <1>1, <1>7 DEF Settled
  <2>3. \A q, w \in BusProcesses :
          Archive!Holding(q)' /\ Archive!Holding(w)' => q = w
    BY <1>1, <1>7, <2>1 DEF Chronological
  <2>4. \A u \in Tickets : Settled(u)' => InOrder(archive'[u]) /\ Before(archive[u], u)'
    BY <1>1, <2>1, <2>2 DEF Chronological, Before
  <2>5. ASSUME NEW q \in BusProcesses, Archive!Holding(q)'
        PROVE  /\ InOrder(pass'[q].union)
               /\ Part(pass'[q].kept, live')
               /\ pass'[q].at = "merge" => Part(pass'[q].union, live')
               /\ pass'[q].at = "write" => DOMAIN archive'[pass'[q].ticket] = {}
               /\ pass'[q].at = "replace"
                    => archive'[pass'[q].ticket] = pass'[q].union
    <3>1. CASE q = p
      BY <1>1, <1>5, <1>7, <2>1, <3>1 DEF Chronological
    <3>2. CASE q # p
      <4>1. Archive!Holding(q) /\ pass'[q] = pass[q] /\ live' = live /\ archive' = archive
        BY <1>1, <1>7, <2>5, <3>2
      <4> QED BY <2>1, <4>1 DEF Chronological
    <3> QED BY <3>1, <3>2
  <2> QED BY <2>3, <2>4, <2>5 DEF Chronological, InOrder, Part
<1> QED BY <1>8, <1>9, <1>10, <1>11, <1>12, <1>13

(* The archive file is opened for writing; what it held is in memory.      *)
LEMMA TruncateStep ==
  ASSUME ArchiveInv, NEW p \in BusProcesses, Archive!TruncateArchive(p)
  PROVE  ArchiveInv'
<1> USE DEF ArchiveInv
<1>t. PICK t \in Tickets : pass[p].ticket = t
  BY DEF Archive!TruncateArchive, Sorted, Archive!Holding
<1> DEFINE new == [pass[p] EXCEPT !.at = "write"]
<1>1. /\ pass[p].at = "truncate" /\ Archive!Holding(p) /\ pass[p] \in Passes
      /\ pass' = [pass EXCEPT ![p] = new]
      /\ archive' = [archive EXCEPT ![t] = << >>]
      /\ UNCHANGED << live, draft, rotations, written, outrun, stranded,
                      overtaken, contended, torn, overlapped, crashes >>
  BY <1>t, ArchiveTypes DEF Archive!TruncateArchive, Archive!races, Archive!Holding
<1>2. /\ new \in Passes /\ new.at = "write" /\ new.ticket = t
      /\ new.kept = pass[p].kept /\ new.union = pass[p].union
  BY <1>1, <1>t DEF Passes
<1> HIDE DEF new
<1>3. /\ pass' \in [BusProcesses -> Passes]
      /\ pass'[p].at = "write" /\ pass'[p].ticket = t
      /\ pass'[p].kept = pass[p].kept /\ pass'[p].union = pass[p].union
      /\ Archive!Holding(p)'
      /\ (\A u : Archive!Rewriting(p, u)' <=> Archive!Rewriting(p, u))
      /\ \A q \in BusProcesses : q # p =>
           /\ pass'[q] = pass[q]
           /\ Archive!Holding(q)' <=> Archive!Holding(q)
           /\ \A u : Archive!Rewriting(q, u)' <=> Archive!Rewriting(q, u)
  BY <1>1, <1>2, <1>t, OwnPassStep DEF Archive!Holding, Archive!Rewriting
<1>4. /\ archive' \in [Tickets -> Seq(Archive!Archived)]
      /\ DOMAIN archive'[t] = {}
      /\ \A u \in Tickets : u # t => archive'[u] = archive[u]
  <2>1. << >> \in Seq(Archive!Archived) /\ DOMAIN << >> = {}
    OBVIOUS
  <2> DEFINE empty == << >>
  <2>2. archive' = [archive EXCEPT ![t] = empty]
    BY <1>1
  <2> HIDE DEF empty
  <2>3. empty \in Seq(Archive!Archived) /\ DOMAIN empty = {}
    BY <2>1 DEF empty
  <2> QED BY <2>2, <2>3, ArchiveTypes
<1>5. Archive!TypeOK'
  <2>1. \A ids \in { outrun', stranded', overtaken', contended', torn' } :
          ids \subseteq DOMAIN written'
    BY <1>1 DEF Archive!TypeOK
  <2> QED BY <1>1, <1>3, <1>4, <2>1 DEF Archive!TypeOK, Passes
<1>6. AllGenuine'
  <2>1. \A q \in BusProcesses : Genuine(pass'[q].kept) /\ Genuine(pass'[q].union)
    BY <1>3 DEF AllGenuine
  <2>2. \A u \in Tickets : Genuine(archive'[u])
    BY <1>4 DEF AllGenuine, Genuine
  <2> QED BY <1>1, <2>1, <2>2 DEF AllGenuine, Genuine
<1>7. Sorted'
  <2>1. \A u \in Tickets : AllOf(archive'[u], u)
    BY <1>4 DEF Sorted, AllOf
  <2>2. \A q \in BusProcesses :
               IF Archive!Holding(q)'
               THEN /\ pass'[q].ticket \in Tickets
                    /\ AllOf(pass'[q].union, pass'[q].ticket)
                    /\ NoneOf(pass'[q].kept, pass'[q].ticket)
               ELSE DOMAIN pass'[q].union = {} /\ DOMAIN pass'[q].kept = {}
    BY <1>1, <1>3, <1>t DEF Sorted
  <2> QED BY <2>1, <2>2 DEF Sorted, AllOf, NoneOf
<1>8. Numbered'
  <2>1. \A q \in BusProcesses : InOrder(pass'[q].kept) /\ Grows(pass'[q].kept)
    BY <1>3 DEF Numbered
  <2> QED BY <1>1, <2>1 DEF Numbered, InOrder, Grows
<1>9. NoneLost'
  <2>1. \A u : Spared(u)' = Spared(u)
    BY <1>1 DEF Spared, Excused
  <2>2. \A u \in Tickets : u # t => Held(u)' = Held(u)
    BY <1>1, <1>3, <1>4, <1>t DEF Held, Archive!Ids
  <2>3. Archive!Ids(pass[p].union) \subseteq Held(t)'
    BY <1>3 DEF Held, Archive!Ids
  <2>4. Spared(t) \subseteq Archive!Ids(pass[p].union)
    BY <1>1, <1>t DEF NoneLost, Knows
  <2> SUFFICES ASSUME NEW u \in Tickets
               PROVE  /\ Spared(u) \subseteq Archive!Ids(live) \cup Held(u)'
                      /\ \A q \in BusProcesses :
                           Archive!Holding(q)' => Spared(u) \subseteq Knows(q, u)'
                      /\ \A q, w \in BusProcesses :
                           q # w /\ Archive!Rewriting(q, u)' /\ Archive!Rewriting(w, u)'
                             => Spared(u) = {}
    BY <1>1, <2>1 DEF NoneLost, Archive!Ids
  <2>5. /\ Spared(u) \subseteq Archive!Ids(live) \cup Held(u)
        /\ \A q \in BusProcesses :
             Archive!Holding(q) => Spared(u) \subseteq Knows(q, u)
        /\ \A q, w \in BusProcesses :
             q # w /\ Archive!Rewriting(q, u) /\ Archive!Rewriting(w, u)
               => Spared(u) = {}
    BY DEF NoneLost
  <2>6. Spared(u) \cap Held(u) \subseteq Held(u)'
    BY <2>2, <2>3, <2>4
  <2>7. Spared(u) \subseteq Knows(p, u)'
    <3>1. CASE u = t
      <4>1. Knows(p, u)' = Archive!Ids(pass[p].union)
        BY <1>3, <3>1 DEF Knows, Archive!Ids
      <4> QED BY <2>4, <3>1, <4>1
    <3>2. CASE u # t
      <4>1. Knows(p, u) = Archive!Ids(pass[p].kept) \cup Held(u)
        BY <1>t, <3>2 DEF Knows
      <4>2. Knows(p, u)' = Archive!Ids(pass[p].kept) \cup Held(u)
        BY <1>3, <2>2, <3>2 DEF Knows, Archive!Ids
      <4> QED BY <1>1, <2>5, <4>1, <4>2
    <3> QED BY <3>1, <3>2
  <2>8. ASSUME NEW q \in BusProcesses, q # p, Archive!Holding(q)'
        PROVE  Spared(u) \subseteq Knows(q, u)'
    <3>1. pass'[q] = pass[q] /\ Spared(u) \subseteq Knows(q, u)
      BY <1>3, <2>5, <2>8
    <3> QED BY <2>6, <3>1, StillKnows
  <2> QED BY <1>3, <2>5, <2>6, <2>7, <2>8
<1>10. Chronological'
  <2> SUFFICES ASSUME crashes' = 0, ~overlapped'
               PROVE  Chronological'
    BY DEF Chronological
  <2>1. crashes = 0 /\ ~overlapped
    BY <1>1
  <2>2. \A u : Settled(u)' => Settled(u) /\ u # t
    BY <1>1, <1>3 DEF Settled
  <2>3. \A q, w \in BusProcesses :
          Archive!Holding(q)' /\ Archive!Holding(w)' => q = w
    BY <1>1, <1>3, <2>1 DEF Chronological
  <2>4. \A u \in Tickets : Settled(u)' => InOrder(archive'[u]) /\ Before(archive[u], u)'
    BY <1>1, <1>4, <2>1, <2>2 DEF Chronological, Before
  <2>5. ASSUME NEW q \in BusProcesses, Archive!Holding(q)'
        PROVE  /\ InOrder(pass'[q].union)
               /\ Part(pass'[q].kept, live')
               /\ pass'[q].at = "merge" => Part(pass'[q].union, live')
               /\ pass'[q].at = "write" => DOMAIN archive'[pass'[q].ticket] = {}
               /\ pass'[q].at = "replace"
                    => archive'[pass'[q].ticket] = pass'[q].union
    <3>1. q = p
      BY <1>1, <1>3, <2>1, <2>5 DEF Chronological
    <3> QED BY <1>1, <1>3, <1>4, <2>1, <3>1 DEF Chronological
  <2> QED BY <2>3, <2>4, <2>5 DEF Chronological, InOrder, Part
<1> QED BY <1>5, <1>6, <1>7, <1>8, <1>9, <1>10

(* The archive file is written over. *)
LEMMA WriteArchiveStep ==
  ASSUME ArchiveInv, NEW p \in BusProcesses, Archive!WriteArchive(p)
  PROVE  ArchiveInv'
<1> USE DEF ArchiveInv
<1>t. PICK t \in Tickets : pass[p].ticket = t
  BY DEF Archive!WriteArchive, Sorted, Archive!Holding
<1> DEFINE new == [pass[p] EXCEPT !.at = "replace"]
           a == archive[t]
           b == pass[p].union
           c == Archive!Overwritten(a, b)
<1>1. /\ pass[p].at = "write" /\ Archive!Holding(p) /\ pass[p] \in Passes
      /\ pass' = [pass EXCEPT ![p] = new]
      /\ archive' = [archive EXCEPT ![t] = c]
      /\ UNCHANGED << live, draft, rotations, written, outrun, stranded,
                      overtaken, contended, torn, overlapped, crashes >>
  <2> HIDE DEF new
  <2>1. archive' = [archive EXCEPT ![t] = c]
    BY <1>t DEF Archive!WriteArchive
  <2> HIDE DEF c
  <2> QED BY <2>1, ArchiveTypes DEF Archive!WriteArchive, Archive!races, Archive!Holding, new
<1>2. /\ new \in Passes /\ new.at = "replace" /\ new.ticket = t
      /\ new.kept = pass[p].kept /\ new.union = b
  BY <1>1, <1>t DEF Passes
<1> HIDE DEF new
<1>3. /\ pass' \in [BusProcesses -> Passes]
      /\ pass'[p].at = "replace" /\ pass'[p].ticket = t
      /\ pass'[p].kept = pass[p].kept /\ pass'[p].union = b
      /\ Archive!Holding(p)' /\ (\A u : ~Archive!Rewriting(p, u)')
      /\ \A q \in BusProcesses : q # p =>
           /\ pass'[q] = pass[q]
           /\ Archive!Holding(q)' <=> Archive!Holding(q)
           /\ \A u : Archive!Rewriting(q, u)' <=> Archive!Rewriting(q, u)
  BY <1>1, <1>2, OwnPassStep DEF Archive!Holding, Archive!Rewriting
<1>c. /\ a \in Seq(Archive!Archived) /\ b \in Seq(Archive!Archived)
      /\ AllOf(a, t) /\ AllOf(b, t) /\ Genuine(a) /\ Genuine(b)
  <2>1. archive \in [Tickets -> Seq(Archive!Archived)] BY ArchiveTypes
  <2> QED BY <1>1, <1>t, <2>1 DEF Sorted, AllGenuine, Passes
<1>4. /\ c \in Seq(Archive!Archived) /\ AllOf(c, t) /\ Genuine(c)
      /\ Archive!Ids(b) \subseteq Archive!Ids(c)
      /\ DOMAIN a = {} => c = b
  <2> HIDE DEF a, b
  <2>1. /\ c \in Seq(Archive!Archived)
        /\ \A k \in DOMAIN c : \/ \E i \in DOMAIN b : c[k] = b[i]
                               \/ \E i \in DOMAIN a : c[k] = a[i]
        /\ Archive!Ids(b) \subseteq Archive!Ids(c)
        /\ DOMAIN a = {} => c = b
    BY <1>c, OverwrittenIs
  <2> HIDE DEF c
  <2> QED BY <1>c, <2>1 DEF AllOf, Genuine
<1> HIDE DEF c
<1>5. /\ archive' \in [Tickets -> Seq(Archive!Archived)]
      /\ archive'[t] = c
      /\ \A u \in Tickets : u # t => archive'[u] = archive[u]
  BY <1>1, <1>4, ArchiveTypes
<1>6. Archive!TypeOK'
  <2>1. \A ids \in { outrun', stranded', overtaken', contended', torn' } :
          ids \subseteq DOMAIN written'
    BY <1>1 DEF Archive!TypeOK
  <2> QED BY <1>1, <1>3, <1>5, <2>1 DEF Archive!TypeOK, Passes
<1>7. AllGenuine'
  <2>1. \A q \in BusProcesses : Genuine(pass'[q].kept) /\ Genuine(pass'[q].union)
    BY <1>3 DEF AllGenuine
  <2>2. \A u \in Tickets : Genuine(archive'[u])
    BY <1>4, <1>5 DEF AllGenuine
  <2> QED BY <1>1, <2>1, <2>2 DEF AllGenuine, Genuine
<1>8. Sorted'
  <2>1. \A u \in Tickets : AllOf(archive'[u], u)
    BY <1>4, <1>5 DEF Sorted
  <2>2. \A q \in BusProcesses :
               IF Archive!Holding(q)'
               THEN /\ pass'[q].ticket \in Tickets
                    /\ AllOf(pass'[q].union, pass'[q].ticket)
                    /\ NoneOf(pass'[q].kept, pass'[q].ticket)
               ELSE DOMAIN pass'[q].union = {} /\ DOMAIN pass'[q].kept = {}
    BY <1>1, <1>3, <1>t DEF Sorted
  <2> QED BY <2>1, <2>2 DEF Sorted, AllOf, NoneOf
<1>9. Numbered'
  <2>1. \A q \in BusProcesses : InOrder(pass'[q].kept) /\ Grows(pass'[q].kept)
    BY <1>3 DEF Numbered
  <2> QED BY <1>1, <2>1 DEF Numbered, InOrder, Grows
<1>10. NoneLost'
  <2>1. \A u : Spared(u)' = Spared(u)
    BY <1>1 DEF Spared, Excused
  <2>2. \A u \in Tickets : u # t => Held(u)' = Held(u)
    BY <1>1, <1>3, <1>5, <1>t DEF Held, Archive!Ids
  <2>3. Archive!Ids(b) \subseteq Held(t)'
    BY <1>4, <1>5 DEF Held, Archive!Ids
  <2>4. Spared(t) \subseteq Archive!Ids(b)
    BY <1>1, <1>t DEF NoneLost, Knows
  <2> SUFFICES ASSUME NEW u \in Tickets
               PROVE  /\ Spared(u) \subseteq Archive!Ids(live) \cup Held(u)'
                      /\ \A q \in BusProcesses :
                           Archive!Holding(q)' => Spared(u) \subseteq Knows(q, u)'
                      /\ \A q, w \in BusProcesses :
                           q # w /\ Archive!Rewriting(q, u)' /\ Archive!Rewriting(w, u)'
                             => Spared(u) = {}
    BY <1>1, <2>1 DEF NoneLost, Archive!Ids
  <2>5. /\ Spared(u) \subseteq Archive!Ids(live) \cup Held(u)
        /\ \A q \in BusProcesses :
             Archive!Holding(q) => Spared(u) \subseteq Knows(q, u)
        /\ \A q, w \in BusProcesses :
             q # w /\ Archive!Rewriting(q, u) /\ Archive!Rewriting(w, u)
               => Spared(u) = {}
    BY DEF NoneLost
  <2>6. Spared(u) \cap Held(u) \subseteq Held(u)'
    BY <2>2, <2>3, <2>4
  <2>7. Spared(u) \subseteq Knows(p, u)'
    <3>1. CASE u = t
      <4>1. Knows(p, u)' = Held(u)'
        BY <1>3, <3>1 DEF Knows
      <4> QED BY <2>3, <2>4, <3>1, <4>1
    <3>2. CASE u # t
      <4>1. Knows(p, u) = Archive!Ids(pass[p].kept) \cup Held(u)
        BY <1>t, <3>2 DEF Knows
      <4>2. Knows(p, u)' = Archive!Ids(pass[p].kept) \cup Held(u)
        BY <1>3, <2>2, <3>2 DEF Knows, Archive!Ids
      <4> QED BY <1>1, <2>5, <4>1, <4>2
    <3> QED BY <3>1, <3>2
  <2>8. ASSUME NEW q \in BusProcesses, q # p, Archive!Holding(q)'
        PROVE  Spared(u) \subseteq Knows(q, u)'
    <3>1. pass'[q] = pass[q] /\ Spared(u) \subseteq Knows(q, u)
      BY <1>3, <2>5, <2>8
    <3> QED BY <2>6, <3>1, StillKnows
  <2>9. \A q, w \in BusProcesses :
          q # w /\ Archive!Rewriting(q, u)' /\ Archive!Rewriting(w, u)'
            => Spared(u) = {}
    BY <1>3, <2>5
  <2> QED BY <2>5, <2>6, <2>7, <2>8, <2>9
<1>11. Chronological'
  <2> SUFFICES ASSUME crashes' = 0, ~overlapped'
               PROVE  Chronological'
    BY DEF Chronological
  <2>1. crashes = 0 /\ ~overlapped
    BY <1>1
  <2>2. \A u : Settled(u)' => Settled(u) /\ u # t
    BY <1>1, <1>3, <1>t DEF Settled
  <2>3. \A q, w \in BusProcesses :
          Archive!Holding(q)' /\ Archive!Holding(w)' => q = w
    BY <1>1, <1>3, <2>1 DEF Chronological
  <2>4. \A u \in Tickets : Settled(u)' => InOrder(archive'[u]) /\ Before(archive[u], u)'
    BY <1>1, <1>5, <2>1, <2>2 DEF Chronological, Before
  <2>5. ASSUME NEW q \in BusProcesses, Archive!Holding(q)'
        PROVE  /\ InOrder(pass'[q].union)
               /\ Part(pass'[q].kept, live')
               /\ pass'[q].at = "merge" => Part(pass'[q].union, live')
               /\ pass'[q].at = "write" => DOMAIN archive'[pass'[q].ticket] = {}
               /\ pass'[q].at = "replace"
                    => archive'[pass'[q].ticket] = pass'[q].union
    <3>1. q = p
      BY <1>1, <1>3, <2>1, <2>5 DEF Chronological
    <3>2. DOMAIN a = {} /\ InOrder(b) /\ Part(pass[p].kept, live)
      BY <1>1, <1>t, <2>1 DEF Chronological
    <3> QED BY <1>1, <1>3, <1>4, <1>5, <3>1, <3>2
  <2> QED BY <2>3, <2>4, <2>5 DEF Chronological, InOrder, Part
<1> QED BY <1>6, <1>7, <1>8, <1>9, <1>10, <1>11

(* What was kept replaces the live file. *)
LEMMA ReplaceStep ==
  ASSUME ArchiveInv, NEW p \in BusProcesses, Archive!ReplaceLive(p)
  PROVE  ArchiveInv'
<1> USE DEF ArchiveInv
<1>t. PICK t \in Tickets : pass[p].ticket = t
  BY DEF Archive!ReplaceLive, Sorted, Archive!Holding
<1> DEFINE new == [Archive!NoPass EXCEPT !.at = "read", !.todo = pass[p].todo]
           k == pass[p].kept
<1>1. /\ pass[p].at = "replace" /\ Archive!Holding(p) /\ pass[p] \in Passes
      /\ pass' = [pass EXCEPT ![p] = new]
      /\ live' = k /\ draft' = Archive!Outdated("detached")
      /\ UNCHANGED << archive, rotations, written, outrun, stranded,
                      overtaken, contended, torn, overlapped, crashes >>
  <2> HIDE DEF new
  <2> QED BY ArchiveTypes DEF Archive!ReplaceLive, Archive!races, Archive!Holding, new
<1>2. /\ new \in Passes /\ new.at \in { "idle", "read" }
      /\ DOMAIN new.kept = {} /\ DOMAIN new.union = {}
  <2>1. pass[p].todo \in SUBSET Tickets
    BY <1>1 DEF Passes
  <2> QED BY <2>1, HoldsNothing
<1> HIDE DEF new
<1>3. /\ pass' \in [BusProcesses -> Passes]
      /\ pass'[p].at \in { "idle", "read" }
      /\ DOMAIN pass'[p].kept = {} /\ DOMAIN pass'[p].union = {}
      /\ ~Archive!Holding(p)' /\ (\A u : ~Archive!Rewriting(p, u)')
      /\ \A q \in BusProcesses : q # p =>
           /\ pass'[q] = pass[q]
           /\ Archive!Holding(q)' <=> Archive!Holding(q)
           /\ \A u : Archive!Rewriting(q, u)' <=> Archive!Rewriting(q, u)
  BY <1>1, <1>2, OwnPassStep DEF Archive!Holding, Archive!Rewriting
<1>4. /\ k \in Seq(Archive!Archived) /\ Genuine(k) /\ InOrder(k) /\ Grows(k)
      /\ NoneOf(k, t)
  BY <1>1, <1>t DEF Passes, AllGenuine, Numbered, Sorted
<1>5. /\ draft' \in [BusProcesses -> Drafts]
      /\ \A q \in BusProcesses : ~draft'[q].current
  BY <1>1, OutdatedIs
<1> HIDE DEF k
<1>6. Archive!TypeOK'
  <2>1. \A ids \in { outrun', stranded', overtaken', contended', torn' } :
          ids \subseteq DOMAIN written'
    BY <1>1 DEF Archive!TypeOK
  <2> QED BY <1>1, <1>3, <1>4, <1>5, <2>1 DEF Archive!TypeOK, Passes, Drafts
<1>7. AllGenuine'
  <2>1. \A q \in BusProcesses : Genuine(pass'[q].kept) /\ Genuine(pass'[q].union)
    BY <1>3 DEF AllGenuine, Genuine
  <2> QED BY <1>1, <1>4, <2>1 DEF AllGenuine, Genuine
<1>8. Sorted'
  BY <1>1, <1>3 DEF Sorted, AllOf, NoneOf
<1>9. Numbered'
  <2>1. \A q \in BusProcesses : InOrder(pass'[q].kept) /\ Grows(pass'[q].kept)
    BY <1>3 DEF Numbered, InOrder, Grows
  <2> QED BY <1>1, <1>4, <1>5, <2>1 DEF Numbered, InOrder, Grows
<1>10. NoneLost'
  <2>1. \A u : Spared(u)' = Spared(u) /\ Held(u)' = Held(u)
    BY <1>1, <1>3 DEF Spared, Excused, Held, Archive!Ids
  <2> SUFFICES ASSUME NEW u \in Tickets
               PROVE  /\ Spared(u) \subseteq Archive!Ids(k) \cup Held(u)
                      /\ \A q \in BusProcesses :
                           Archive!Holding(q)' => Spared(u) \subseteq Knows(q, u)'
                      /\ \A q, w \in BusProcesses :
                           q # w /\ Archive!Rewriting(q, u)' /\ Archive!Rewriting(w, u)'
                             => Spared(u) = {}
    BY <1>1, <2>1 DEF NoneLost, Archive!Ids
  <2>2. /\ \A q \in BusProcesses :
             Archive!Holding(q) => Spared(u) \subseteq Knows(q, u)
        /\ \A q, w \in BusProcesses :
             q # w /\ Archive!Rewriting(q, u) /\ Archive!Rewriting(w, u)
               => Spared(u) = {}
    BY DEF NoneLost
  <2>3. Knows(p, u) \subseteq Archive!Ids(k) \cup Held(u)
    BY <1>1, <1>t DEF Knows, k
  <2>4. ASSUME NEW q \in BusProcesses, Archive!Holding(q)'
        PROVE  Spared(u) \subseteq Knows(q, u)'
    <3>1. pass'[q] = pass[q] /\ Spared(u) \subseteq Knows(q, u)
      BY <1>3, <2>2, <2>4
    <3>2. Spared(u) \cap Held(u) \subseteq Held(u)'
      BY <2>1
    <3> QED BY <3>1, <3>2, StillKnows
  <2> QED BY <1>1, <1>3, <2>2, <2>3, <2>4
<1>11. Chronological'
  <2> SUFFICES ASSUME crashes' = 0, ~overlapped'
               PROVE  Chronological'
    BY DEF Chronological
  <2>1. crashes = 0 /\ ~overlapped /\ \A q \in BusProcesses : ~Archive!Holding(q)'
    BY <1>1, <1>3 DEF Chronological
  <2>2. Part(k, live) /\ archive[t] = pass[p].union /\ InOrder(pass[p].union)
    BY <1>1, <1>t, <2>1 DEF Chronological, k
  <2>3. ASSUME NEW u \in Tickets
        PROVE  InOrder(archive'[u]) /\ Before(archive[u], u)'
    <3>1. CASE u = t
      BY <1>1, <1>4, <2>2, <3>1 DEF Before, NoneOf
    <3>2. CASE u # t
      <4>1. Settled(u)
        <5>1. \A q \in BusProcesses : Archive!Holding(q) => q = p
          BY <1>1, <2>1 DEF Chronological
        <5> QED BY <1>t, <3>2, <5>1 DEF Settled, Archive!Holding
      <4>2. InOrder(archive[u]) /\ Before(archive[u], u)
        BY <2>1, <4>1 DEF Chronological
      <4> QED BY <1>1, <2>2, <4>2 DEF Before, Part
    <3> QED BY <3>1, <3>2
  <2> QED BY <2>1, <2>3 DEF Chronological, InOrder
<1> QED BY <1>6, <1>7, <1>8, <1>9, <1>10, <1>11
-----------------------------------------------------------------------------
(* The invariant is inductive. *)
LEMMA ArchiveInvStep ==
  ASSUME ArchivedRequests \subseteq Archive!Request, MaxCrashes \in Nat,
         MaxRotations \in Nat, ArchiveInv, [Archive!Next]_(Archive!vars)
  PROVE  ArchiveInv'
<1>1. CASE UNCHANGED Archive!vars
  <2>1. UNCHANGED << live, archive, pass, draft, rotations, written, outrun, stranded,
                     overtaken, contended, torn, overlapped, crashes >>
    BY <1>1 DEF Archive!vars, Archive!races
  <2>a. Archive!TypeOK'
    <3>1. \A ids \in { outrun', stranded', overtaken', contended', torn' } :
            ids \subseteq DOMAIN written'
      BY <2>1 DEF ArchiveInv, Archive!TypeOK
    <3>2. Archive!TypeOK BY DEF ArchiveInv
    <3> QED BY <2>1, <3>1, <3>2 DEF Archive!TypeOK
  <2>b. AllGenuine'
    BY <2>1 DEF ArchiveInv, AllGenuine, Genuine
  <2>3. Sorted' /\ Numbered'
    BY <2>1 DEF ArchiveInv, Sorted, AllOf, NoneOf, Archive!Holding, Numbered, InOrder,
       Grows
  <2>4. NoneLost'
    BY <2>1 DEF ArchiveInv, NoneLost, Spared, Excused, Held, Knows, Archive!Ids,
       Archive!Holding, Archive!Rewriting
  <2>5. Chronological'
    BY <2>1 DEF ArchiveInv, Chronological, InOrder, Before, Part, Settled,
       Archive!Holding
  <2> QED BY <2>a, <2>b, <2>3, <2>4, <2>5 DEF ArchiveInv
<1>2. CASE Archive!Next
  <2>1. PICK p \in BusProcesses :
          Archive!Emit(p) \/ Archive!Rotate(p) \/ Archive!Crash(p)
    BY <1>2 DEF Archive!Next
  <2> QED BY <2>1, DraftStep, WriteEventStep, BeginEndStep, ReadLiveStep, MergeStep,
     TruncateStep, WriteArchiveStep, ReplaceStep DEF Archive!Emit, Archive!Rotate
<1> QED BY <1>1, <1>2

(* What the invariant says of the two files. *)
LEMMA ArchiveInvImplies ==
  ASSUME ArchiveInv
  PROVE  /\ Archive!TypeOK
         /\ Archive!LostOnlyByRace
         /\ Archive!LiveSequenceGrows
         /\ Archive!ArchivesSeparate
         /\ Archive!UnionIsChronological
<1> USE DEF ArchiveInv
<1>0. live \in Seq(Archive!Archived)
        /\ archive \in [Tickets -> Seq(Archive!Archived)]
  BY ArchiveTypes
<1>1. Archive!LiveSequenceGrows
  BY DEF Numbered, Grows, Archive!LiveSequenceGrows
<1>2. Cardinality(Archive!Ids(live)) = Len(live)
  <2> DEFINE D == 1..Len(live)
             f == [i \in D |-> live[i].id]
  <2>1. DOMAIN live = D /\ Len(live) \in Nat
    BY <1>0
  <2>2. \A i, j \in D : i # j => live[i].id # live[j].id
    <3>1. \A i \in D : live[i].id \in Nat
      BY <2>1, ArchiveTypes
    <3>2. \A i, j \in D : i < j => live[i].id < live[j].id
      BY <2>1 DEF Numbered, InOrder
    <3>3. \A i, j \in D : i # j => i < j \/ j < i
      BY <2>1
    <3> QED BY <3>1, <3>2, <3>3
  <2>3. f \in Bijection(D, Archive!Ids(live))
    <3>1. f \in [D -> Archive!Ids(live)] /\ \A y \in Archive!Ids(live) :
            \E i \in D : f[i] = y
      BY <2>1 DEF Archive!Ids
    <3>2. \A i, j \in D : f[i] = f[j] => i = j
      BY <2>2
    <3> HIDE DEF D, f
    <3> QED BY <3>1, <3>2 DEF Bijection, Injection, Surjection, IsInjective
  <2>4. IsFiniteSet(D) /\ Cardinality(D) = Len(live)
    <3>1. 1 \in Int /\ Len(live) \in Int /\ Len(live) \in Nat
      BY <2>1
    <3>2. IsFiniteSet(1..Len(live))
          /\ Cardinality(1..Len(live)) = IF 1 > Len(live) THEN 0
               ELSE Len(live) - 1 + 1
      BY <3>1, FS_Interval
    <3> QED BY <3>1, <3>2
  <2> HIDE DEF D, f
  <2> QED BY <2>3, <2>4, FS_Bijection DEF ExistsBijection
<1>3. Archive!ArchivesSeparate
  BY <1>2, SameCardinality DEF Sorted, AllOf, Archive!ArchivesSeparate
<1>4. Archive!LostOnlyByRace
  <2> SUFFICES ASSUME NEW i \in DOMAIN written
               PROVE  \/ i \in Archive!Ids(live) \cup Archive!Ids(archive[written[i].ticket])
                      \/ \E p \in BusProcesses :
                           pass[p].at = "write" /\ i \in Archive!Ids(pass[p].union)
                      \/ i \in stranded \cup overtaken \cup contended \cup torn
    BY DEF AllGenuine, Archive!LostOnlyByRace
  <2>1. PICK t \in Tickets : written[i].ticket = t
    BY ArchiveTypes
  <2>2. Spared(t) \subseteq Archive!Ids(live) \cup Held(t)
    BY DEF NoneLost
  <2>3. i \in Spared(t) \/ i \in Excused
    BY <2>1 DEF Spared
  <2> QED BY <2>1, <2>2, <2>3 DEF Held, Excused
<1>5. Archive!UnionIsChronological
  <2> SUFFICES ASSUME crashes = 0, ~overlapped,
                      \A p \in BusProcesses : ~Archive!Holding(p), NEW t \in Tickets
               PROVE  InOrder(Archive!LiveAndArchived(t))
    BY DEF Archive!UnionIsChronological, InOrder
  <2> DEFINE a == archive[t]
             b == Archive!OfTicket(live, t)
  <2>1. InOrder(a) /\ Before(a, t)
    BY DEF Chronological, Settled, Archive!Holding
  <2>2. /\ b \in Seq(Archive!Archived) /\ InOrder(b)
        /\ \A j \in DOMAIN b : b[j].ticket = t /\ \E i \in DOMAIN live :
             b[j] = live[i]
    <3>1. InOrder(live)
      BY DEF Numbered
    <3> QED BY <1>0, <3>1, OfTicketIs
  <2>3. a \in Seq(Archive!Archived)
    BY <1>0
  <2> HIDE DEF a, b
  <2>4. \A i \in DOMAIN a, j \in DOMAIN b : a[i].id < b[j].id
    BY <2>1, <2>2 DEF Before
  <2>5. InOrder(a \o b)
    BY <2>1, <2>2, <2>3, <2>4, JoinedInOrder
  <2> QED BY <2>5 DEF Archive!LiveAndArchived, a, b
<1> QED BY <1>1, <1>3, <1>4, <1>5
-----------------------------------------------------------------------------
(* The proofs about the bus, for one writer. *)
Solo == INSTANCE EventBusProofs WITH
  Writers <- { Writer }, Requests <- WriterRequests

LEMMA SoloAssumptions ==
  /\ WindowSize \in Nat /\ MaxDuplicates \in Nat /\ MaxLog \in Nat
  /\ WriterRequests \subseteq Solo!Request
  /\ NoCall \notin WriterRequests
  /\ Solo!IsFiniteSet({ Writer })
<1>1. Solo!IsFiniteSet({ Writer })
  BY FS_Singleton DEF Solo!IsFiniteSet, IsFiniteSet
<1> QED
  BY <1>1, FilesAssumption, RequestsAssumption DEF Solo!Request, Bus!Request

(* The bus of the whole is the one the proofs are about. *)
LEMMA SameStates ==
  /\ Bus!WorkStates = Solo!WorkStates /\ Bus!TerminalStates = Solo!TerminalStates
  /\ Bus!GuardTypes = Solo!GuardTypes
  /\ \A e : Bus!GuardState(e) = Solo!GuardState(e)
            /\ Bus!ReentryTarget(e) = Solo!ReentryTarget(e)
BY DEF Bus!WorkStates, Solo!WorkStates, Bus!TerminalStates, Solo!TerminalStates,
   Bus!GuardTypes, Solo!GuardTypes, Bus!GuardState, Solo!GuardState,
   Bus!ReentryTarget, Solo!ReentryTarget, Bus!PayloadState, Solo!PayloadState,
   Bus!Lookup, Solo!Lookup, Bus!TicketState, Solo!TicketState, Bus!NoState,
   Solo!NoState, Bus!ReviewOutcome, Solo!ReviewOutcome, Bus!ApprovalOutcome,
   Solo!ApprovalOutcome

LEMMA SameRules ==
  ASSUME NEW s, NEW r
  PROVE  /\ Bus!ReentryBlocked(s, r) <=> Solo!ReentryBlocked(s, r)
         /\ Bus!GapRecorded(s, r) <=> Solo!GapRecorded(s, r)
         /\ Bus!DuplicateCount(s, r) = Solo!DuplicateCount(s, r)
         /\ Bus!LastSeq(s) = Solo!LastSeq(s)
         /\ \A n : Bus!Stamp(r, n) = Solo!Stamp(r, n)
<1>1. Bus!ReentryBlocked(s, r) <=> Solo!ReentryBlocked(s, r)
  BY SameStates DEF Bus!ReentryBlocked, Solo!ReentryBlocked, Bus!LastOf, Solo!LastOf
<1>2. Bus!GapRecorded(s, r) <=> Solo!GapRecorded(s, r)
  BY DEF Bus!GapRecorded, Solo!GapRecorded
<1>3. Bus!DuplicateCount(s, r) = Solo!DuplicateCount(s, r)
  BY DEF Bus!DuplicateCount, Solo!DuplicateCount, Bus!RecentCopies, Solo!RecentCopies,
     Bus!SameEvent, Solo!SameEvent, Bus!Cardinality, Solo!Cardinality
<1>4. Bus!LastSeq(s) = Solo!LastSeq(s) /\ \A n : Bus!Stamp(r, n) = Solo!Stamp(r, n)
  BY DEF Bus!LastSeq, Solo!LastSeq, Bus!Stamp, Solo!Stamp
<1> QED BY <1>1, <1>2, <1>3, <1>4

LEMMA SameBus ==
  /\ Bus!Init <=> Solo!Init
  /\ [Bus!Next]_(Bus!vars) => [Solo!Next]_(Solo!vars)
<1>1. Bus!Init <=> Solo!Init
  BY DEF Bus!Init, Solo!Init, Bus!NothingSeen, Solo!NothingSeen
<1>3. Bus!vars = Solo!vars /\ (Bus!vars)' = (Solo!vars)'
  BY DEF Bus!vars, Solo!vars
<1>2. ASSUME NEW w \in { Writer } PROVE Bus!Emit(w) => Solo!Emit(w)
  <2>1. Bus!Return(w) <=> Solo!Return(w)
    BY DEF Bus!Return, Solo!Return, Bus!NothingSeen, Solo!NothingSeen
  <2>2. \A r \in WriterRequests : Bus!Begin(w, r) => Solo!Begin(w, r)
    BY DEF Bus!Begin, Solo!Begin, Bus!Pending, Solo!Pending, Bus!Cardinality,
       Solo!Cardinality
  <2>3. Bus!CheckGap(w) => Solo!CheckGap(w)
    BY <2>1, SameRules DEF Bus!CheckGap, Solo!CheckGap
  <2>4. Bus!ReadRecords(w) => Solo!ReadRecords(w)
    BY SameRules DEF Bus!ReadRecords, Solo!ReadRecords
  <2>5. Bus!Guard(w) => Solo!Guard(w)
    BY <2>1, SameRules DEF Bus!Guard, Solo!Guard, Bus!AtThreshold, Solo!AtThreshold
  <2>6. Bus!AppendRecord(w) => Solo!AppendRecord(w)
    BY <2>1, SameRules DEF Bus!AppendRecord, Solo!AppendRecord
  <2> QED BY <2>2, <2>3, <2>4, <2>5, <2>6 DEF Bus!Emit, Solo!Emit
<1> QED BY <1>1, <1>2, <1>3 DEF Bus!Next, Solo!Next

LEMMA SameAtomic == Solo!Atomic!Next => Atomic!Next
<1>1. ASSUME NEW r
      PROVE  /\ Atomic!ReentryBlocked(log, r) <=> Solo!Atomic!ReentryBlocked(log, r)
             /\ Atomic!GapRecorded(log, r) <=> Solo!Atomic!GapRecorded(log, r)
             /\ Atomic!DuplicateCount(log, r) = Solo!Atomic!DuplicateCount(log, r)
             /\ Atomic!Stamp(r, Atomic!LastSeq(log) + 1)
                  = Solo!Atomic!Stamp(r, Solo!Atomic!LastSeq(log) + 1)
  <2>1. Atomic!ReentryBlocked(log, r) <=> Solo!Atomic!ReentryBlocked(log, r)
    BY DEF Atomic!ReentryBlocked, Solo!Atomic!ReentryBlocked, Atomic!LastOf,
       Solo!Atomic!LastOf, Atomic!WorkStates, Solo!Atomic!WorkStates,
       Atomic!TerminalStates, Solo!Atomic!TerminalStates, Atomic!GuardTypes,
       Solo!Atomic!GuardTypes, Atomic!GuardState, Solo!Atomic!GuardState,
       Atomic!ReentryTarget, Solo!Atomic!ReentryTarget, Atomic!PayloadState,
       Solo!Atomic!PayloadState, Atomic!Lookup, Solo!Atomic!Lookup,
       Atomic!TicketState, Solo!Atomic!TicketState, Atomic!NoState,
       Solo!Atomic!NoState, Atomic!ReviewOutcome, Solo!Atomic!ReviewOutcome,
       Atomic!ApprovalOutcome, Solo!Atomic!ApprovalOutcome
  <2>2. Atomic!GapRecorded(log, r) <=> Solo!Atomic!GapRecorded(log, r)
    BY DEF Atomic!GapRecorded, Solo!Atomic!GapRecorded
  <2>3. Atomic!DuplicateCount(log, r) = Solo!Atomic!DuplicateCount(log, r)
    BY DEF Atomic!DuplicateCount, Solo!Atomic!DuplicateCount, Atomic!RecentCopies,
       Solo!Atomic!RecentCopies, Atomic!SameEvent, Solo!Atomic!SameEvent,
       Atomic!Cardinality, Solo!Atomic!Cardinality
  <2>4. Atomic!Stamp(r, Atomic!LastSeq(log) + 1)
          = Solo!Atomic!Stamp(r, Solo!Atomic!LastSeq(log) + 1)
    BY DEF Atomic!Stamp, Solo!Atomic!Stamp, Atomic!LastSeq, Solo!Atomic!LastSeq
  <2> QED BY <2>1, <2>2, <2>3, <2>4
<1> QED
  BY <1>1 DEF Atomic!Next, Solo!Atomic!Next, Atomic!Emit, Solo!Atomic!Emit,
     Atomic!Refused, Solo!Atomic!Refused

(* What a single writer relies on. *)
SoloInv == Solo!TypeOK /\ Solo!GuardInv /\ Solo!SingleInv

LEMMA InitSoloInv ==
  ASSUME Bus!Init
  PROVE  SoloInv
<1>1. Solo!Init
  BY SameBus
<1>2. Solo!TypeOK
  BY <1>1 DEF Solo!Init, Solo!TypeOK, Solo!NothingSeen
<1>3. Solo!GuardInv
  BY <1>1 DEF Solo!Init, Solo!GuardInv, Solo!ReopenOnlyByRace, Solo!PassedGuard
<1>4. Solo!SingleInv
  BY <1>1, SoloAssumptions, Solo!InitSingleInv
<1> QED BY <1>2, <1>3, <1>4 DEF SoloInv

LEMMA SoloInvStep ==
  ASSUME SoloInv, [Bus!Next]_(Bus!vars)
  PROVE  SoloInv' /\ [Atomic!Next]_log
<1>1. Solo!TypeOK /\ Solo!GuardInv /\ Solo!SingleInv /\ [Solo!Next]_(Solo!vars)
  BY SameBus DEF SoloInv
<1>2. Solo!TypeOK'
  BY <1>1, SoloAssumptions, Solo!TypeStep
<1>3. Solo!GuardInv'
  BY <1>1, <1>2, SoloAssumptions, Solo!GuardInvStep
<1>4. Solo!SingleInv'
  BY <1>1, SoloAssumptions, Solo!SingleInvStep
<1>5. [Solo!Atomic!Next]_log
  BY <1>1, SoloAssumptions, Solo!SingleStepIsAtomic
<1> QED BY <1>2, <1>3, <1>4, <1>5, SameAtomic DEF SoloInv
-----------------------------------------------------------------------------
(* One step of the whole is a step of the scene's component, and none of   *)
(* the others.                                                             *)
LEMMA SceneStep ==
  ASSUME [SceneNext]_allVars
  PROVE  /\ scene' = scene
         /\ [Archive!Next]_(Archive!vars)
         /\ [Next]_vars
         /\ scene = "supervisor" => [Supervisor!Next]_(Supervisor!vars)
         /\ scene = "session" => [Session!Next]_(Session!vars)
         /\ scene = "artifact" => [Artifact!Next]_(Artifact!vars)
         /\ scene = "scorecard" => [Rows!Next]_(Rows!vars)
         /\ scene = "suites" => [Suites!Next]_(Suites!vars)
         /\ scene = "writer" => [Bus!Next]_(Bus!vars)
         /\ scene \in { "rotation", "writer", "scorecard", "approvals" }
              => causes' = causes
<1>1. CASE UNCHANGED allVars
  BY <1>1 DEF allVars, ofFiles, ofArchive, ofBus, ofLocks, ofSession, ofArtifact,
     ofScorecard, ofApprovals, ofSuites, Archive!vars, Archive!races, Supervisor!vars,
     Session!vars, Artifact!vars, Rows!vars, Suites!vars, Suites!history, Bus!vars, vars
<1>2. CASE SceneNext
  <2>1. scene' = scene
    BY <1>2 DEF SceneNext
  <2>2. [Archive!Next]_(Archive!vars)
    BY <1>2 DEF SceneNext, ofArchive, Archive!vars, Archive!races
  <2>3. [Next]_vars
    BY <1>2 DEF SceneNext, ofApprovals, ofFiles
  <2>4. /\ scene = "supervisor" => Supervisor!Next
        /\ scene = "session" => Session!Next
        /\ scene = "artifact" => Artifact!Next
        /\ scene = "scorecard" => Rows!Next
        /\ scene = "suites" => Suites!Next
        /\ scene = "writer" => Bus!Next
    BY <1>2 DEF SceneNext
  <2>5. scene \in { "rotation", "writer", "scorecard", "approvals" }
          => causes' = causes
    BY <1>2 DEF SceneNext, ofFiles, ofLocks
  <2> QED BY <2>1, <2>2, <2>3, <2>4, <2>5
<1> QED BY <1>1, <1>2

(* The inductive invariant: that of each component in its scene, those of  *)
(* the bus's files and of the approval store in every scene.               *)
FilesInv ==
  /\ ArchiveInv
  /\ StoreInv
  /\ scene = "supervisor" => LockInv
  /\ scene = "session" => SessionInv
  /\ scene = "artifact" => WriteInv
  /\ scene = "scorecard" => RowsInv /\ ReaderInv
  /\ scene = "suites" => SuiteInv
  /\ scene = "writer" => SoloInv
  /\ scene \in { "rotation", "writer", "scorecard", "approvals" } => causes = {}
  /\ scene \in { "rotation", "writer", "supervisor", "session", "artifact",
                 "scorecard", "approvals", "suites" }

LEMMA InitFilesInv ==
  ASSUME SceneInit
  PROVE  FilesInv
<1>1. Archive!Init /\ Init
  BY DEF SceneInit
<1>2. ArchiveInv
  BY <1>1, FilesAssumption, InitArchiveInv
<1>3. StoreInv
  BY <1>1, InitStoreInv
<1>4. /\ scene = "supervisor" => Supervisor!Init
      /\ scene = "session" => Session!Init
      /\ scene = "artifact" => Artifact!Init
      /\ scene = "scorecard" => Rows!Init
      /\ scene = "suites" => Suites!Init
      /\ scene = "writer" => Bus!Init
      /\ scene \in { "rotation", "writer", "scorecard", "approvals" } => causes = {}
      /\ scene \in { "rotation", "writer", "supervisor", "session", "artifact",
                     "scorecard", "approvals", "suites" }
  BY DEF SceneInit, NoFiles, NoLocks
<1>5. SuitesApart /\ Nobody \notin Processes
  BY FilesAssumption DEF SuitesApart
<1> QED
  BY <1>2, <1>3, <1>4, <1>5, InitLockInv, InitSessionInv, InitWriteInv, InitRowsInv,
     InitReaderInv, InitSuiteInv, InitSoloInv DEF FilesInv

LEMMA FilesInvStep ==
  ASSUME FilesInv, [SceneNext]_allVars
  PROVE  FilesInv'
<1>1. /\ scene' = scene
      /\ [Archive!Next]_(Archive!vars)
      /\ [Next]_vars
      /\ scene = "supervisor" => [Supervisor!Next]_(Supervisor!vars)
      /\ scene = "session" => [Session!Next]_(Session!vars)
      /\ scene = "artifact" => [Artifact!Next]_(Artifact!vars)
      /\ scene = "scorecard" => [Rows!Next]_(Rows!vars)
      /\ scene = "suites" => [Suites!Next]_(Suites!vars)
      /\ scene = "writer" => [Bus!Next]_(Bus!vars)
      /\ scene \in { "rotation", "writer", "scorecard", "approvals" }
           => causes' = causes
  BY SceneStep
<1>2. SuitesApart /\ Nobody \notin Processes /\ Apart
  BY FilesAssumption DEF SuitesApart, Apart
<1>3. ArchiveInv'
  BY <1>1, FilesAssumption, RequestsAssumption, ArchiveInvStep DEF FilesInv
<1>4. StoreInv'
  BY <1>1, <1>2, TypedStep, ServesAfterSaveStep, NotYetCreatedStep, OneServesStep,
     RequestsKeptStep, GateWatchedStep DEF FilesInv, StoreInv
<1>5. scene = "supervisor" => LockInv'
  BY <1>1, <1>2, LockInvStep DEF FilesInv
<1>6. scene = "session" => SessionInv'
  BY <1>1, <1>2, SessionTypedStep, SessionHolderNamedStep, TakerNamedStep, WrittenOnceStep,
     LiveOneGoneStep, StolenStep DEF FilesInv, SessionInv
<1>7. scene = "artifact" => WriteInv'
  BY <1>1, <1>2, WriteInvStep DEF FilesInv
<1>8. scene = "scorecard" => RowsInv' /\ ReaderInv'
  BY <1>1, FilesAssumption, RowsInvStep, ReaderInvStep DEF FilesInv
<1>9. scene = "suites" => SuiteInv'
  BY <1>1, <1>2, SuiteInvStep DEF FilesInv
<1>10. scene = "writer" => SoloInv'
  BY <1>1, SoloInvStep DEF FilesInv
<1> QED BY <1>1, <1>3, <1>4, <1>5, <1>6, <1>7, <1>8, <1>9, <1>10 DEF FilesInv

(* It holds in every state of every scene.                               *)
THEOREM FilesInvAlways == SceneSpec => []FilesInv
<1>1. SceneInit => FilesInv
  BY InitFilesInv
<1>2. FilesInv /\ [SceneNext]_allVars => FilesInv'
  BY FilesInvStep
<1> QED BY <1>1, <1>2, PTL DEF SceneSpec
-----------------------------------------------------------------------------
(* What the inductive invariant says of the invariants that are checked.   *)
LEMMA FilesInvImplies ==
  ASSUME FilesInv
  PROVE  /\ FilesTypeOK /\ LostOnlyByRace /\ LiveSequenceGrows
         /\ ArchivesSeparate /\ UnionIsChronological
         /\ LiveLockNotStolen /\ AbortedIsDead
         /\ RequestsKept /\ ExpiryServedOnce /\ GateWatched
         /\ SnapshotSound
<1>1. /\ Archive!TypeOK /\ Archive!LostOnlyByRace /\ Archive!LiveSequenceGrows
      /\ Archive!ArchivesSeparate /\ Archive!UnionIsChronological
  BY ArchiveInvImplies DEF FilesInv
<1>2. FilesTypeOK
  BY <1>1 DEF FilesInv, FilesTypeOK, LockInv, SuiteInv
<1>3. LostOnlyByRace /\ LiveSequenceGrows /\ ArchivesSeparate /\ UnionIsChronological
  BY <1>1 DEF LostOnlyByRace, LiveSequenceGrows, ArchivesSeparate, UnionIsChronological
<1>4. LiveLockNotStolen
  <2>1. "stolen" \notin Causes
    BY DEF Causes
  <2>2. scene = "artifact" => LiveLockNotStolen
    BY <2>1 DEF FilesInv, WriteInv, ArtifactTyped, LiveLockNotStolen
  <2>3. scene \in { "rotation", "writer", "scorecard", "approvals" } => LiveLockNotStolen
    BY DEF FilesInv, LiveLockNotStolen
  <2> QED BY <2>2, <2>3 DEF FilesInv, LockInv, SessionInv, SuiteInv
<1>5. AbortedIsDead
  BY DEF FilesInv, SuiteInv, AbortedIsDead
<1>6. RequestsKept /\ ExpiryServedOnce /\ GateWatched
  BY DEF FilesInv, StoreInv, Typed, OneServes, ExpiryServedOnce
<1>7. SnapshotSound
  BY DEF FilesInv, ReaderInv, SnapshotSound
<1> QED BY <1>2, <1>3, <1>4, <1>5, <1>6, <1>7

(* The variables of the bus's files and of the locks keep their types.     *)
THEOREM FilesTypeCorrect == SceneSpec => []FilesTypeOK
BY FilesInvAlways, FilesInvImplies, PTL

(* For any number of processes that emit and rotate, killed anywhere, with *)
(* any tickets and events: an event is lost only when it was written to a  *)
(* replaced file or while a rotation held its read, or when its archive    *)
(* was rewritten by two rotations at once or by one that was killed.       *)
THEOREM EventsLostOnlyByRace == SceneSpec => []LostOnlyByRace
BY FilesInvAlways, FilesInvImplies, PTL

(* The numbers in the live file grow, whatever is rotated away, up to      *)
(* calls that numbered their event by a read that was outdated.            *)
THEOREM LiveNumbersGrow == SceneSpec => []LiveSequenceGrows
BY FilesInvAlways, FilesInvImplies, PTL

(* No rotation mixes up tickets, or has an event twice in the live file.   *)
THEOREM ArchivesStaySeparate == SceneSpec => []ArchivesSeparate
BY FilesInvAlways, FilesInvImplies, PTL

(* As long as no rotation was killed or overlapped another, and between    *)
(* two moves, archived and live events joined are in the order they were   *)
(* written.                                                                *)
THEOREM UnionStaysChronological == SceneSpec => []UnionIsChronological
BY FilesInvAlways, FilesInvImplies, PTL

(* Whichever lock file is looked at: one that could be read, of a process  *)
(* that lives, is not broken by one who looked at it and learnt that it    *)
(* lives.  A probe without an answer is a cause of its own.                *)
THEOREM LiveLocksKept == SceneSpec => []LiveLockNotStolen
BY FilesInvAlways, FilesInvImplies, PTL

(* A run recorded as aborted is dead or has released its lock, unless the  *)
(* lock was taken from a live run.                                         *)
THEOREM AbortedRunsAreDead == SceneSpec => []AbortedIsDead
BY FilesInvAlways, FilesInvImplies, PTL

(* A row whose append returned stays visible; no archive changes.          *)
THEOREM RowsStayVisible == SceneSpec => RowsKept
<1>1. FilesInv /\ [SceneNext]_allVars => [scene = "scorecard" => Rows!RowsStep]_allVars
  <2> SUFFICES ASSUME FilesInv, [SceneNext]_allVars, scene = "scorecard"
               PROVE  Rows!RowsStep
    OBVIOUS
  <2>1. RowsInv /\ [Rows!Next]_(Rows!vars)
    BY SceneStep DEF FilesInv
  <2> QED BY <2>1, RowsInvStep
<1> QED BY <1>1, FilesInvAlways, PTL DEF SceneSpec, RowsKept

(* However many calls append and rotate while a reader reads: its result   *)
(* has every row that was there when it began, and has twice only rows of  *)
(* a file that was rotated and has outgrown its old size.                  *)
THEOREM SnapshotsAreSound == SceneSpec => []SnapshotSound
BY FilesInvAlways, FilesInvImplies, PTL

(* With one writer the calls of emit implement calls that run in one step. *)
THEOREM SoloEmitIsAtomic == SceneSpec => EmitIsAtomic
<1>1. FilesInv /\ [SceneNext]_allVars => [scene = "writer" => [Atomic!Next]_log]_allVars
  BY SceneStep, SoloInvStep DEF FilesInv
<1> QED BY <1>1, FilesInvAlways, PTL DEF SceneSpec, EmitIsAtomic
-----------------------------------------------------------------------------
(* A step of a scene's lock file is a step of the lock that the whole      *)
(* shows, or leaves it alone; so is one of the second lock.                *)
LEMMA AdvisoryStep ==
  ASSUME FilesInv, [SceneNext]_allVars
  PROVE  [Advisory!Next]_(Advisory!vars)
<1>1. scene' = scene
  BY SceneStep
<1>2. SuitesApart /\ Nobody \notin Processes /\ Here \in Suites!Files
  BY FilesAssumption DEF SuitesApart, Suites!Files
<1>3. CASE scene = "supervisor"
  <2>1. [Supervisor!Advisory!Next]_(Supervisor!Advisory!vars)
    BY <1>2, <1>3, SceneStep, SupervisorAdvisoryStep DEF FilesInv
  <2>2. Holders = Supervisor!Holders /\ Holders' = Supervisor!Holders'
    BY <1>1, <1>3 DEF Holders
  <2> QED
    BY <1>1, <1>3, <2>1, <2>2
       DEF Advisory!Next, Advisory!vars, Advisory!Acquire, Advisory!Leave,
           Supervisor!Advisory!Next, Supervisor!Advisory!vars,
           Supervisor!Advisory!Acquire, Supervisor!Advisory!Leave
<1>4. CASE scene = "session"
  <2>1. [Session!Advisory!Next]_(Session!Advisory!vars)
    BY <1>2, <1>4, SceneStep, SessionAdvisoryStep DEF FilesInv
  <2>2. Holders = Session!Holders /\ Holders' = Session!Holders'
    BY <1>1, <1>4 DEF Holders
  <2> QED
    BY <1>1, <1>4, <2>1, <2>2
       DEF Advisory!Next, Advisory!vars, Advisory!Acquire, Advisory!Leave,
           Session!Advisory!Next, Session!Advisory!vars,
           Session!Advisory!Acquire, Session!Advisory!Leave
<1>5. CASE scene = "artifact"
  <2>1. [Artifact!Advisory!Next]_(Artifact!Advisory!vars)
    BY <1>2, <1>5, SceneStep, ArtifactAdvisoryStep DEF FilesInv
  <2>2. Holders = Artifact!Holders /\ Holders' = Artifact!Holders'
    BY <1>1, <1>5 DEF Holders
  <2> QED
    BY <1>1, <1>5, <2>1, <2>2
       DEF Advisory!Next, Advisory!vars, Advisory!Acquire, Advisory!Leave,
           Artifact!Advisory!Next, Artifact!Advisory!vars,
           Artifact!Advisory!Acquire, Artifact!Advisory!Leave
<1>6. CASE scene = "suites"
  <2>1. [Suites!Shared(Here)!Next]_(Suites!Shared(Here)!vars)
    BY <1>2, <1>6, SceneStep, SharedStep DEF FilesInv
  <2>2. Holders = Suites!Holders(Here) /\ Holders' = Suites!Holders(Here)'
    BY <1>1, <1>6 DEF Holders
  <2> QED
    BY <1>1, <1>6, <2>1, <2>2
       DEF Advisory!Next, Advisory!vars, Advisory!Acquire, Advisory!Leave,
           Suites!Shared!Next, Suites!Shared!vars,
           Suites!Shared!Acquire, Suites!Shared!Leave
<1>7. CASE scene \in { "rotation", "writer", "scorecard", "approvals" }
  <2>1. causes' = causes
    BY <1>7, SceneStep
  <2>2. Holders' = Holders
    BY <1>1, <1>7 DEF Holders
  <2> QED BY <1>1, <1>7, <2>1, <2>2 DEF Advisory!vars
<1> QED BY <1>3, <1>4, <1>5, <1>6, <1>7 DEF FilesInv

LEMMA SecondStep ==
  ASSUME FilesInv, [SceneNext]_allVars
  PROVE  [Second!Next]_(Second!vars)
<1>1. scene' = scene
  BY SceneStep
<1>2. SuitesApart /\ Nobody \notin Processes /\ Common \in Suites!Files
  BY FilesAssumption DEF SuitesApart, Suites!Files
<1>3. CASE scene = "session"
  <2>1. [Session!Takeovers!Next]_(Session!Takeovers!vars)
    BY <1>2, <1>3, SceneStep, TakeoverStep DEF FilesInv
  <2>2. SecondHolders = Session!Takers /\ SecondHolders' = Session!Takers'
    BY <1>1, <1>3 DEF SecondHolders
  <2> QED
    BY <1>1, <1>3, <2>1, <2>2
       DEF Second!Next, Second!vars, Second!Acquire, Second!Leave,
           Session!Takeovers!Next, Session!Takeovers!vars,
           Session!Takeovers!Acquire, Session!Takeovers!Leave
<1>4. CASE scene = "suites"
  <2>1. [Suites!Shared(Common)!Next]_(Suites!Shared(Common)!vars)
    BY <1>2, <1>4, SceneStep, SharedStep DEF FilesInv
  <2>2. /\ SecondHolders = Suites!Holders(Common)
        /\ SecondHolders' = Suites!Holders(Common)'
    BY <1>1, <1>4 DEF SecondHolders
  <2> QED
    BY <1>1, <1>4, <2>1, <2>2
       DEF Second!Next, Second!vars, Second!Acquire, Second!Leave,
           Suites!Shared!Next, Suites!Shared!vars,
           Suites!Shared!Acquire, Suites!Shared!Leave
<1>5. CASE scene \notin { "session", "suites" }
  BY <1>1, <1>5 DEF Second!vars, SecondHolders
<1> QED BY <1>3, <1>4, <1>5

LEMMA AdvisoryInit ==
  ASSUME SceneInit
  PROVE  Advisory!Init /\ Second!Init
<1>1. /\ scene = "supervisor" => Supervisor!Init
      /\ scene = "session" => Session!Init
      /\ scene = "artifact" => Artifact!Init
      /\ scene = "suites" => Suites!Init
      /\ scene \in { "rotation", "writer", "scorecard", "approvals" } => causes = {}
      /\ scene \in { "rotation", "writer", "supervisor", "session", "artifact",
                     "scorecard", "approvals", "suites" }
  BY DEF SceneInit, NoFiles, NoLocks
<1>2. CASE scene = "supervisor"
  BY <1>1, <1>2 DEF Advisory!Init, Second!Init, Holders, SecondHolders,
     Supervisor!Init, Supervisor!Holders
<1>3. CASE scene = "session"
  BY <1>1, <1>3 DEF Advisory!Init, Second!Init, Holders, SecondHolders,
     Session!Init, Session!Holders, Session!Takers
<1>4. CASE scene = "artifact"
  BY <1>1, <1>4 DEF Advisory!Init, Second!Init, Holders, SecondHolders,
     Artifact!Init, Artifact!Holders
<1>5. CASE scene = "suites"
  BY <1>1, <1>5 DEF Advisory!Init, Second!Init, Holders, SecondHolders,
     Suites!Init, Suites!Holders, Suites!Owns, Suites!Broken
<1>6. CASE scene \in { "rotation", "writer", "scorecard", "approvals" }
  BY <1>1, <1>6 DEF Advisory!Init, Second!Init, Holders, SecondHolders
<1> QED BY <1>1, <1>2, <1>3, <1>4, <1>5, <1>6

(* Every lock file implements AdvisoryLock, for any number of processes,   *)
(* attempts and worktrees: two hold it at once only after it was taken     *)
(* from a process that lives.                                              *)
THEOREM LocksAreAdvisory == SceneSpec => IsAdvisory
<1>1. SceneInit => Advisory!Init /\ Second!Init
  BY AdvisoryInit
<1>2. FilesInv /\ [SceneNext]_allVars
        => [Advisory!Next]_(Advisory!vars) /\ [Second!Next]_(Second!vars)
  BY AdvisoryStep, SecondStep
<1> QED BY <1>1, <1>2, FilesInvAlways, PTL
        DEF SceneSpec, IsAdvisory, Advisory!Spec, Second!Spec

LEMMA WholeStep ==
  ASSUME FilesInv, [SceneNext]_allVars
  PROVE  [Whole!Next]_(Whole!vars)
<1>1. scene' = scene
  BY SceneStep
<1>2. CASE scene = "artifact"
  <2>1. [Artifact!Save!Next]_(Artifact!Save!vars)
    BY <1>2, SceneStep, SaveStep, FilesAssumption DEF FilesInv
  <2> QED
    BY <1>1, <1>2, <2>1
       DEF Whole!Next, Whole!vars, Whole!Load, Whole!Save,
           Artifact!Save!Next, Artifact!Save!vars, Artifact!Save!Load,
           Artifact!Save!Save
<1>3. CASE scene # "artifact"
  BY <1>1, <1>3 DEF Whole!vars
<1> QED BY <1>2, <1>3

(* write_artifact_atomic implements a save in one step until the lock of a *)
(* live writer was broken.                                                 *)
THEOREM SavesAreAtomic == SceneSpec => SaveIsAtomic
<1>1. SceneInit => Whole!Init
  <2> SUFFICES ASSUME SceneInit PROVE Whole!Init
    OBVIOUS
  <2>1. scene = "artifact" => Artifact!Init
    BY DEF SceneInit
  <2>2. CASE scene = "artifact"
    BY <2>1, <2>2 DEF Whole!Init, Artifact!Init
  <2>3. CASE scene # "artifact"
    BY <2>3 DEF Whole!Init
  <2> QED BY <2>2, <2>3
<1>2. FilesInv /\ [SceneNext]_allVars => [Whole!Next]_(Whole!vars)
  BY WholeStep
<1> QED BY <1>1, <1>2, FilesInvAlways, PTL DEF SceneSpec, SaveIsAtomic, Whole!Spec
==============================================================================
