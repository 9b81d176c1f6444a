----------------------------- MODULE AtomicBus ------------------------------
(***************************************************************************)
(* What emit promises a caller: an append-only log to which each call adds *)
(* one record or nothing, decided on the log as it is at that instant.     *)
(***************************************************************************)
EXTENDS BusRules

CONSTANT Requests   \* the calls of emit that may be made

VARIABLE log

Init == log = << >>

Emit(r) == /\ ~Refused(log, r)
           /\ r.type = "CONTRACT_GAP" => ~GapRecorded(log, r)
           /\ log' = Append(log, Stamp(r, LastSeq(log) + 1))

Next == \E r \in Requests : Emit(r)

Spec == Init /\ [][Next]_log
=============================================================================
