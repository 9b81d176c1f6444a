------------------------------ MODULE MCRequeue ------------------------------
(***************************************************************************)
(* Values of the constants of Requeue for TLC.                             *)
(***************************************************************************)
EXTENDS Requeue

Supervisor == { "supervisor" }
Bridge == { "bridge" }
Nobody == { }

Budget(n, c, e, o, r, v) ==
  [ rejections |-> n, crashes |-> c, expiries |-> e, closes |-> o, reopens |-> r,
    visits |-> v ]

(* The supervisor alone: killed, with claims that get stale, and with a    *)
(* ticket that is closed and reopened.                                     *)
Alone == { Budget(2, 1, 1, 0, 0, 0), Budget(1, 2, 1, 1, 1, 0),
           Budget(2, 0, 0, 1, 1, 0) }
(* Supervisor and bridge at once. *)
Visited == { Budget(2, 0, 0, 0, 0, 1), Budget(1, 1, 0, 0, 0, 2),
             Budget(1, 0, 1, 0, 0, 2), Budget(1, 0, 0, 1, 0, 1) }
(* A kill and a claim older than its TTL. *)
Expired == Budget(1, 1, 1, 0, 0, 2)
(* Nothing happens to the supervisor. *)
Quiet == Budget(1, 0, 0, 0, 0, 0)

Scenes == Alone \cup Visited
ExpiredScene == { Expired }
QuietScene == { Quiet }
=============================================================================
