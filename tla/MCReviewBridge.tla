--------------------------- MODULE MCReviewBridge ---------------------------
(***************************************************************************)
(* Values of the constants of ReviewBridge for TLC.                        *)
(***************************************************************************)
EXTENDS ReviewBridge

Begun == << Change("IN_PROGRESS") >>

Closed ==
  << Change("IN_PROGRESS"), Change("READY_FOR_REVIEW"), Decision("approve"),
     Change("READY_TO_CLOSE") >> \o Closing

Left(commands, kills, timeouts, bridges) ==
  [ commands |-> commands, kills |-> kills, timeouts |-> timeouts,
    bridges |-> bridges ]

(* One bridge and everything else; two bridges; a reopened ticket.         *)
MCBeginnings ==
  { [ log |-> Begun, left |-> Left(3, 1, 1, 0) ],
    [ log |-> Begun, left |-> Left(1, 1, 0, 1) ],
    [ log |-> Closed, left |-> Left(2, 0, 0, 0) ] }

MCBegun == { [ log |-> Begun, left |-> Left(2, 0, 0, 0) ] }

MCClosed == { [ log |-> Closed, left |-> Left(2, 0, 0, 0) ] }
=============================================================================
