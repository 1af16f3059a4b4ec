---------------------------- MODULE MCEventMesh ----------------------------
(* The tasks that differ: the main task, which announces its modes to       *)
(* everyone and is asked for them, another subscriber, the two ends of the  *)
(* link, and the log.                                                       *)
EXTENDS EventMesh, TLC

CONSTANTS ctrl, rx, tx, led, log, FlightMode, FlightModeReq, Transmission, AppLogMsg

S(by, type, to) == [by |-> by, type |-> type, to |-> to]

MCOrder == <<ctrl, rx, tx, led, log>>
MCTypes == {FlightMode, FlightModeReq, Transmission, AppLogMsg}
MCSubs == (ctrl :> {FlightMode, FlightModeReq}) @@ (rx :> {}) @@ (tx :> {Transmission})
          @@ (led :> {FlightMode}) @@ (log :> {AppLogMsg})
MCOccasions == {S(ctrl, FlightMode, Everyone), S(rx, FlightModeReq, FC),
                S(rx, Transmission, tx), S(rx, Transmission, GS)}
MCReplies == {S(ctrl, FlightMode, Everyone), S(tx, AppLogMsg, log)}
=============================================================================
