-------------------------- MODULE MCFlightControl --------------------------
(* FlightControl with stick positions for TLC.                             *)
EXTENDS FlightControl

DisarmStick   == [low |-> TRUE, flap |-> "on", gear |-> "mid"]
DisarmAngle   == [low |-> TRUE, flap |-> "on", gear |-> "on"]
ArmStick      == [low |-> TRUE, flap |-> "off", gear |-> "mid"]
ArmRate       == [low |-> TRUE, flap |-> "off", gear |-> "off"]
FlyStick      == [low |-> FALSE, flap |-> "off", gear |-> "on"]

\* Two positions, the gear moving with the flap: both latches change.
TwoSticks   == {DisarmAngle, ArmRate}
\* The gear stays in the middle: only flight mode requests.
PlainSticks == {DisarmStick, ArmStick, FlyStick}
\* Only the flap moves.
FlapSticks  == {DisarmStick, ArmStick}
AllGsModes  == {"init", "config", "arming", "disarming"}
\* Enough to disturb the pilot on the ground and in the air.
SomeGsModes == {"config", "arming"}
=============================================================================
