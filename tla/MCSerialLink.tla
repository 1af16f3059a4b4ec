---------------------------- MODULE MCSerialLink ----------------------------
(* SerialLink with the kinds of messages for TLC.                          *)
EXTENDS SerialLink

\* A mode announcement, and an answer to the ground station.
FcMessages == {[dst |-> "BC", ack |-> TRUE], [dst |-> "GS", ack |-> TRUE]}
GsMessages == {[dst |-> "FC", ack |-> TRUE]}
=============================================================================
