---------------------------- MODULE MCMqttClient ----------------------------
(***************************************************************************)
(* MqttClient with a broker that publishes at every quality of service.    *)
(* With two identifiers on the wire the third subscription meets the wrap  *)
(* of PacketID.  A connection that gets as far as SUBSCRIBE takes one      *)
(* PacketID, so MaxSessions bounds those connections.  Three messages are  *)
(* needed for a QoS 0 message to come between two QoS 2 messages, with     *)
(* their releases in either order.                                         *)
(***************************************************************************)
EXTENDS MqttClient

MCLevels == 0..2
=============================================================================
