----------------------------- MODULE MCUpgrade -----------------------------
(***************************************************************************)
(* Upgrade with small packets.  MixedPackets holds an announcement of an   *)
(* empty image, a data packet, the finish command, the empty packet, which *)
(* strncmp with length 0 takes for the finish command too, and a packet of *)
(* five bytes that packet_buffer cannot hold and whose body reads as a     *)
(* header and a packet.                                                    *)
(***************************************************************************)
EXTENDS Upgrade

MixedPackets == {<<3, 4, 0>>, <<6>>, <<3, 5>>, << >>, <<1, 0, 0, 0, 6>>}
DigitBytes == {1, 2}
=============================================================================
