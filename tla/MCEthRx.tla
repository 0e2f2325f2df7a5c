------------------------------ MODULE MCEthRx ------------------------------
(***************************************************************************)
(* EthRx with a ring of two or three descriptors and more frames than it,  *)
(* the mailbox and the pbuf pool hold, while another thread transmits.     *)
(***************************************************************************)
EXTENDS EthRx
=============================================================================
