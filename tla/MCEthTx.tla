------------------------------ MODULE MCEthTx ------------------------------
(***************************************************************************)
(* EthTx with two or three threads and two descriptors.                    *)
(***************************************************************************)
EXTENDS EthTx

CONSTANTS tcpip, mqtt, bootstrap
AllThreads == {tcpip, mqtt, bootstrap}
ApiThreads == {tcpip, mqtt}
=============================================================================
