------------------------- MODULE MCUpgradeTransfer -------------------------
(***************************************************************************)
(* UpgradeTransfer with images of one to four bytes.  The last byte of     *)
(* TrickyImages, sent as a chunk of its own, is the "u" with which         *)
(* "update finish" begins.  No image has it elsewhere: there a chunk may   *)
(* also be taken for the start command of an earlier packet.               *)
(***************************************************************************)
EXTENDS UpgradeTransfer

PlainImages  == {<<8, 2, 1, 3>>, <<1, 8>>, <<2>>}
TrickyImages == {<<8, 1, 5>>}
AllImages    == PlainImages \cup TrickyImages
NoPackets    == {}
DigitBytes   == {1, 2, 3, 4}

\* The images of every run are among those the theorems are about.
ASSUME ImagesAssumption == UpdateOnlyAtEnd /\ NoStart
=============================================================================
