-------------------------- MODULE FirmwareTransfer --------------------------
(***************************************************************************)
(* What a firmware transfer promises, without packets, buffers or FatFs:   *)
(* the stored bytes are always a beginning of the image the server holds,  *)
(* and the transfer is done only when they are the whole image.  A crash   *)
(* forgets the transfer, and the next one starts from its beginning.       *)
(***************************************************************************)
EXTENDS Naturals, Sequences

VARIABLES
  image,    \* the firmware image on the server
  phase,    \* "none", "receiving" or "done"
  stored    \* the bytes written so far

vars == <<image, phase, stored>>

Init == phase = "none" /\ stored = << >>

\* A new transfer truncates what an earlier one stored.
Begin == phase = "none" /\ phase' = "receiving" /\ stored' = << >>

Extend ==
  /\ phase = "receiving"
  /\ \E n \in Len(stored) + 1 .. Len(image) : stored' = SubSeq(image, 1, n)
  /\ UNCHANGED phase

Complete ==
  /\ phase = "receiving" /\ stored = image
  /\ phase' = "done" /\ UNCHANGED stored

Leave == phase # "none" /\ phase' = "none" /\ UNCHANGED stored

Crash == phase' = "none" /\ stored' = << >>

Next == (Begin \/ Extend \/ Complete \/ Leave \/ Crash) /\ UNCHANGED image

Spec == Init /\ [][Next]_vars
=============================================================================
