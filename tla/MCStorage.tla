----------------------------- MODULE MCStorage -----------------------------
(***************************************************************************)
(* Storage with two places a partition may start at, so that an entry may  *)
(* follow the one f_mkfs would write, and every partition table over them. *)
(* The volume f_mkfs lays out has a FAT and a root directory sector.  One  *)
(* reset shows a format cut short; the second meets the boot after it.     *)
(***************************************************************************)
EXTENDS Storage

MCStarts == {63, 100}
=============================================================================
