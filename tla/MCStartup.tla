----------------------------- MODULE MCStartup -----------------------------
(***************************************************************************)
(* Startup with the partition starts of MCStorage; 10 stands for the       *)
(* initial critical section count, which no sequence of calls brings to 0. *)
(***************************************************************************)
EXTENDS Startup

MCStarts == {63, 100}
=============================================================================
