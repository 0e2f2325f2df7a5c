--------------------------- MODULE FrameChannel ---------------------------
(***************************************************************************)
(* What either direction of the Ethernet driver promises the layer above,  *)
(* without rings, semaphores or locks: a queue that may lose frames.       *)
(* Frames are numbered as they enter; those under way may be lost, but     *)
(* what comes out comes out in order, each frame at most once, and no      *)
(* frame that never entered.                                               *)
(***************************************************************************)
EXTENDS Naturals, Sequences

CONSTANT MaxFrames   \* bound: frames that enter

VARIABLES
  entered,  \* frames that have entered
  pending,  \* those under way
  out       \* those that came out, in order

vars == <<entered, pending, out>>

Init == entered = 0 /\ pending = {} /\ out = << >>

\* A frame enters the queue, or finds no place in it.
Accept ==
  /\ entered < MaxFrames /\ entered' = entered + 1
  /\ pending' \in {pending, pending \cup {entered'}}
  /\ UNCHANGED out

Lose ==
  /\ \E f \in pending : pending' = pending \ {f}
  /\ UNCHANGED <<entered, out>>

\* The oldest frame under way comes out.
Deliver ==
  /\ \E f \in pending : /\ \A g \in pending : f <= g
                        /\ pending' = pending \ {f} /\ out' = Append(out, f)
  /\ UNCHANGED entered

Next == Accept \/ Lose \/ Deliver

Spec == Init /\ [][Next]_vars
=============================================================================
