------------------------------ MODULE MCSched -------------------------------
(***************************************************************************)
(* Model-checking instances of Sched.                                      *)
(***************************************************************************)
EXTENDS Sched

CONSTANTS a1, a2, g, b

(* The frame's main task, and a post-processing task that ends it. *)
MCFrame == <<g, b>>
=============================================================================
