------------------------------ MODULE MCKernel ------------------------------
(***************************************************************************)
(* Model-checking instance of Kernel: an idle thread and three others.     *)
(***************************************************************************)
EXTENDS Kernel

CONSTANTS t1, t2, t3, m1, m2

Symmetry == Permutations({t1, t2, t3}) \union Permutations({m1, m2})

(* With two of three threads gone nothing is left to happen between threads. *)
FewDestroyed == Cardinality({t \in Threads : k.state[t] = "destroyed"}) <= 1
=============================================================================
