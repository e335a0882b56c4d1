------------------------------ MODULE MCStore -------------------------------
(* Store with two interchangeable threads. *)
EXTENDS Store, TLC

ThreadSymmetry == Permutations(Thread)

=============================================================================
