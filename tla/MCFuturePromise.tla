-------------------------- MODULE MCFuturePromise --------------------------
(* A small instance of FuturePromise: addresses are interchangeable.       *)
EXTENDS FuturePromise, TLC

Symmetry == Permutations(PA) \cup Permutations(FA) \cup Permutations(TA)
============================================================================
