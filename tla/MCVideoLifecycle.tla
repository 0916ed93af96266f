-------------------------- MODULE MCVideoLifecycle --------------------------
(* VideoLifecycle on small instances. *)
EXTENDS VideoLifecycle, TLC

\* Runs and requests are interchangeable; not used with liveness.
Symmetry == Permutations(Procs) \cup Permutations(Callers) \cup Permutations(Deleters)
=============================================================================
