-------------------------- MODULE MCFailsafeHttpd --------------------------
(* FailsafeHttpd and its refinement on small instances. *)
EXTENDS FailsafeRefinement, TLC

ConnSymmetry == Permutations(Conn)

\* What follows a stale read cannot violate ReentryOnly.
NotTaken == ~taken
=============================================================================
