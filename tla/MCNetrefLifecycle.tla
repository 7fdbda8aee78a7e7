------------------------- MODULE MCNetrefLifecycle -------------------------
(* TLC instance of NetrefLifecycle: interchangeable objects.               *)
EXTENDS NetrefLifecycle, TLC

Symmetry == Permutations(Objs)

=============================================================================
