------------------------------ MODULE MCEdgeFsm ------------------------------
(* Instances of EdgeFsm for TLC. *)
EXTENDS EdgeFsm, TLC

\* No definition of the model tells two hubs apart.
Symmetry == Permutations(Hubs)
=============================================================================
