----------------------------- MODULE MCRotation -----------------------------
(***************************************************************************)
(* Model values for Coordinator with one device that rotates its address.  *)
(***************************************************************************)
EXTENDS CoordinatorProperties, TLC

CONSTANTS id, r1, r2

OneDevice == [r \in {r1, r2} |-> id]

Rotations == Permutations({r1, r2})

=============================================================================
