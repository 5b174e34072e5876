---------------------------- MODULE MCCoordinator ----------------------------
(***************************************************************************)
(* Model values for Coordinator with devices of fixed address.             *)
(***************************************************************************)
EXTENDS CoordinatorProperties, TLC

CONSTANTS a, b, h1, h2, c1, c2

NoRpa == [r \in {} |-> a]

\* Devices, handles and clients are only compared for equality.
Interchangeable ==
  Permutations({a, b}) \cup Permutations({h1, h2}) \cup Permutations({c1, c2})

=============================================================================
