--------------------------- MODULE MCPermissions ---------------------------
(* Model checking of Permissions. *)
EXTENDS Permissions, TLC

\* Requests, and operators, are interchangeable.
Symmetry == Permutations(Requests) \cup Permutations(Operators)

=============================================================================
