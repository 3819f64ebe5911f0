--------------------------- MODULE MCTokenIssuer ---------------------------
(* Model checking of TokenIssuer. *)
EXTENDS TokenIssuer, TLC

=============================================================================
