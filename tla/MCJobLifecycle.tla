--------------------------- MODULE MCJobLifecycle ---------------------------
(* Model checking of JobLifecycle. *)
EXTENDS JobLifecycle, TLC

=============================================================================
