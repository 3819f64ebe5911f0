------------------------------ MODULE MCWatch ------------------------------
(* Model checking of Watch: three events, a cap of two, one client that may  *)
(* reconnect twice.  Clients do not interact, so one of them is enough.      *)
EXTENDS Watch, TLC
=============================================================================
