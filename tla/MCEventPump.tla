---------------------------- MODULE MCEventPump ----------------------------
(* Model checking of EventPump. *)
EXTENDS EventPump, TLC

=============================================================================
