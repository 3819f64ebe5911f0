----------------------------- MODULE MCJobStore -----------------------------
(* Two jobs, one client, one update, one write, and pages of one job: small  *)
(* enough to check, and enough for a deletion on either side of a page       *)
(* boundary.                                                                 *)
EXTENDS JobStore, TLC

MCRequested == {-1, 1, 3}
=============================================================================
