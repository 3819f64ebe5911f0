----------------------------- MODULE JobStatus -----------------------------
(***************************************************************************)
(* What a reader of one job's record may observe (internal/job, the        *)
(* contract of store.UpdateJob): the record is created once, advances      *)
(* through the launch in order, may start running from any status that is  *)
(* not terminal, is settled once, and keeps a cancel request.  Nothing is  *)
(* said of who writes it or how the store makes an update atomic.          *)
(***************************************************************************)
EXTENDS Job

VARIABLE record

Init == record = NoJob

Create == record = NoJob /\ record' = NewJob

\* queued -> launching -> awaiting_harness
Advance ==
    \E step \in {<<"queued", "launching">>, <<"launching", "awaiting_harness">>} :
        /\ record.status = step[1]
        /\ record' = [record EXCEPT !.status = step[2]]

Run ==
    /\ record # NoJob /\ ~Terminal(record.status)
    /\ record' = [record EXCEPT !.status = "running"]

Settle(status, stopReason) ==
    /\ record # NoJob /\ ~Terminal(record.status)
    /\ Terminal(status)
    /\ record' \in {[status |-> status, stopReason |-> stopReason,
                     finished |-> TRUE, cancelRequested |-> asked] :
                       asked \in {record.cancelRequested, TRUE}}

Ask ==
    /\ record # NoJob
    /\ record' = [record EXCEPT !.cancelRequested = TRUE]

Next ==
    \/ Create \/ Advance \/ Run \/ Ask
    \/ \E status \in Statuses, stopReason \in StopReasons \cup {"none"} : Settle(status, stopReason)

Spec == Init /\ [][Next]_record

=============================================================================
