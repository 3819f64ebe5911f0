-------------------------------- MODULE Job --------------------------------
(***************************************************************************)
(* The persisted job record (internal/job) and the functions that the      *)
(* handlers pass to store.UpdateJob.  Every definition here is a pure      *)
(* function of a record; who applies it, and when, is JobLifecycle.        *)
(*                                                                         *)
(* Data is abstracted to what the properties tell apart: FinishedAt is     *)
(* only "set or not", StopReason is one of four values ("none" when it is  *)
(* empty); Error, FinalText, StartedAt and LastEventAt, which no handler   *)
(* branches on, are left out.                                              *)
(*                                                                         *)
(* A definition directly above another one with the same parameters, here  *)
(* and in JobLifecycle, is a faulty variant of it: PROJECT.json names the  *)
(* property that tells the two apart.                                      *)
(***************************************************************************)

Statuses == {"queued", "launching", "awaiting_harness", "running",
             "succeeded", "failed", "cancelled"}

\* Status.Terminal
Terminal(status) == status \in {"succeeded", "failed", "cancelled"}

\* done.stop_reason: the two values the code tells apart and any other one.
StopReasons == {"success", "cancelled", "error"}

\* StatusForStopReason
StatusForStopReason(stopReason) ==
    CASE stopReason = "success"   -> "succeeded"
      [] stopReason = "cancelled" -> "cancelled"
      [] OTHER                    -> "failed"

JobRecord == [status          : Statuses,
              stopReason      : StopReasons \cup {"none"},
              finished        : BOOLEAN,     \* FinishedAt is set
              cancelRequested : BOOLEAN]

\* What Submit hands to CreateJob.
NewJob == [status |-> "queued", stopReason |-> "none",
           finished |-> FALSE, cancelRequested |-> FALSE]

\* No record in the store; also "no transaction in progress".
NoJob == [NewJob EXCEPT !.status = "none"]

-----------------------------------------------------------------------------
(***************************************************************************)
(* The closures of UpdateJob, one per call site, named by the location of  *)
(* the handler that calls it.  A closure may abort the transaction (Go:    *)
(* errNoUpdate), may return the record unchanged, or may change it.        *)
(***************************************************************************)

\* The call sites whose closure starts with
\*     if j.Status.Terminal() { return errNoUpdate }
AbortsButRunning == {"fail_job", "finalise_cancelled", "finish", "close_unfinished"}
AbortsButFinish == {"mark_running", "fail_job", "finalise_cancelled", "close_unfinished"}
AbortsOnTerminal ==
    {"mark_running", "fail_job", "finalise_cancelled", "finish", "close_unfinished"}

Aborts(site, j) == site \in AbortsOnTerminal /\ Terminal(j.status)

\* Service.transition(from, to)
TransitionBlind(j, from, to) ==
    [j EXCEPT !.status = to, !.finished = @ \/ Terminal(to)]
Transition(j, from, to) ==
    IF j.status # from
    THEN j
    ELSE [j EXCEPT !.status = to, !.finished = @ \/ Terminal(to)]

MarkRunning(j) == [j EXCEPT !.status = "running"]

FailJobUnfinished(j) == [j EXCEPT !.status = "failed"]
FailJob(j) == [j EXCEPT !.status = "failed", !.finished = TRUE]

FinaliseCancelled(j) ==
    [j EXCEPT !.status     = "cancelled",
              !.stopReason = IF @ = "none" THEN "cancelled" ELSE @,
              !.finished   = TRUE]

\* eventPump.finish with done.stop_reason = reason
Finish(j, reason) ==
    [j EXCEPT !.status     = StatusForStopReason(reason),
              !.stopReason = reason,
              !.finished   = TRUE]

CloseUnfinishedFails(j) == FailJob(j)
CloseUnfinished(j) ==
    IF j.cancelRequested THEN FinaliseCancelled(j) ELSE FailJob(j)

RequestCancel(j) == [j EXCEPT !.cancelRequested = TRUE]

CancelUnassigned(j) ==
    IF Terminal(j.status)
    THEN j
    ELSE [j EXCEPT !.status = "cancelled", !.cancelRequested = TRUE, !.finished = TRUE]

FailStuckLaunching(j) == IF j.status = "launching" THEN FailJob(j) ELSE j
FailStuckHarness(j) == IF j.status = "awaiting_harness" THEN FailJob(j) ELSE j

\* The calls of UpdateJob.
UpdateSites == {"to_launching", "to_failed", "to_awaiting",           \* Service.transition
                "mark_running", "fail_job", "finalise_cancelled",     \* Handler.runTask
                "touch", "finish", "close_unfinished",                \* eventPump
                "request_cancel", "cancel_unassigned",                \* Service.Cancel
                "fail_stuck"}                                         \* Reaper

\* What the closure at site makes of j when it does not abort.  touch is
\* maybeFlushLastEventAt, which writes nothing but LastEventAt.
Apply(site, stopReason, j) ==
    CASE site = "to_launching"       -> Transition(j, "queued", "launching")
      [] site = "to_failed"          -> Transition(j, "launching", "failed")
      [] site = "to_awaiting"        -> Transition(j, "launching", "awaiting_harness")
      [] site = "mark_running"       -> MarkRunning(j)
      [] site = "fail_job"           -> FailJob(j)
      [] site = "finalise_cancelled" -> FinaliseCancelled(j)
      [] site = "finish"             -> Finish(j, stopReason)
      [] site = "close_unfinished"   -> CloseUnfinished(j)
      [] site = "request_cancel"     -> RequestCancel(j)
      [] site = "cancel_unassigned"  -> CancelUnassigned(j)
      [] site = "fail_stuck"         -> FailStuckHarness(j)
      [] OTHER                       -> j

=============================================================================
