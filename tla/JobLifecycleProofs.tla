------------------------- MODULE JobLifecycleProofs -------------------------
(***************************************************************************)
(* Proofs about JobLifecycle, for any number of streams and cancellations, *)
(* any retry bound, any number of failing store calls and crashes, and     *)
(* either store; three of the theorems are about the in-memory store.      *)
(***************************************************************************)
EXTENDS JobLifecycle, TLAPS

USE DEF Terminal, Statuses, StopReasons, JobRecord

-----------------------------------------------------------------------------
(***************************************************************************)
(* The closures of UpdateJob                                               *)
(***************************************************************************)

\* k is a settled record that succeeds j.
Settles(j, k) ==
    \E status \in Statuses, reas \in StopReasons \cup {"none"}, asked \in {j.cancelRequested, TRUE} :
        /\ Terminal(status)
        /\ k = [status |-> status, stopReason |-> reas,
                finished |-> TRUE, cancelRequested |-> asked]

\* What a closure can make of j: nothing; one of the two launch steps;
\* running; a settled record; or the cancel request.
Effect(j, k) ==
    \/ k = j
    \/ j.status = "queued" /\ k = [j EXCEPT !.status = "launching"]
    \/ j.status = "launching" /\ k = [j EXCEPT !.status = "awaiting_harness"]
    \/ ~Terminal(j.status) /\ k = [j EXCEPT !.status = "running"]
    \/ ~Terminal(j.status) /\ Settles(j, k)
    \/ k = [j EXCEPT !.cancelRequested = TRUE]

\* A job record from its four fields.
RecordOf(st, re, fi, cr) ==
    [status |-> st, stopReason |-> re, finished |-> fi, cancelRequested |-> cr]

\* A job record is made of its four fields.
LEMMA RecordFields ==
    ASSUME NEW j \in JobRecord
    PROVE  \E st \in Statuses, re \in StopReasons \cup {"none"}, fi \in BOOLEAN, cr \in BOOLEAN :
              /\ j = RecordOf(st, re, fi, cr)
              /\ j.status = st /\ j.stopReason = re /\ j.cancelRequested = cr
  <1>1. /\ j = RecordOf(j.status, j.stopReason, j.finished, j.cancelRequested)
        /\ j.status \in Statuses /\ j.stopReason \in StopReasons \cup {"none"}
        /\ j.finished \in BOOLEAN /\ j.cancelRequested \in BOOLEAN
    BY DEF RecordOf
  <1> QED
    BY <1>1, Zenon

\* Settling a job that is not settled is such an effect.
LEMMA SettlesEffect ==
    ASSUME NEW j \in JobRecord, ~Terminal(j.status),
           NEW status \in {"succeeded", "failed", "cancelled"},
           NEW reas \in StopReasons \cup {"none"}, NEW asked \in {j.cancelRequested, TRUE}
    PROVE  Effect(j, RecordOf(status, reas, TRUE, asked))
  <1> DEFINE k == RecordOf(status, reas, TRUE, asked)
  <1>1. status \in Statuses /\ Terminal(status)
    OBVIOUS
  <1>2. Settles(j, k)
    BY <1>1, Zenon DEF Settles, RecordOf
  <1> HIDE DEF k
  <1>3. Effect(j, k)
    BY <1>2 DEF Effect
  <1> QED
    BY <1>3 DEF k

\* So each closure that settles the job is such an effect.
LEMMA SettlingEffects ==
    ASSUME NEW j \in JobRecord, ~Terminal(j.status)
    PROVE  /\ Effect(j, FailJob(j))
           /\ Effect(j, FinaliseCancelled(j))
           /\ \A r \in StopReasons \cup {"none"} : Effect(j, Finish(j, r))
           /\ Effect(j, [j EXCEPT !.status = "cancelled", !.cancelRequested = TRUE, !.finished = TRUE])
  <1>1. PICK st \in Statuses, re \in StopReasons \cup {"none"}, fi \in BOOLEAN, cr \in BOOLEAN :
           /\ j = RecordOf(st, re, fi, cr)
           /\ j.status = st /\ j.stopReason = re /\ j.cancelRequested = cr
    BY RecordFields, Zenon
  <1> DEFINE x == IF j.stopReason = "none" THEN "cancelled" ELSE j.stopReason
  <1>2. /\ x \in StopReasons \cup {"none"}
        /\ cr \in {j.cancelRequested, TRUE} /\ TRUE \in {j.cancelRequested, TRUE}
        /\ \A r : StatusForStopReason(r) \in {"succeeded", "failed", "cancelled"}
    BY <1>1 DEF StatusForStopReason
  <1>3. \A status \in {"succeeded", "failed", "cancelled"}, reas \in StopReasons \cup {"none"},
            asked \in {j.cancelRequested, TRUE} : Effect(j, RecordOf(status, reas, TRUE, asked))
    BY SettlesEffect, Zenon
  <1>4. FinaliseCancelled(j) = [j EXCEPT !.status = "cancelled", !.stopReason = x, !.finished = TRUE]
    BY Zenon DEF FinaliseCancelled
  <1> HIDE DEF x, JobRecord, StopReasons, Statuses, Terminal
  <1>5. ASSUME NEW to
        PROVE  [j EXCEPT !.status = to] = RecordOf(to, re, fi, cr)
    BY <1>1 DEF RecordOf
  <1>6. Effect(j, FailJob(j))
    <2>1. ASSUME NEW to, NEW b
          PROVE  [j EXCEPT !.status = to, !.finished = b] = RecordOf(to, re, b, cr)
      <3>1. [RecordOf(to, re, fi, cr) EXCEPT !.finished = b] = RecordOf(to, re, b, cr)
        BY DEF RecordOf
      <3> QED
        BY <1>5, <3>1
    <2>2. FailJob(j) = RecordOf("failed", re, TRUE, cr)
      BY <2>1, Zenon DEF FailJob
    <2> QED
      BY <1>2, <1>3, <2>2, Zenon
  <1>7. ASSUME NEW to, NEW y, NEW b
        PROVE  [j EXCEPT !.status = to, !.stopReason = y, !.finished = b] = RecordOf(to, y, b, cr)
    <2>1. [RecordOf(to, re, fi, cr) EXCEPT !.stopReason = y] = RecordOf(to, y, fi, cr)
      BY DEF RecordOf
    <2>2. [RecordOf(to, y, fi, cr) EXCEPT !.finished = b] = RecordOf(to, y, b, cr)
      BY DEF RecordOf
    <2> QED
      BY <1>5, <2>1, <2>2
  <1>8. Effect(j, FinaliseCancelled(j))
    <2>1. FinaliseCancelled(j) = RecordOf("cancelled", x, TRUE, cr)
      BY <1>4, <1>7, Zenon
    <2> QED
      BY <1>2, <1>3, <2>1, Zenon
  <1>9. ASSUME NEW r \in StopReasons \cup {"none"}
        PROVE  Effect(j, Finish(j, r))
    <2>1. Finish(j, r) = RecordOf(StatusForStopReason(r), r, TRUE, cr)
      BY <1>7, Zenon DEF Finish
    <2> QED
      BY <1>2, <1>3, <2>1, Zenon
  <1>10. Effect(j, [j EXCEPT !.status = "cancelled", !.cancelRequested = TRUE, !.finished = TRUE])
    <2>1. ASSUME NEW to, NEW b, NEW c
          PROVE  [j EXCEPT !.status = to, !.cancelRequested = c, !.finished = b] = RecordOf(to, re, b, c)
      <3>1. [RecordOf(to, re, fi, cr) EXCEPT !.cancelRequested = c] = RecordOf(to, re, fi, c)
        BY DEF RecordOf
      <3>2. [RecordOf(to, re, fi, c) EXCEPT !.finished = b] = RecordOf(to, re, b, c)
        BY DEF RecordOf
      <3> QED
        BY <1>5, <3>1, <3>2
    <2>2. [j EXCEPT !.status = "cancelled", !.cancelRequested = TRUE, !.finished = TRUE]
             = RecordOf("cancelled", re, TRUE, TRUE)
      BY <2>1, Zenon
    <2> QED
      BY <1>2, <1>3, <2>2, Zenon
  <1> QED
    BY <1>6, <1>8, <1>9, <1>10, Zenon

\* Every closure that does not abort has such an effect (Job.Apply).
LEMMA ApplyEffect ==
    ASSUME NEW j \in JobRecord, NEW site, NEW r \in StopReasons \cup {"none"},
           ~Aborts(site, j)
    PROVE  Effect(j, Apply(site, r, j))
  <1>a. ~Terminal(j.status) => Effect(j, FailJob(j)) /\ Effect(j, FinaliseCancelled(j))
    BY SettlingEffects, Zenon
  <1>b. Effect(j, j)
    BY DEF Effect
  <1> USE DEF Aborts, AbortsOnTerminal
  <1>1. CASE site \in {"to_launching", "to_awaiting"}
    <2>1. \A to \in {"launching", "awaiting_harness"} :
             [j EXCEPT !.status = to, !.finished = @ \/ Terminal(to)] = [j EXCEPT !.status = to]
      <3>1. j = [status |-> j.status, stopReason |-> j.stopReason, finished |-> j.finished,
                 cancelRequested |-> j.cancelRequested] /\ j.finished \in BOOLEAN
        OBVIOUS
      <3>2. (j.finished \/ FALSE) = j.finished
        BY <3>1
      <3> QED  BY <3>1, <3>2
    <2>2. \A from \in {"queued", "launching"}, to \in {"launching", "awaiting_harness"} :
             Transition(j, from, to) =
                IF j.status # from THEN j ELSE [j EXCEPT !.status = to]
      BY <2>1 DEF Transition
    <2>3. CASE site = "to_launching"
      <3>1. Apply(site, r, j) = Transition(j, "queued", "launching")
        BY <2>3 DEF Apply
      <3> QED  BY <3>1, <2>2 DEF Effect
    <2>4. CASE site = "to_awaiting"
      <3>1. Apply(site, r, j) = Transition(j, "launching", "awaiting_harness")
        BY <2>4 DEF Apply
      <3> QED  BY <3>1, <2>2 DEF Effect
    <2> QED  BY <1>1, <2>3, <2>4
  <1>2. CASE site = "to_failed"
    <2>1. [j EXCEPT !.status = "failed", !.finished = @ \/ Terminal("failed")] = FailJob(j)
      BY DEF FailJob
    <2>2. Apply(site, r, j) = IF j.status # "launching" THEN j ELSE FailJob(j)
      BY <1>2, <2>1 DEF Apply, Transition
    <2> QED
      BY <1>a, <1>b, <2>2
  <1>3. CASE site = "mark_running"
    <2>1. Apply(site, r, j) = [j EXCEPT !.status = "running"]
      BY <1>3 DEF Apply, MarkRunning
    <2> QED
      BY <1>3, <2>1 DEF Effect
  <1>4. CASE site \in {"fail_job", "finalise_cancelled", "close_unfinished"}
    <2>1. Apply(site, r, j) \in {FailJob(j), FinaliseCancelled(j)}
      BY <1>4 DEF Apply, CloseUnfinished
    <2>2. ~Terminal(j.status)
      BY <1>4
    <2> QED
      BY <1>a, <2>1, <2>2
  <1>5. CASE site = "finish"
    <2>1. Apply(site, r, j) = Finish(j, r) /\ ~Terminal(j.status)
      BY <1>5 DEF Apply
    <2> QED
      BY <2>1, SettlingEffects, Zenon
  <1>6. CASE site = "request_cancel"
    <2>1. Apply(site, r, j) = [j EXCEPT !.cancelRequested = TRUE]
      BY <1>6 DEF Apply, RequestCancel
    <2> QED
      BY <2>1 DEF Effect
  <1>7. CASE site = "cancel_unassigned"
    <2> DEFINE k == [j EXCEPT !.status = "cancelled", !.cancelRequested = TRUE, !.finished = TRUE]
    <2>1. Apply(site, r, j) = IF Terminal(j.status) THEN j ELSE k
      BY <1>7 DEF Apply, CancelUnassigned
    <2>2. ~Terminal(j.status) => Effect(j, k)
      BY SettlingEffects, Zenon
    <2> HIDE DEF k
    <2> QED
      BY <1>b, <2>1, <2>2
  <1>8. CASE site = "fail_stuck"
    <2>1. Apply(site, r, j) = IF j.status = "awaiting_harness" THEN FailJob(j) ELSE j
      BY <1>8 DEF Apply, FailStuckHarness
    <2> QED
      BY <1>a, <1>b, <2>1
  <1>9. CASE site \notin (UpdateSites \ {"touch"})
    <2>1. Apply(site, r, j) = j
      BY <1>9 DEF Apply, UpdateSites
    <2> QED
      BY <1>b, <2>1
  <1> QED
    BY <1>1, <1>2, <1>3, <1>4, <1>5, <1>6, <1>7, <1>8, <1>9 DEF UpdateSites

\* A closure returns a record.
LEMMA EffectType ==
    ASSUME NEW j \in JobRecord, NEW k, Effect(j, k)
    PROVE  k \in JobRecord
  <1>1. CASE Settles(j, k)
    <2>1. PICK status \in Statuses, reas \in StopReasons \cup {"none"},
               asked \in {j.cancelRequested, TRUE} :
               k = [status |-> status, stopReason |-> reas,
                    finished |-> TRUE, cancelRequested |-> asked]
      BY <1>1 DEF Settles
    <2>2. j.cancelRequested \in BOOLEAN /\ TRUE \in BOOLEAN
      OBVIOUS
    <2>3. asked \in BOOLEAN
      BY <2>2
    <2> QED
      BY <2>1, <2>2, <2>3
  <1>2. CASE k = j \/ k = [j EXCEPT !.cancelRequested = TRUE]
    BY <1>2
  <1>3. CASE \E status \in Statuses : k = [j EXCEPT !.status = status]
    BY <1>3
  <1> QED
    BY <1>1, <1>2, <1>3 DEF Effect

\* A closure that does not abort leaves the outcome of a settled job alone.
LEMMA EffectFinal ==
    ASSUME NEW j \in JobRecord, NEW k, Effect(j, k), Terminal(j.status)
    PROVE  k.status = j.status /\ k.stopReason = j.stopReason /\ k.finished = j.finished
  BY DEF Effect

\* FinishedAt is set by a closure exactly when it settles the job.
LEMMA EffectFinished ==
    ASSUME NEW j \in JobRecord, NEW k, Effect(j, k), j.finished <=> Terminal(j.status)
    PROVE  k.finished <=> Terminal(k.status)
  <1>1. CASE Terminal(j.status)
    BY <1>1, EffectFinal
  <1>2. CASE ~Terminal(j.status)
    <2>1. CASE Settles(j, k)
      <3>1. PICK status \in Statuses, reas \in StopReasons \cup {"none"},
                 asked \in {j.cancelRequested, TRUE} :
                 /\ Terminal(status)
                 /\ k = [status |-> status, stopReason |-> reas,
                         finished |-> TRUE, cancelRequested |-> asked]
        BY <2>1 DEF Settles
      <3>2. k.status = status
        BY <3>1
      <3>3. k.finished
        BY <3>1
      <3> QED
        BY <3>1, <3>2, <3>3
    <2>2. CASE k = j \/ k = [j EXCEPT !.cancelRequested = TRUE]
      <3>1. k.finished = j.finished /\ k.status = j.status
        BY <2>2
      <3> QED
        BY <3>1
    <2>3. CASE \E status \in Statuses : ~Terminal(status) /\ k = [j EXCEPT !.status = status]
      <3>1. k.finished = j.finished /\ ~Terminal(k.status)
        BY <2>3
      <3> QED
        BY <3>1, <1>2
    <2> QED
      BY <2>1, <2>2, <2>3 DEF Effect
  <1> QED
    BY <1>1, <1>2

-----------------------------------------------------------------------------
(***************************************************************************)
(* Where a handler goes on                                                 *)
(***************************************************************************)

\* After a call of UpdateJob a handler is at a location of its own code, and
\* is registered if it was.
LEMMA AfterUpdateSite ==
    ASSUME NEW p \in Procs, NEW site \in UpdateSites \cap SitesOf(p), NEW out, NEW fl
    PROVE  /\ AfterUpdate(site, out, fl) \in SitesOf(p)
           /\ AfterUpdate(site, out, fl) \in RegisteredSites <=> site \in RegisteredSites
           /\ AfterUpdate(site, out, fl) \notin {"away", "submit"}
  <1>1. CASE p = Launcher
    BY <1>1 DEF SitesOf, UpdateSites, AbortsOnTerminal, LauncherSites, RegisteredSites, AfterUpdate
  <1>2. CASE p = Reaper
    BY <1>2, ProcsAssumption DEF SitesOf, UpdateSites, AbortsOnTerminal, ReaperSites, RegisteredSites, AfterUpdate
  <1>3. CASE p \in Streams
    BY <1>3, ProcsAssumption DEF SitesOf, UpdateSites, AbortsOnTerminal, StreamSites, RegisteredSites, AfterUpdate
  <1>4. CASE p \in Cancellers
    BY <1>4, ProcsAssumption DEF SitesOf, UpdateSites, AbortsOnTerminal, CancelSites, RegisteredSites, AfterUpdate
  <1> QED
    BY <1>1, <1>2, <1>3, <1>4 DEF Procs

\* The same of a call of AppendEvent.
LEMMA AfterSaySite ==
    ASSUME NEW p \in Procs, NEW site \in SaySites \cap SitesOf(p)
    PROVE  /\ AfterSay(site) \in SitesOf(p)
           /\ AfterSay(site) \in RegisteredSites <=> site \in RegisteredSites
           /\ AfterSay(site) \notin {"away", "submit"}
  <1>1. CASE p = Launcher
    BY <1>1 DEF SitesOf, SaySites, LauncherSites, RegisteredSites, AfterSay
  <1>2. CASE p = Reaper
    BY <1>2, ProcsAssumption DEF SitesOf, SaySites, ReaperSites, RegisteredSites, AfterSay
  <1>3. CASE p \in Streams
    BY <1>3, ProcsAssumption DEF SitesOf, SaySites, StreamSites, RegisteredSites, AfterSay
  <1>4. CASE p \in Cancellers
    BY <1>4, ProcsAssumption DEF SitesOf, SaySites, CancelSites, RegisteredSites, AfterSay
  <1> QED
    BY <1>1, <1>2, <1>3, <1>4 DEF Procs

-----------------------------------------------------------------------------
(***************************************************************************)
(* The inductive invariant                                                 *)
(***************************************************************************)

\* Before CreateJob no handler is under way.
Idle == {"submit", "away", "sleep", "exit", "error"}

JobInv ==
    /\ pc[Launcher] = "submit" => job = NoJob
    /\ job = NoJob => \A p \in Procs : pc[p] \in Idle

\* A transaction is only open inside UpdateJob, and one whose key has not
\* been written since its WATCH holds what its closure makes of the current
\* record: this is what makes EXEC the atomic application of the closure.
TxInv ==
    /\ \A p \in Procs : next[p] # NoJob => pc[p] \in UpdateSites /\ Store = "redis"
    /\ \A p \in fresh : /\ next[p] # NoJob
                        /\ ~Aborts(pc[p], job)
                        /\ next[p] = Closure(p, job)

\* A pump that will announce a terminal status knows it.
FlagInv ==
    /\ \A p \in Procs : pc[p] \in {"fail_job", "finish", "say_settled"} => flag[p] # "none"
    /\ \A p \in Procs : pc[p] = "close_unfinished" /\ next[p] # NoJob =>
                            /\ flag[p] # "none"
                            /\ p \in fresh => flag[p] = next[p].status

IInv == TypeOK /\ JobInv /\ TxInv /\ FlagInv

\* The numeric bounds admit their initial value.
LEMMA Bounds ==
    /\ MaxUpdateRetries \in Nat /\ MaxFaults \in Nat /\ MaxCrashes \in Nat
    /\ 0 \in 0 .. MaxUpdateRetries - 1
    /\ 0 \in 0 .. MaxFaults
    /\ 0 \in 0 .. MaxCrashes
  <1>1. MaxUpdateRetries \in Nat /\ MaxUpdateRetries # 0 /\ MaxFaults \in Nat /\ MaxCrashes \in Nat
    BY BoundsAssumption
  <1> QED
    BY <1>1

\* The specification starts in the invariant.
LEMMA InitIInv == Init => IInv
  <1> SUFFICES ASSUME Init PROVE IInv
    OBVIOUS
  <1> USE DEF Init
  <1>1. TypeOK
    <2>1. pc \in [Procs -> Sites] /\ \A p \in Procs : pc[p] \in SitesOf(p)
      BY ProcsAssumption
         DEF Procs, Sites, SitesOf, LauncherSites, ReaperSites, StreamSites, CancelSites
    <2>2. tries \in [Procs -> 0 .. MaxUpdateRetries - 1]
      BY Bounds
    <2>3. faults \in 0 .. MaxFaults /\ crashes \in 0 .. MaxCrashes
      BY Bounds
    <2>4. next \in [Procs -> JobRecord \cup {NoJob}] /\ flag \in [Procs -> Statuses \cup {"none"}]
      OBVIOUS
    <2> QED
      BY <2>1, <2>2, <2>3, <2>4 DEF TypeOK
  <1>2. JobInv
    BY DEF JobInv, Idle
  <1>3. TxInv
    BY DEF TxInv
  <1>4. FlagInv
    BY DEF FlagInv
  <1> QED
    BY <1>1, <1>2, <1>3, <1>4 DEF IInv

\* UpdateJob and AppendEvent are called by handlers of a job that exists.
LEMMA JobExists ==
    ASSUME IInv, NEW p \in Procs, pc[p] \notin Idle
    PROVE  job \in JobRecord
  BY DEF IInv, TypeOK, JobInv

\* The closure's result and its captured variable have their types.
LEMMA ClosureType ==
    ASSUME IInv, NEW p \in Procs, pc[p] \in UpdateSites, ~Aborts(pc[p], job)
    PROVE  /\ job \in JobRecord
           /\ Effect(job, Closure(p, job))
           /\ Closure(p, job) \in JobRecord
           /\ Captured(p, job) \in Statuses \cup {"none"}
           /\ pc[p] = "close_unfinished" => Captured(p, job) = Closure(p, job).status
  <1>1. pc[p] \notin Idle
    BY DEF UpdateSites, AbortsOnTerminal, Idle
  <1>2. job \in JobRecord
    BY <1>1, JobExists
  <1>3. (IF p \in Streams THEN reason[p] ELSE "none") \in StopReasons \cup {"none"}
    BY DEF IInv, TypeOK
  <1>4. Effect(job, Closure(p, job))
    BY <1>2, <1>3, ApplyEffect DEF Closure
  <1>5. CloseUnfinished(job).status \in {"failed", "cancelled"}
    BY <1>2 DEF CloseUnfinished, FailJob, FinaliseCancelled
  <1>6. Captured(p, job) \in Statuses \cup {"none"}
    BY <1>5 DEF Captured, IInv, TypeOK
  <1>7. pc[p] = "close_unfinished" => Captured(p, job) = Closure(p, job).status
    BY DEF Captured, Closure, Apply
  <1> QED
    BY <1>2, <1>4, <1>6, <1>7, EffectType

-----------------------------------------------------------------------------
(***************************************************************************)
(* The steps                                                               *)
(***************************************************************************)

\* What Return does to a handler's own state.
LEMMA ReturnType ==
    ASSUME IInv, NEW p \in Procs, pc[p] \in UpdateSites, NEW out,
           NEW fl \in Statuses \cup {"none"}, Return(p, out, fl)
    PROVE  /\ pc' \in [Procs -> Sites] /\ \A q \in Procs : pc'[q] \in SitesOf(q)
           /\ pc' = [pc EXCEPT ![p] = AfterUpdate(pc[p], out, fl)]
           /\ next' \in [Procs -> JobRecord \cup {NoJob}]
           /\ tries' \in [Procs -> 0 .. MaxUpdateRetries - 1]
           /\ flag' \in [Procs -> Statuses \cup {"none"}]
           /\ ctxDone' \in SUBSET Procs
           /\ told' \in SUBSET Streams
           /\ UNCHANGED <<timeline, session, reason, pumped, usable, crashes>>
  <1> USE DEF IInv, TypeOK, Return
  <1>1. AfterUpdate(pc[p], out, fl) \in SitesOf(p) /\ SitesOf(p) \subseteq Sites
    BY AfterUpdateSite DEF SitesOf, Sites
  <1>2. pc' \in [Procs -> Sites] /\ \A q \in Procs : pc'[q] \in SitesOf(q)
    BY <1>1 DEF Goto
  <1>3. pc[p] = "mark_running" => p \in Streams
    BY DEF SitesOf, LauncherSites, ReaperSites, CancelSites
  <1>4. tries' \in [Procs -> 0 .. MaxUpdateRetries - 1]
    BY Bounds
  <1>5. ctxDone' \in SUBSET Procs
    BY DEF CtxAfter
  <1>6. told' \in SUBSET Streams
    BY <1>3
  <1> QED
    BY <1>2, <1>4, <1>5, <1>6 DEF Goto

\* UpdateJob does not return into another UpdateJob, and a handler that goes
\* on to announce a settlement has made one.
LEMMA AfterUpdateSettled ==
    ASSUME NEW site \in UpdateSites, NEW out, NEW fl
    PROVE  /\ AfterUpdate(site, out, fl) \notin UpdateSites
           /\ AfterUpdate(site, out, fl) = "say_settled" =>
                 site \in {"fail_job", "finish"} \/ (site = "close_unfinished" /\ out = "ok")
  <1>1. CASE site \in {"to_launching", "to_failed", "to_awaiting", "mark_running"}
    BY <1>1 DEF AfterUpdate, UpdateSites, AbortsOnTerminal
  <1>2. CASE site \in {"fail_job", "finalise_cancelled", "touch", "finish"}
    BY <1>2 DEF AfterUpdate, UpdateSites, AbortsOnTerminal
  <1>3. CASE site \in {"close_unfinished", "request_cancel", "cancel_unassigned", "fail_stuck"}
    BY <1>3 DEF AfterUpdate, UpdateSites, AbortsOnTerminal
  <1> QED
    BY <1>1, <1>2, <1>3 DEF UpdateSites, AbortsOnTerminal

\* A return from UpdateJob, whether it committed or not, keeps the invariant.
LEMMA ReturnIInv ==
    ASSUME IInv, NEW p \in Procs, pc[p] \in UpdateSites, NEW out,
           NEW fl \in Statuses \cup {"none"}, Return(p, out, fl),
           pc[p] \in {"fail_job", "finish"} => fl = flag[p],
           pc[p] = "close_unfinished" /\ out = "ok" => fl # "none",
           fresh' \subseteq fresh \ {p},
           job' = job \/ (fresh' = {} /\ job' \in JobRecord),
           faults' \in 0 .. MaxFaults
    PROVE  IInv'
  <1>1. job \in JobRecord /\ job' \in JobRecord /\ job # NoJob /\ job' # NoJob
    <2>1. pc[p] \notin Idle
      BY DEF UpdateSites, AbortsOnTerminal, Idle
    <2>2. job \in JobRecord
      BY <2>1, JobExists
    <2> QED
      BY <2>2 DEF NoJob, NewJob
  <1>2. TypeOK'
    BY <1>1, ReturnType DEF IInv, TypeOK, timeline
  <1>3. /\ pc'[p] = AfterUpdate(pc[p], out, fl)
        /\ \A q \in Procs \ {p} : pc'[q] = pc[q]
    BY DEF Return, Goto, IInv, TypeOK
  <1>4. JobInv'
    <2>1. pc'[Launcher] # "submit"
      <3>1. CASE p = Launcher
        <4>1. pc[p] \in UpdateSites \cap SitesOf(p)
          BY DEF IInv, TypeOK
        <4>2. AfterUpdate(pc[p], out, fl) \notin {"away", "submit"}
          BY <4>1, AfterUpdateSite
        <4> QED
          BY <1>3, <3>1, <4>2
      <3>2. CASE p # Launcher
        BY <1>1, <1>3, <3>2 DEF IInv, TypeOK, JobInv, Procs
      <3> QED
        BY <3>1, <3>2
    <2> QED
      BY <1>1, <2>1 DEF JobInv
  <1>5. TxInv'
    <2>1. ASSUME NEW q \in Procs, next'[q] # NoJob
          PROVE  q # p /\ next'[q] = next[q] /\ pc'[q] = pc[q]
      BY <1>3, <2>1 DEF Return, IInv, TypeOK
    <2>2. ASSUME NEW q \in fresh'
          PROVE  q \in Procs /\ q \in fresh /\ q # p /\ job' = job /\ next'[q] = next[q]
                 /\ pc'[q] = pc[q] /\ reason' = reason
      BY <1>3, <2>2, ReturnType DEF Return, IInv, TypeOK
    <2> QED
      BY <2>1, <2>2 DEF IInv, TxInv, Closure
  <1>6. FlagInv'
    <2>1. ASSUME NEW q \in Procs, q # p
          PROVE  next'[q] = next[q] /\ pc'[q] = pc[q] /\ flag'[q] = flag[q]
      BY <1>3, <2>1 DEF Return, IInv, TypeOK
    <2>2. next'[p] = NoJob
      BY DEF Return, IInv, TypeOK
    <2>3. pc'[p] \notin {"fail_job", "finish"}
      <3>1. AfterUpdate(pc[p], out, fl) \notin UpdateSites
        BY AfterUpdateSettled
      <3> QED
        BY <1>3, <3>1 DEF UpdateSites, AbortsOnTerminal
    <2>4. pc'[p] = "say_settled" => flag'[p] # "none"
      <3> SUFFICES ASSUME pc'[p] = "say_settled" PROVE flag'[p] # "none"
        OBVIOUS
      <3>1. AfterUpdate(pc[p], out, fl) = "say_settled"
        BY <1>3 DEF IInv, TypeOK
      <3>2. flag'[p] = fl
        BY <3>1 DEF Return, SaySites, IInv, TypeOK
      <3>3. fl # "none"
        BY <3>1, AfterUpdateSettled DEF IInv, FlagInv
      <3> QED
        BY <3>2, <3>3
    <2> QED
      BY <2>1, <2>2, <2>3, <2>4 DEF IInv, FlagInv
  <1> QED
    BY <1>2, <1>4, <1>5, <1>6 DEF IInv

\* UpdateJob keeps the invariant; what it commits is its closure applied to
\* the current record.
LEMMA UpdateJobStep ==
    ASSUME IInv, NEW p \in Procs, UpdateJob(p)
    PROVE  /\ IInv'
           /\ job' = job \/ (job \in JobRecord /\ Effect(job, job'))
  <1>0. /\ fresh \in SUBSET Procs /\ faults \in 0 .. MaxFaults /\ next \in [Procs -> JobRecord \cup {NoJob}]
        /\ flag[p] \in Statuses \cup {"none"}
    BY DEF IInv, TypeOK
  <1>f. faults < MaxFaults /\ faults' = faults + 1 => faults' \in 0 .. MaxFaults
    <2>1. faults \in 0 .. MaxFaults /\ MaxFaults \in Nat
      BY Bounds DEF IInv, TypeOK
    <2> QED
      BY <2>1
  <1>t. tries[p] \in 0 .. MaxUpdateRetries - 1 /\ MaxUpdateRetries \in Nat
    BY Bounds DEF IInv, TypeOK
  <1>1. CASE MemUpdate(p)
    <2>1. fresh = {} /\ faults' = faults /\ fresh' = fresh
      BY <1>1 DEF MemUpdate, IInv, TypeOK, TxInv
    <2>2. CASE Aborts(pc[p], job)
      <3>1. Return(p, "noupdate", flag[p]) /\ job' = job /\ pc[p] \in UpdateSites
        BY <1>1, <2>2 DEF MemUpdate
      <3> QED
        BY <1>0, <2>1, <3>1, ReturnIInv
    <2>3. CASE ~Aborts(pc[p], job)
      <3>1. Return(p, "ok", Captured(p, job)) /\ job' = Closure(p, job) /\ pc[p] \in UpdateSites
        BY <1>1, <2>3 DEF MemUpdate
      <3>2. /\ job \in JobRecord /\ Effect(job, job') /\ job' \in JobRecord
            /\ Captured(p, job) \in Statuses \cup {"none"}
            /\ pc[p] = "close_unfinished" => Captured(p, job) = job'.status
        BY <2>3, <3>1, ClosureType
      <3>3. pc[p] \in {"fail_job", "finish"} => Captured(p, job) = flag[p]
        BY DEF Captured
      <3>4. pc[p] = "close_unfinished" => Captured(p, job) # "none"
        BY <3>2
      <3> QED
        BY <1>0, <2>1, <3>1, <3>2, <3>3, <3>4, ReturnIInv
    <2> QED
      BY <2>2, <2>3
  <1>2. CASE TxRead(p)
    <2>1. /\ pc[p] \in UpdateSites /\ next[p] = NoJob /\ p \notin fresh
          /\ job' = job /\ faults' = faults /\ Store = "redis"
      BY <1>2 DEF TxRead, IInv, TxInv
    <2>2. CASE Aborts(pc[p], job)
      <3>1. Return(p, "noupdate", flag[p]) /\ fresh' = fresh
        BY <1>2, <2>2 DEF TxRead
      <3> QED
        BY <1>0, <2>1, <3>1, ReturnIInv
    <2>3. CASE ~Aborts(pc[p], job)
      <3>1. /\ next' = [next EXCEPT ![p] = Closure(p, job)]
            /\ flag' = [flag EXCEPT ![p] = Captured(p, job)]
            /\ fresh' = fresh \cup {p}
            /\ UNCHANGED <<ending, late, session, pc, tries, reason, told, pumped,
                           ctxDone, usable, crashes>>
        BY <1>2, <2>3 DEF TxRead, timeline, peerVars
      <3>2. /\ job \in JobRecord /\ Closure(p, job) \in JobRecord /\ Closure(p, job) # NoJob
            /\ Captured(p, job) \in Statuses \cup {"none"}
            /\ pc[p] = "close_unfinished" => Captured(p, job) = Closure(p, job).status
        BY <2>1, <2>3, ClosureType DEF NoJob, NewJob
      <3>3. TypeOK'
        <4>1. /\ next' \in [Procs -> JobRecord \cup {NoJob}]
              /\ flag' \in [Procs -> Statuses \cup {"none"}]
          BY <3>1, <3>2 DEF IInv, TypeOK
        <4> HIDE DEF JobRecord, Statuses, StopReasons
        <4> QED
          BY <2>1, <3>1, <4>1 DEF IInv, TypeOK
      <3>4. JobInv'
        BY <2>1, <3>1 DEF IInv, JobInv
      <3>5. TxInv'
        BY <1>0, <2>1, <2>3, <3>1, <3>2 DEF IInv, TxInv, Closure
      <3>6. FlagInv'
        <4>1. pc[p] \in {"fail_job", "finish"} => Captured(p, job) = flag[p]
          BY DEF Captured
        <4>2. pc[p] = "close_unfinished" => Captured(p, job) # "none"
          BY <3>2
        <4>3. pc[p] # "say_settled"
          BY <2>1 DEF UpdateSites, AbortsOnTerminal
        <4>4. ASSUME NEW q \in Procs \ {p}
              PROVE  next'[q] = next[q] /\ flag'[q] = flag[q] /\ (q \in fresh' => q \in fresh)
          BY <3>1 DEF IInv, TypeOK
        <4>5. next'[p] = Closure(p, job) /\ flag'[p] = Captured(p, job)
          BY <3>1 DEF IInv, TypeOK
        <4> QED
          BY <3>1, <3>2, <4>1, <4>2, <4>3, <4>4, <4>5 DEF IInv, FlagInv
      <3> QED
        BY <2>1, <3>3, <3>4, <3>5, <3>6 DEF IInv
    <2> QED
      BY <2>2, <2>3
  <1>3. CASE TxExec(p)
    <2>1. next[p] # NoJob /\ pc[p] \in UpdateSites /\ faults' = faults
      BY <1>3 DEF TxExec, IInv, TxInv
    <2>2. CASE p \in fresh
      <3>1. Return(p, "ok", flag[p]) /\ job' = next[p] /\ fresh' = {}
        BY <1>3, <2>2 DEF TxExec, WatchHolds
      <3>2. ~Aborts(pc[p], job) /\ job' = Closure(p, job)
        BY <2>2, <3>1 DEF IInv, TxInv
      <3>3. job \in JobRecord /\ Effect(job, job') /\ job' \in JobRecord
        BY <2>1, <3>2, ClosureType
      <3>4. pc[p] = "close_unfinished" => flag[p] # "none"
        BY <2>1 DEF IInv, FlagInv
      <3> QED
        BY <1>0, <2>1, <3>1, <3>3, <3>4, ReturnIInv
    <2>3. CASE p \notin fresh /\ tries[p] + 1 >= MaxUpdateRetries
      <3>1. Return(p, "err", flag[p]) /\ job' = job /\ fresh' = fresh
        <4>1. ~(tries[p] + 1 < MaxUpdateRetries)
          BY <1>t, <2>3
        <4> QED
          BY <1>3, <2>3, <4>1 DEF TxExec, WatchHolds, LastTry
      <3> QED
        BY <1>0, <2>1, <2>3, <3>1, ReturnIInv
    <2>4. CASE p \notin fresh /\ tries[p] + 1 < MaxUpdateRetries
      <3>1. /\ next' = [next EXCEPT ![p] = NoJob]
            /\ tries' = [tries EXCEPT ![p] = @ + 1]
            /\ UNCHANGED <<job, ending, late, session, pc, fresh, flag, reason, told, pumped,
                           ctxDone, usable, crashes>>
        <4>1. ~(tries[p] + 1 >= MaxUpdateRetries)
          BY <1>t, <2>4
        <4> QED
          BY <1>3, <2>4, <4>1 DEF TxExec, WatchHolds, LastTry, storeVars, timeline, peerVars
      <3>2. tries' \in [Procs -> 0 .. MaxUpdateRetries - 1]
        <4>1. tries[p] + 1 \in 0 .. MaxUpdateRetries - 1
          BY <1>t, <2>4
        <4> QED
          BY <3>1, <4>1 DEF IInv, TypeOK
      <3>3. TypeOK'
        <4>1. next' \in [Procs -> JobRecord \cup {NoJob}]
          BY <1>0, <3>1
        <4> HIDE DEF JobRecord, Statuses, StopReasons
        <4> QED
          BY <2>1, <3>1, <3>2, <4>1 DEF IInv, TypeOK
      <3>4. JobInv'
        BY <3>1 DEF IInv, JobInv
      <3>5. TxInv'
        BY <1>0, <2>4, <3>1 DEF IInv, TxInv, Closure
      <3>6. FlagInv'
        BY <1>0, <3>1 DEF IInv, FlagInv
      <3> QED
        BY <3>1, <3>3, <3>4, <3>5, <3>6 DEF IInv
    <2>5. (p \notin fresh) => \/ tries[p] + 1 < MaxUpdateRetries
                             \/ tries[p] + 1 >= MaxUpdateRetries
      BY <1>t
    <2> QED
      BY <2>2, <2>3, <2>4, <2>5
  <1>4. CASE UpdateFails(p)
    <2>1. Return(p, "err", flag[p]) /\ pc[p] \in UpdateSites
      BY <1>4 DEF UpdateFails
    <2>2. CASE next[p] = NoJob /\ UNCHANGED <<job, fresh, faults>>
      <3>1. p \notin fresh
        BY <2>2 DEF IInv, TxInv
      <3> QED
        BY <1>0, <2>1, <2>2, <3>1, ReturnIInv
    <2>3. CASE faults < MaxFaults /\ faults' = faults + 1 /\ fresh' = fresh \ {p} /\ job' = job
      <3>1. faults' \in 0 .. MaxFaults
        BY <1>f, <2>3
      <3> QED
        BY <1>0, <2>1, <2>3, <3>1, ReturnIInv
    <2>4. CASE faults < MaxFaults /\ faults' = faults + 1 /\ p \in fresh /\ fresh' = {} /\ job' = next[p]
      <3>1. faults' \in 0 .. MaxFaults
        BY <1>f, <2>4
      <3>2. ~Aborts(pc[p], job) /\ job' = Closure(p, job)
        BY <2>4 DEF IInv, TxInv
      <3>3. job \in JobRecord /\ Effect(job, job') /\ job' \in JobRecord
        BY <2>1, <3>2, ClosureType
      <3> QED
        BY <1>0, <2>1, <2>4, <3>1, <3>3, ReturnIInv
    <2> QED
      BY <1>4, <2>2, <2>3, <2>4 DEF UpdateFails, WatchHolds
  <1> QED
    BY <1>1, <1>2, <1>3, <1>4 DEF UpdateJob

\* The part of TypeOK about what a step outside UpdateJob may change.
RestOK ==
    /\ ending \in Statuses \cup {"none"} /\ late \in SUBSET Statuses
    /\ session \in Streams \cup {None}
    /\ flag \in [Procs -> Statuses \cup {"none"}]
    /\ reason \in [Streams -> StopReasons \cup {"none"}]
    /\ ctxDone \in SUBSET Procs
    /\ told \in SUBSET Streams /\ pumped \in SUBSET Streams
    /\ usable \in BOOLEAN
    /\ faults \in 0 .. MaxFaults /\ crashes \in 0 .. MaxCrashes

\* A step by which p moves on, outside UpdateJob, keeps the invariant.
LEMMA LocalStep ==
    ASSUME IInv, NEW p \in Procs, pc[p] \notin UpdateSites,
           NEW site \in SitesOf(p), Goto(p, site),
           site # "submit", job = NoJob => site \in Idle,
           site \in {"fail_job", "finish", "say_settled"} => flag'[p] # "none",
           UNCHANGED <<job, next, fresh, tries>>,
           \A q \in Procs \ {p} : flag'[q] = flag[q],
           \A s \in Streams \ {p} : reason'[s] = reason[s],
           RestOK'
    PROVE  IInv'
  <1>1. pc'[p] = site /\ \A q \in Procs \ {p} : pc'[q] = pc[q]
    BY DEF Goto, IInv, TypeOK
  <1>2. next[p] = NoJob /\ p \notin fresh /\ fresh \subseteq Procs
    BY DEF IInv, TxInv, TypeOK
  <1>3. TypeOK'
    <2>1. pc' \in [Procs -> Sites] /\ \A q \in Procs : pc'[q] \in SitesOf(q)
      BY DEF Goto, IInv, TypeOK, SitesOf, Sites
    <2> HIDE DEF JobRecord, Statuses, StopReasons
    <2> QED
      BY <2>1 DEF IInv, TypeOK, RestOK
  <1>4. JobInv'
    BY <1>1 DEF IInv, JobInv, Procs
  <1>5. TxInv'
    <2>1. ASSUME NEW q \in Procs, next'[q] # NoJob
          PROVE  pc'[q] \in UpdateSites /\ Store = "redis"
      BY <1>1, <1>2, <2>1 DEF IInv, TxInv
    <2>2. ASSUME NEW q \in fresh'
          PROVE  /\ next'[q] # NoJob /\ ~Aborts(pc'[q], job')
                 /\ next'[q] = Closure(q, job)'
      <3>1. q \in fresh /\ q \in Procs /\ q # p /\ pc'[q] = pc[q] /\ job' = job /\ next'[q] = next[q]
        BY <1>1, <1>2, <2>2
      <3>2. q \in Streams => reason'[q] = reason[q]
        BY <3>1
      <3> QED
        BY <3>1, <3>2 DEF IInv, TxInv, Closure
    <2> QED
      BY <2>1, <2>2 DEF TxInv
  <1>6. FlagInv'
    BY <1>1, <1>2 DEF IInv, FlagInv
  <1> QED
    BY <1>3, <1>4, <1>5, <1>6 DEF IInv

\* AppendStatus keeps the invariant.
LEMMA AppendStatusStep ==
    ASSUME IInv, NEW p \in Procs, AppendStatus(p)
    PROVE  IInv' /\ job' = job
  <1>1. pc[p] \in SaySites \cap SitesOf(p) /\ pc[p] \notin UpdateSites /\ pc[p] \notin Idle
    BY DEF AppendStatus, IInv, TypeOK, SaySites, UpdateSites, AbortsOnTerminal, Idle
  <1>2. job \in JobRecord /\ job # NoJob
    BY <1>1, JobExists DEF NoJob, NewJob
  <1>3. /\ AfterSay(pc[p]) \in SitesOf(p) /\ AfterSay(pc[p]) # "submit"
        /\ AfterSay(pc[p]) \notin {"fail_job", "finish", "say_settled"}
    BY <1>1, AfterSaySite DEF AfterSay
  <1>4. StatusSaid(p) \in Statuses
    <2>1. pc[p] = "say_settled" => flag[p] \in Statuses
      BY DEF IInv, TypeOK, FlagInv
    <2> QED
      BY <2>1 DEF StatusSaid
  <1>5. RestOK'
    <2>1. ending' \in Statuses \cup {"none"} /\ late' \in SUBSET Statuses
      BY <1>4 DEF AppendStatus, AppendEvent, timeline, IInv, TypeOK
    <2>2. faults' \in 0 .. MaxFaults
      <3>1. faults' = faults \/ (faults < MaxFaults /\ faults' = faults + 1)
        BY DEF AppendStatus
      <3>2. faults \in 0 .. MaxFaults /\ MaxFaults \in Nat
        BY Bounds DEF IInv, TypeOK
      <3> QED
        BY <3>1, <3>2
    <2>3. pumped' \in SUBSET Streams
      BY DEF AppendStatus, IInv, TypeOK, SitesOf, LauncherSites, ReaperSites, CancelSites
    <2>4. ctxDone' \in SUBSET Procs
      BY DEF AppendStatus, CtxAfter, IInv, TypeOK
    <2>5. flag' \in [Procs -> Statuses \cup {"none"}]
      BY DEF AppendStatus, IInv, TypeOK
    <2> HIDE DEF JobRecord, Statuses, StopReasons
    <2> QED
      BY <2>1, <2>2, <2>3, <2>4, <2>5 DEF RestOK, AppendStatus, IInv, TypeOK
  <1>6. /\ Goto(p, AfterSay(pc[p])) /\ UNCHANGED <<job, next, fresh, tries, reason>>
        /\ flag' = [flag EXCEPT ![p] = "none"]
    BY DEF AppendStatus
  <1>7. \A q \in Procs \ {p} : flag'[q] = flag[q]
    BY <1>6 DEF IInv, TypeOK
  <1> QED
    BY <1>1, <1>2, <1>3, <1>5, <1>6, <1>7, LocalStep

\* The steps of a stream outside its store calls keep the invariant.
LEMMA StreamStepIInv ==
    ASSUME IInv, NEW s \in Streams,
           Dismiss(s) \/ Ready(s) \/ StreamStep(s) \/ ReceiveEvent(s)
             \/ \E r \in StopReasons : ReceiveDone(s, r)
    PROVE  IInv' /\ job' = job
  <1> USE DEF storeVars, timeline, txVars, peerVars, envVars
  <1>0. s \in Procs /\ SitesOf(s) = StreamSites /\ pc \in [Procs -> Sites]
    BY ProcsAssumption DEF Procs, SitesOf, IInv, TypeOK
  <1>1. CASE Dismiss(s)
    <2>1. pc[s] \notin UpdateSites /\ "exit" \in SitesOf(s) /\ "exit" \in Idle
      BY <1>0, <1>1 DEF Dismiss, UpdateSites, AbortsOnTerminal, StreamSites, Idle
    <2>2. RestOK'
      BY <1>1 DEF Dismiss, RestOK, IInv, TypeOK
    <2> QED
      BY <1>0, <1>1, <2>1, <2>2, LocalStep DEF Dismiss
  <1>2. CASE Ready(s)
    <2> DEFINE site == CASE Terminal(job.status)                         -> "exit"
                         [] ~Terminal(job.status) /\ job.cancelRequested -> "finalise_cancelled"
                         [] OTHER                                        -> "register"
    <2>1. site \in {"exit", "finalise_cancelled", "register"}
      OBVIOUS
    <2>2. Goto(s, site) /\ job # NoJob
      BY <1>2 DEF Ready
    <2>3. pc[s] \notin UpdateSites
      BY <1>2 DEF Ready, UpdateSites, AbortsOnTerminal
    <2>4. RestOK'
      BY <1>2 DEF Ready, RestOK, IInv, TypeOK
    <2> HIDE DEF site
    <2>5. /\ site \in SitesOf(s)
          /\ site \notin {"submit", "fail_job", "finish", "say_settled"}
      BY <1>0, <2>1 DEF StreamSites
    <2> QED
      BY <1>0, <1>2, <2>2, <2>3, <2>4, <2>5, LocalStep DEF Ready
  <1>3. CASE Register(s)
    <2>1. \E site \in {"exit", "assign"} : Goto(s, site)
      BY <1>3 DEF Register
    <2>2. RestOK'
      BY <1>0, <1>3 DEF Register, CtxAfter, RestOK, IInv, TypeOK
    <2>3. pc[s] \notin UpdateSites /\ job # NoJob
      BY <1>0, <1>3 DEF Register, IInv, JobInv, Idle, UpdateSites, AbortsOnTerminal
    <2>4. "exit" \in SitesOf(s) /\ "assign" \in SitesOf(s)
      BY <1>0 DEF StreamSites, RegisteredSites
    <2> QED
      BY <1>0, <1>3, <2>1, <2>2, <2>3, <2>4, LocalStep DEF Register
  <1>4. CASE Assign(s)
    <2>1. \/ Goto(s, "mark_running") /\ flag' = flag
          \/ Goto(s, "fail_job") /\ flag' = [flag EXCEPT ![s] = "failed"]
      BY <1>4 DEF Assign
    <2>2. RestOK'
      BY <1>0, <1>4 DEF Assign, RestOK, IInv, TypeOK
    <2>3. pc[s] \notin UpdateSites /\ job # NoJob
      BY <1>0, <1>4 DEF Assign, IInv, JobInv, Idle, UpdateSites, AbortsOnTerminal
    <2>4. "mark_running" \in SitesOf(s) /\ "fail_job" \in SitesOf(s)
      BY <1>0 DEF StreamSites, RegisteredSites
    <2>5. /\ \A q \in Procs \ {s} : flag'[q] = flag[q]
          /\ Goto(s, "fail_job") => flag'[s] # "none"
      BY <1>0, <2>1 DEF Goto, IInv, TypeOK
    <2>6. UNCHANGED <<job, next, fresh, tries, reason>>
      BY <1>4 DEF Assign
    <2> QED
      BY <1>0, <2>1, <2>2, <2>3, <2>4, <2>5, <2>6, LocalStep
  <1>5. CASE ReceiveEvent(s) \/ ReceiveEnd(s)
    <2>1. \E site \in {"touch", "close_unfinished"} : Goto(s, site)
      BY <1>5 DEF ReceiveEvent, ReceiveEnd
    <2>2. RestOK' /\ UNCHANGED <<job, next, fresh, tries, flag, reason>>
      BY <1>0, <1>5 DEF ReceiveEvent, ReceiveEnd, RestOK, IInv, TypeOK
    <2>3. pc[s] \notin UpdateSites /\ job # NoJob
      BY <1>0, <1>5 DEF ReceiveEvent, ReceiveEnd, IInv, JobInv, Idle, UpdateSites, AbortsOnTerminal
    <2>4. "touch" \in SitesOf(s) /\ "close_unfinished" \in SitesOf(s)
      BY <1>0 DEF StreamSites, RegisteredSites
    <2> QED
      BY <1>0, <2>1, <2>2, <2>3, <2>4, LocalStep
  <1>6. ASSUME NEW r \in StopReasons, ReceiveDone(s, r)
        PROVE  IInv' /\ job' = job
    <2>1. /\ Goto(s, "finish") /\ flag' = [flag EXCEPT ![s] = StatusForStopReason(r)]
          /\ reason' = [reason EXCEPT ![s] = r]
          /\ UNCHANGED <<job, ending, late, session, next, fresh, tries, told, pumped, ctxDone,
                         usable, faults, crashes>>
      BY <1>6 DEF ReceiveDone
    <2>2. StatusForStopReason(r) \in Statuses
      BY DEF StatusForStopReason
    <2>3. RestOK'
      BY <1>0, <2>1, <2>2 DEF RestOK, IInv, TypeOK
    <2>4. pc[s] \notin UpdateSites /\ job # NoJob
      BY <1>0, <1>6 DEF ReceiveDone, IInv, JobInv, Idle, UpdateSites, AbortsOnTerminal
    <2>5. "finish" \in SitesOf(s)
      BY <1>0 DEF StreamSites, RegisteredSites
    <2>6. /\ \A q \in Procs \ {s} : flag'[q] = flag[q]
          /\ flag'[s] # "none"
          /\ \A t \in Streams \ {s} : reason'[t] = reason[t]
      BY <1>0, <2>1, <2>2 DEF IInv, TypeOK
    <2> QED
      BY <1>0, <2>1, <2>3, <2>4, <2>5, <2>6, LocalStep
  <1>7. CASE Unregister(s)
    <2>1. /\ Goto(s, "exit") /\ reason' = [reason EXCEPT ![s] = "none"]
          /\ UNCHANGED <<job, next, fresh, tries, flag>>
      BY <1>7 DEF Unregister
    <2>2. RestOK'
      BY <1>0, <1>7 DEF Unregister, RegistryUnregister, CtxAfter, RestOK, IInv, TypeOK
    <2>3. pc[s] \notin UpdateSites /\ "exit" \in SitesOf(s) /\ "exit" \in Idle
      BY <1>0, <1>7 DEF Unregister, UpdateSites, AbortsOnTerminal, StreamSites, Idle
    <2>4. \A t \in Streams \ {s} : reason'[t] = reason[t]
      BY <2>1 DEF IInv, TypeOK
    <2> QED
      BY <1>0, <2>1, <2>2, <2>3, <2>4, LocalStep
  <1> QED
    BY <1>1, <1>2, <1>3, <1>4, <1>5, <1>6, <1>7 DEF StreamStep

\* The steps of a CancelJob call outside its store calls keep the invariant.
LEMMA CancelStepIInv ==
    ASSUME IInv, NEW c \in Cancellers, Cancel(c) \/ CancelGetFails(c) \/ CancelStep(c)
    PROVE  IInv' /\ job' = job
  <1> USE DEF storeVars, timeline, txVars, peerVars, envVars
  <1>0. c \in Procs /\ SitesOf(c) = CancelSites /\ pc \in [Procs -> Sites]
    BY ProcsAssumption DEF Procs, SitesOf, IInv, TypeOK
  <1>1. \E site \in CancelSites \ {"away", "say_cancelled"} :
           Goto(c, site) /\ (job = NoJob => site \in Idle)
    <2>1. CASE Cancel(c)
      BY <2>1 DEF Cancel, CancelSites
    <2>2. CASE CancelGetFails(c)
      BY <2>2 DEF CancelGetFails, CancelSites, Idle
    <2>3. CASE CheckConnected(c)
      <3>1. job # NoJob
        BY <1>0, <2>3 DEF CheckConnected, IInv, JobInv, Idle
      <3> QED
        BY <2>3, <3>1 DEF CheckConnected, CancelSites
    <2>4. CASE SendCancel(c)
      <3>1. job # NoJob
        BY <1>0, <2>4 DEF SendCancel, IInv, JobInv, Idle
      <3> QED
        BY <2>4, <3>1 DEF SendCancel, CancelSites
    <2> QED
      BY <2>1, <2>2, <2>3, <2>4 DEF CancelStep
  <1>2. pc[c] \notin UpdateSites /\ UNCHANGED <<job, next, fresh, tries, flag, reason>>
    BY DEF Cancel, CancelGetFails, CancelStep, CheckConnected, SendCancel, UpdateSites, AbortsOnTerminal
  <1>3. RestOK'
    <2>1. faults' \in 0 .. MaxFaults
      <3>1. faults' = faults \/ (faults < MaxFaults /\ faults' = faults + 1)
        BY DEF Cancel, CancelGetFails, CancelStep, CheckConnected, SendCancel
      <3>2. faults \in 0 .. MaxFaults /\ MaxFaults \in Nat
        BY Bounds DEF IInv, TypeOK
      <3> QED
        BY <3>1, <3>2
    <2>2. told' \in SUBSET Streams
      BY DEF Cancel, CancelGetFails, CancelStep, CheckConnected, SendCancel, SessionOpen, IInv, TypeOK
    <2>3. ctxDone' \in SUBSET Procs
      BY DEF Cancel, CancelGetFails, CancelStep, CheckConnected, SendCancel, CtxAfter, IInv, TypeOK
    <2>4. UNCHANGED <<ending, late, session, flag, reason, pumped, usable, crashes>>
      BY DEF Cancel, CancelGetFails, CancelStep, CheckConnected, SendCancel
    <2> HIDE DEF Statuses, StopReasons, JobRecord
    <2> QED
      BY <2>1, <2>2, <2>3, <2>4 DEF RestOK, IInv, TypeOK
  <1>4. PICK site \in CancelSites \ {"away", "say_cancelled"} :
           Goto(c, site) /\ (job = NoJob => site \in Idle)
    BY <1>1
  <1>5. /\ site \in SitesOf(c)
        /\ site \notin {"submit", "fail_job", "finish", "say_settled"}
    BY <1>0, <1>4 DEF CancelSites
  <1> QED
    BY <1>0, <1>2, <1>3, <1>4, <1>5, LocalStep

\* Reject, Launch and Sweep keep the invariant.
LEMMA LaunchSweepIInv ==
    ASSUME IInv, Reject \/ Launch \/ Sweep
    PROVE  IInv' /\ job' = job
  <1> USE DEF storeVars, timeline, txVars, peerVars, envVars
  <1>0. /\ Launcher \in Procs /\ SitesOf(Launcher) = LauncherSites
        /\ Reaper \in Procs /\ SitesOf(Reaper) = ReaperSites
    BY ProcsAssumption DEF Procs, SitesOf
  <1>1. RestOK' /\ UNCHANGED <<job, next, fresh, tries, flag, reason>>
    BY DEF Reject, Launch, Sweep, RestOK, IInv, TypeOK
  <1>2. CASE Launch
    <2>1. PICK site \in {"to_awaiting", "to_failed"} : Goto(Launcher, site)
      BY <1>2 DEF Launch
    <2>2. pc[Launcher] \notin UpdateSites /\ job # NoJob
      BY <1>0, <1>2 DEF Launch, IInv, JobInv, Idle, UpdateSites, AbortsOnTerminal
    <2>3. /\ site \in SitesOf(Launcher)
          /\ site \notin {"submit", "fail_job", "finish", "say_settled"}
      BY <1>0 DEF LauncherSites
    <2> QED
      BY <1>0, <1>1, <2>1, <2>2, <2>3, LocalStep
  <1>3. CASE Sweep
    <2>1. PICK site \in {"sleep", "fail_stuck"} :
             Goto(Reaper, site) /\ (site = "fail_stuck" => job.status = "awaiting_harness")
      BY <1>3 DEF Sweep
    <2>2. job = NoJob => site \in Idle
      BY <2>1 DEF NoJob, NewJob, Idle
    <2>3. pc[Reaper] \notin UpdateSites
      BY <1>3 DEF Sweep, UpdateSites, AbortsOnTerminal
    <2>4. /\ site \in SitesOf(Reaper)
          /\ site \notin {"submit", "fail_job", "finish", "say_settled"}
      BY <1>0 DEF ReaperSites
    <2> QED
      BY <1>0, <1>1, <2>1, <2>2, <2>3, <2>4, LocalStep
  <1>4. CASE Reject
    <2>1. Goto(Launcher, "exit") /\ pc[Launcher] \notin UpdateSites
      BY <1>4 DEF Reject, UpdateSites, AbortsOnTerminal
    <2>2. "exit" \in SitesOf(Launcher) /\ "exit" \in Idle
      BY <1>0 DEF LauncherSites, Idle
    <2> QED
      BY <1>0, <1>1, <2>1, <2>2, LocalStep
  <1> QED
    BY <1>2, <1>3, <1>4

\* A context that ends keeps the invariant.
LEMMA ContextIInv ==
    ASSUME IInv, \/ LauncherCtxDone
                 \/ \E s \in Streams : HangUp(s)
                 \/ \E c \in Cancellers : CallerGone(c)
    PROVE  IInv' /\ job' = job
  <1>1. /\ ctxDone' \in SUBSET Procs
        /\ UNCHANGED <<job, ending, late, session, pc, next, fresh, tries, flag, reason, told,
                       pumped, usable, faults, crashes>>
    BY DEF LauncherCtxDone, HangUp, CallerGone, storeVars, timeline, txVars, peerVars, IInv, TypeOK, Procs
  <1> HIDE DEF Statuses, StopReasons, JobRecord
  <1>2. TypeOK'
    BY <1>1 DEF IInv, TypeOK
  <1>3. JobInv' /\ TxInv' /\ FlagInv'
    BY <1>1 DEF IInv, JobInv, TxInv, FlagInv, Closure
  <1> QED
    BY <1>1, <1>2, <1>3 DEF IInv

\* Submit and SubmitLost keep the invariant and create the record.
LEMMA SubmitIInv ==
    ASSUME IInv, Submit \/ SubmitLost
    PROVE  IInv' /\ job = NoJob /\ job' = NewJob
  <1> USE DEF storeVars, timeline, txVars, peerVars, envVars
  <1>0. Launcher \in Procs /\ SitesOf(Launcher) = LauncherSites /\ pc \in [Procs -> Sites]
    BY DEF Procs, SitesOf, IInv, TypeOK
  <1>1. /\ job = NoJob /\ job' = NewJob /\ NewJob \in JobRecord /\ NewJob # NoJob
        /\ \E site \in {"say_queued", "exit"} : pc' = [pc EXCEPT ![Launcher] = site]
        /\ \A p \in Procs : pc[p] \in Idle
        /\ UNCHANGED <<ending, late, session, next, fresh, tries, flag, reason, told, pumped,
                       ctxDone, usable, crashes>>
        /\ faults' = faults \/ (faults < MaxFaults /\ faults' = faults + 1)
    BY DEF Submit, SubmitLost, Goto, IInv, JobInv, NewJob, NoJob
  <1>2. \A p \in Procs : next[p] = NoJob
    BY <1>1 DEF IInv, TxInv, Idle, UpdateSites, AbortsOnTerminal
  <1>3. fresh = {}
    BY <1>2 DEF IInv, TxInv, TypeOK
  <1>4. TypeOK'
    <2>1. pc' \in [Procs -> Sites] /\ \A q \in Procs : pc'[q] \in SitesOf(q)
      BY <1>0, <1>1 DEF IInv, TypeOK, Sites, LauncherSites
    <2>2. faults' \in 0 .. MaxFaults
      <3>1. faults \in 0 .. MaxFaults /\ MaxFaults \in Nat
        BY Bounds DEF IInv, TypeOK
      <3> QED
        BY <1>1, <3>1
    <2> HIDE DEF Statuses, StopReasons, JobRecord
    <2> QED
      BY <1>1, <2>1, <2>2 DEF IInv, TypeOK
  <1>5. JobInv'
    BY <1>0, <1>1 DEF JobInv
  <1>6. TxInv'
    BY <1>1, <1>2, <1>3 DEF TxInv
  <1>7. FlagInv'
    BY <1>0, <1>1, <1>2 DEF IInv, FlagInv
  <1> QED
    BY <1>1, <1>4, <1>5, <1>6, <1>7 DEF IInv

\* A crash keeps the invariant.
LEMMA CrashIInv ==
    ASSUME IInv, Crash
    PROVE  IInv' /\ job' = job
  <1> USE DEF storeVars, timeline
  <1>1. /\ \A p \in Procs : pc'[p] \in Idle /\ pc'[p] \in SitesOf(p)
        /\ pc'[Launcher] = "submit" => pc[Launcher] = "submit"
    <2>1. ASSUME NEW p \in Procs
          PROVE  /\ pc'[p] \in Idle /\ pc'[p] \in SitesOf(p)
                 /\ p # Reaper /\ pc'[p] = "submit" => pc[p] = "submit"
      BY <2>1, ProcsAssumption
         DEF Crash, IInv, TypeOK, Idle, SitesOf, Procs, LauncherSites, ReaperSites, StreamSites,
             RegisteredSites, CancelSites
    <2> QED
      BY <2>1, ProcsAssumption DEF Procs
  <1>2. pc' \in [Procs -> Sites]
    <2>1. \A p \in Procs : pc'[p] \in Sites
      BY <1>1 DEF SitesOf, Sites
    <2>2. pc' = [p \in Procs |-> pc'[p]]
      <3> DEFINE site(p) == CASE p = Reaper                      -> "sleep"
                              [] pc[p] \in {"submit", "away"}    -> pc[p]
                              [] p \in Cancellers                -> "error"
                              [] OTHER                           -> "exit"
      <3>1. pc' = [p \in Procs |-> site(p)]
        BY DEF Crash
      <3> HIDE DEF site
      <3> QED
        BY <3>1
    <2> QED
      BY <2>1, <2>2
  <1>3. crashes' \in 0 .. MaxCrashes
    <2>1. crashes \in 0 .. MaxCrashes /\ MaxCrashes \in Nat /\ crashes < MaxCrashes /\ crashes' = crashes + 1
      BY Bounds DEF Crash, IInv, TypeOK
    <2> QED
      BY <2>1
  <1>4. /\ next' = [p \in Procs |-> NoJob] /\ tries' = [p \in Procs |-> 0]
        /\ flag' = [p \in Procs |-> "none"] /\ reason' = [s \in Streams |-> "none"]
        /\ fresh' = {} /\ told' = {} /\ ctxDone' = {} /\ session' = None
        /\ UNCHANGED <<job, ending, late, pumped, usable, faults>>
    BY DEF Crash
  <1>5. TypeOK'
    <2>1. tries' \in [Procs -> 0 .. MaxUpdateRetries - 1]
      BY <1>4, Bounds
    <2>2. flag' \in [Procs -> Statuses \cup {"none"}] /\ reason' \in [Streams -> StopReasons \cup {"none"}]
      BY <1>4
    <2>3. next' \in [Procs -> JobRecord \cup {NoJob}]
      BY <1>4
    <2> HIDE DEF Statuses, StopReasons, JobRecord
    <2> QED
      BY <1>1, <1>2, <1>3, <1>4, <2>1, <2>2, <2>3 DEF IInv, TypeOK
  <1>6. JobInv'
    BY <1>1, <1>4 DEF IInv, JobInv, Procs
  <1>7. TxInv'
    BY <1>4 DEF TxInv
  <1>8. FlagInv'
    BY <1>1, <1>4 DEF FlagInv, Idle
  <1> QED
    BY <1>4, <1>5, <1>6, <1>7, <1>8 DEF IInv

-----------------------------------------------------------------------------
(***************************************************************************)
(* The theorems                                                            *)
(***************************************************************************)

\* A step changes the record by creating it or by an effect of a closure.
RecordStep ==
    \/ job' = job
    \/ job = NoJob /\ job' = NewJob
    \/ job \in JobRecord /\ Effect(job, job')

\* The invariant is inductive.
LEMMA NextIInv == IInv /\ [Next]_vars => IInv' /\ RecordStep
  <1> SUFFICES ASSUME IInv, [Next]_vars PROVE IInv' /\ RecordStep
    OBVIOUS
  <1> USE DEF RecordStep
  <1>1. ASSUME NEW p \in Procs, StoreCall(p) PROVE IInv' /\ RecordStep
    BY <1>1, UpdateJobStep, AppendStatusStep DEF StoreCall
  <1>2. CASE Submit \/ SubmitLost
    BY <1>2, SubmitIInv
  <1>3. CASE Reject \/ Launch \/ Sweep
    BY <1>3, LaunchSweepIInv
  <1>4. CASE LauncherCtxDone
    BY <1>4, ContextIInv
  <1>5. ASSUME NEW s \in Streams,
               \/ Dismiss(s) \/ Ready(s) \/ StreamStep(s) \/ ReceiveEvent(s) \/ HangUp(s)
               \/ \E r \in StopReasons : ReceiveDone(s, r)
        PROVE  IInv' /\ RecordStep
    BY <1>5, StreamStepIInv, ContextIInv
  <1>6. ASSUME NEW c \in Cancellers,
               Cancel(c) \/ CancelGetFails(c) \/ CancelStep(c) \/ CallerGone(c)
        PROVE  IInv' /\ RecordStep
    BY <1>6, CancelStepIInv, ContextIInv
  <1>7. CASE Crash
    BY <1>7, CrashIInv
  <1>8. CASE UNCHANGED vars
    <2>1. UNCHANGED <<job, ending, late, session, pc, next, fresh, tries, flag, reason, told,
                      pumped, ctxDone, usable, faults, crashes>>
      BY <1>8 DEF vars, storeVars, timeline, txVars, peerVars, envVars
    <2> HIDE DEF Statuses, StopReasons, JobRecord
    <2>2. TypeOK'
      BY <2>1 DEF IInv, TypeOK
    <2>3. JobInv' /\ TxInv' /\ FlagInv'
      BY <2>1 DEF IInv, JobInv, TxInv, FlagInv, Closure
    <2> QED
      BY <2>1, <2>2, <2>3 DEF IInv
  <1> QED
    BY <1>1, <1>2, <1>3, <1>4, <1>5, <1>6, <1>7, <1>8 DEF Next

\* The invariant holds throughout.
LEMMA AlwaysIInv == Spec => []IInv
  BY InitIInv, NextIInv, PTL DEF Spec

\* Every variable keeps its type and every handler stays in its own code,
\* for any number of streams, cancellations, retries, faults and crashes.
THEOREM TypeCorrect == Spec => []TypeOK
  <1>1. IInv => TypeOK
    BY DEF IInv
  <1> QED
    BY <1>1, AlwaysIInv, PTL

\* FinishedAt is set on settled jobs and on no others.
THEOREM FinishedTheorem == Spec => []FinishedIffTerminal
  <1>1. Init => FinishedIffTerminal
    BY DEF Init, FinishedIffTerminal, NoJob, NewJob
  <1>2. FinishedIffTerminal /\ RecordStep => FinishedIffTerminal'
    <2> SUFFICES ASSUME FinishedIffTerminal, RecordStep PROVE FinishedIffTerminal'
      OBVIOUS
    <2>1. CASE job' = job
      BY <2>1 DEF FinishedIffTerminal
    <2>2. CASE job' = NewJob
      BY <2>2 DEF FinishedIffTerminal, NewJob
    <2>3. CASE job \in JobRecord /\ Effect(job, job')
      BY <2>3, EffectFinished DEF FinishedIffTerminal
    <2> QED
      BY <2>1, <2>2, <2>3 DEF RecordStep
  <1> QED
    BY <1>1, <1>2, AlwaysIInv, NextIInv, PTL DEF Spec

\* No interleaving of UpdateJob's attempts, failing call or crash changes the
\* outcome of a settled job (the Terminal checks inside the closures).
THEOREM TerminalFinality == Spec => TerminalIsFinal
  <1>1. FinishedIffTerminal /\ RecordStep =>
           [Terminal(job.status) => /\ job'.status = job.status
                                    /\ job'.stopReason = job.stopReason
                                    /\ job'.finished]_job
    <2> SUFFICES ASSUME FinishedIffTerminal, RecordStep, Terminal(job.status), job' # job
                 PROVE  /\ job'.status = job.status
                        /\ job'.stopReason = job.stopReason
                        /\ job'.finished
      OBVIOUS
    <2>1. job \in JobRecord /\ Effect(job, job')
      BY DEF RecordStep, NoJob, NewJob
    <2> QED
      BY <2>1, EffectFinal DEF FinishedIffTerminal
  <1> QED
    BY <1>1, AlwaysIInv, NextIInv, FinishedTheorem, PTL DEF Spec, TerminalIsFinal

\* The handlers implement the record's contract: the optimistic transactions
\* of UpdateJob appear to a reader as atomic steps of JobStatus.
THEOREM Refinement == Spec => RecordContract
  <1> USE DEF NoJob, NewJob, JobStatusSpec!NoJob, JobStatusSpec!NewJob, JobStatusSpec!Terminal,
              JobStatusSpec!Statuses, JobStatusSpec!StopReasons
  <1>1. Init => JobStatusSpec!Init
    BY DEF Init, JobStatusSpec!Init
  <1>2. RecordStep => [JobStatusSpec!Next]_job
    <2> SUFFICES ASSUME RecordStep, job' # job PROVE JobStatusSpec!Next
      OBVIOUS
    <2>1. CASE job = NoJob /\ job' = NewJob
      BY <2>1 DEF JobStatusSpec!Next, JobStatusSpec!Create
    <2>2. CASE job \in JobRecord /\ Effect(job, job')
      <3>1. job # NoJob
        BY <2>2 DEF NoJob, NewJob
      <3>2. CASE \/ job.status = "queued" /\ job' = [job EXCEPT !.status = "launching"]
                 \/ job.status = "launching" /\ job' = [job EXCEPT !.status = "awaiting_harness"]
        BY <3>2 DEF JobStatusSpec!Next, JobStatusSpec!Advance
      <3>3. CASE ~Terminal(job.status) /\ job' = [job EXCEPT !.status = "running"]
        BY <3>1, <3>3 DEF JobStatusSpec!Next, JobStatusSpec!Run
      <3>4. CASE ~Terminal(job.status) /\ Settles(job, job')
        BY <3>1, <3>4 DEF JobStatusSpec!Next, JobStatusSpec!Settle, Settles
      <3>5. CASE job' = [job EXCEPT !.cancelRequested = TRUE]
        BY <3>1, <3>5 DEF JobStatusSpec!Next, JobStatusSpec!Ask
      <3> QED
        BY <2>2, <3>2, <3>3, <3>4, <3>5 DEF Effect
    <2> QED
      BY <2>1, <2>2 DEF RecordStep
  <1> QED
    BY <1>1, <1>2, AlwaysIInv, NextIInv, PTL DEF Spec, RecordContract, JobStatusSpec!Spec

\* A call of UpdateJob touches no other handler and leaves the caller
\* registered or not as it was.
LEMMA UpdateJobRegistered ==
    ASSUME IInv, NEW p \in Procs, UpdateJob(p)
    PROVE  /\ session' = session
           /\ \A q \in Procs \ {p} : pc'[q] = pc[q]
           /\ pc'[p] \in RegisteredSites <=> pc[p] \in RegisteredSites
  <1>1. pc[p] \in UpdateSites \cap SitesOf(p) /\ pc \in [Procs -> Sites]
    BY DEF UpdateJob, MemUpdate, TxRead, TxExec, UpdateFails, IInv, TypeOK, TxInv
  <1>2. ASSUME NEW out, NEW fl, Return(p, out, fl)
        PROVE  /\ session' = session
               /\ \A q \in Procs \ {p} : pc'[q] = pc[q]
               /\ pc'[p] \in RegisteredSites <=> pc[p] \in RegisteredSites
    <2>1. session' = session /\ pc' = [pc EXCEPT ![p] = AfterUpdate(pc[p], out, fl)]
      BY <1>2 DEF Return, Goto
    <2>2. AfterUpdate(pc[p], out, fl) \in RegisteredSites <=> pc[p] \in RegisteredSites
      BY <1>1, AfterUpdateSite
    <2> QED
      BY <1>1, <2>1, <2>2
  <1>3. CASE session' = session /\ pc' = pc
    BY <1>3
  <1> QED
    BY <1>2, <1>3 DEF UpdateJob, MemUpdate, TxRead, TxExec, UpdateFails

\* The registry names the one stream that is past Register and not past
\* Unregister, also when streams race to register, end, or lose the server.
THEOREM RegistryTheorem == Spec => []RegistryOwnsStream
  <1>1. Init => RegistryOwnsStream
    BY ProcsAssumption DEF Init, RegistryOwnsStream, RegisteredSites, Procs
  <1>2. IInv /\ RegistryOwnsStream /\ [Next]_vars => RegistryOwnsStream'
    <2> SUFFICES ASSUME IInv, RegistryOwnsStream, [Next]_vars PROVE RegistryOwnsStream'
      OBVIOUS
    <2>0. pc \in [Procs -> Sites] /\ Streams \subseteq Procs
      BY DEF IInv, TypeOK, Procs
    <2>1. ASSUME NEW p \in Procs, UpdateJob(p) PROVE RegistryOwnsStream'
      BY <2>0, <2>1, UpdateJobRegistered DEF RegistryOwnsStream
    <2>2. ASSUME NEW p \in Procs, AppendStatus(p) PROVE RegistryOwnsStream'
      <3>1. /\ pc[p] \in SaySites \cap SitesOf(p) /\ session' = session
            /\ pc' = [pc EXCEPT ![p] = AfterSay(pc[p])]
        BY <2>2 DEF AppendStatus, Goto, IInv, TypeOK
      <3>2. AfterSay(pc[p]) \in RegisteredSites <=> pc[p] \in RegisteredSites
        BY <3>1, AfterSaySite
      <3> QED
        BY <2>0, <3>1, <3>2 DEF RegistryOwnsStream
    <2>3. CASE Submit \/ Reject \/ SubmitLost \/ Launch \/ Sweep
      <3>1. session' = session /\ \A s \in Streams : pc'[s] = pc[s]
        BY <2>0, <2>3, ProcsAssumption DEF Submit, Reject, SubmitLost, Launch, Sweep, Goto
      <3> QED
        BY <3>1 DEF RegistryOwnsStream
    <2>4. CASE \/ LauncherCtxDone
               \/ \E s \in Streams : HangUp(s)
               \/ \E c \in Cancellers : CallerGone(c)
               \/ UNCHANGED vars
      BY <2>4 DEF LauncherCtxDone, HangUp, CallerGone, vars, RegistryOwnsStream
    <2>5. ASSUME NEW c \in Cancellers, Cancel(c) \/ CancelGetFails(c) \/ CancelStep(c)
          PROVE  RegistryOwnsStream'
      <3>1. session' = session /\ \E site : pc' = [pc EXCEPT ![c] = site]
        BY <2>5 DEF Cancel, CancelGetFails, CancelStep, CheckConnected, SendCancel, Goto
      <3>2. \A s \in Streams : pc'[s] = pc[s]
        BY <2>0, <3>1, ProcsAssumption
      <3> QED
        BY <3>1, <3>2 DEF RegistryOwnsStream
    <2>6. ASSUME NEW s \in Streams, Dismiss(s) \/ Ready(s) PROVE RegistryOwnsStream'
      <3>1. /\ session' = session /\ pc[s] \notin RegisteredSites
            /\ \E site \in {"exit", "finalise_cancelled", "register"} : pc' = [pc EXCEPT ![s] = site]
        BY <2>6 DEF Dismiss, Ready, Goto, RegisteredSites
      <3> QED
        BY <2>0, <3>1 DEF RegistryOwnsStream, RegisteredSites
    <2>7. ASSUME NEW s \in Streams, Register(s) PROVE RegistryOwnsStream'
      <3>1. CASE session = None
        BY <2>0, <2>7, <3>1, ProcsAssumption DEF Register, JobFree, Goto, RegistryOwnsStream, RegisteredSites
      <3>2. CASE session # None
        BY <2>0, <2>7, <3>2 DEF Register, JobFree, Goto, RegistryOwnsStream, RegisteredSites
      <3> QED
        BY <3>1, <3>2
    <2>8. ASSUME NEW s \in Streams,
                 \/ Assign(s) \/ ReceiveEvent(s) \/ ReceiveEnd(s)
                 \/ \E r \in StopReasons : ReceiveDone(s, r)
          PROVE  RegistryOwnsStream'
      <3>1. /\ session' = session /\ pc[s] \in RegisteredSites
            /\ \E site \in RegisteredSites : pc' = [pc EXCEPT ![s] = site]
        BY <2>8 DEF Assign, ReceiveEvent, ReceiveEnd, ReceiveDone, Goto, RegisteredSites
      <3> QED
        BY <2>0, <3>1 DEF RegistryOwnsStream
    <2>9. ASSUME NEW s \in Streams, Unregister(s) PROVE RegistryOwnsStream'
      <3>1. pc[s] = "closing" /\ pc' = [pc EXCEPT ![s] = "exit"] /\ session = s /\ session' = None
        BY <2>9 DEF Unregister, RegistryUnregister, Goto, RegistryOwnsStream, RegisteredSites
      <3> QED
        BY <2>0, <3>1, ProcsAssumption DEF RegistryOwnsStream, RegisteredSites
    <2>10. CASE Crash
      <3>1. session' = None /\ \A s \in Streams : pc'[s] \in {"away", "submit", "exit"}
        BY <2>0, <2>10, ProcsAssumption DEF Crash
      <3> QED
        BY <3>1, ProcsAssumption DEF RegistryOwnsStream, RegisteredSites
    <2> QED
      BY <2>1, <2>2, <2>3, <2>4, <2>5, <2>6, <2>7, <2>8, <2>9, <2>10
         DEF Next, StoreCall, StreamStep
  <1> QED
    BY <1>1, <1>2, AlwaysIInv, PTL DEF Spec

\* Only the pump's own UpdateJob takes a stream from closeUnfinished to the
\* announcement, and only when it committed.
LEMMA ClosureCommits ==
    ASSUME IInv, NEW s \in Streams, UpdateJob(s),
           pc[s] = "close_unfinished", pc'[s] = "say_settled"
    PROVE  /\ job' = CloseUnfinished(job) /\ job \in JobRecord
           /\ flag'[s] = job'.status
  <1>0. s \in Procs /\ pc \in [Procs -> Sites] /\ pc[s] \in UpdateSites
        /\ flag \in [Procs -> Statuses \cup {"none"}] /\ pc'[s] # pc[s]
    BY DEF Procs, IInv, TypeOK, UpdateSites, AbortsOnTerminal
  <1>1. ASSUME NEW out, NEW fl, Return(s, out, fl)
        PROVE  out = "ok" /\ flag'[s] = fl
    <2>1. AfterUpdate(pc[s], out, fl) = "say_settled"
      BY <1>0, <1>1 DEF Return, Goto
    <2>2. out = "ok"
      BY <2>1 DEF AfterUpdate
    <2> QED
      BY <1>0, <1>1, <2>1, <2>2 DEF Return, SaySites
  <1>2. Closure(s, job) = CloseUnfinished(job)
    BY DEF Closure, Apply
  <1>3. CASE MemUpdate(s)
    <2>1. ~Aborts(pc[s], job)
      BY <1>1, <1>3 DEF MemUpdate
    <2> QED
      BY <1>0, <1>1, <1>2, <1>3, <2>1, ClosureType DEF MemUpdate
  <1>4. CASE TxRead(s)
    BY <1>0, <1>1, <1>4 DEF TxRead
  <1>5. CASE TxExec(s)
    <2>1. s \in fresh /\ job' = next[s] /\ flag'[s] = flag[s]
      BY <1>0, <1>1, <1>5 DEF TxExec, WatchHolds
    <2>2. ~Aborts(pc[s], job) /\ next[s] = Closure(s, job) /\ next[s] # NoJob
      BY <2>1 DEF IInv, TxInv
    <2>3. flag[s] = next[s].status
      BY <1>0, <2>1, <2>2 DEF IInv, FlagInv
    <2> QED
      BY <1>0, <1>2, <2>1, <2>2, <2>3, ClosureType
  <1>6. CASE UpdateFails(s)
    BY <1>1, <1>6 DEF UpdateFails
  <1> QED
    BY <1>3, <1>4, <1>5, <1>6 DEF UpdateJob

\* A stream that ends without done is recorded, and announced, as cancelled
\* exactly when the record it replaces carried a cancel request.
THEOREM ClosureTheorem == Spec => CancelExplainsClosure
  <1> DEFINE Explained(s) ==
        pc[s] = "close_unfinished" /\ pc'[s] = "say_settled" =>
           /\ job'.status = IF job.cancelRequested THEN "cancelled" ELSE "failed"
           /\ flag'[s] = job'.status
  <1>1. IInv /\ [Next]_vars => [\A s \in Streams : Explained(s)]_vars
    <2> SUFFICES ASSUME IInv, Next, NEW s \in Streams,
                        pc[s] = "close_unfinished", pc'[s] = "say_settled"
                 PROVE  /\ job'.status = IF job.cancelRequested THEN "cancelled" ELSE "failed"
                        /\ flag'[s] = job'.status
      OBVIOUS
    <2>0. s \in Procs /\ pc \in [Procs -> Sites]
      BY DEF Procs, IInv, TypeOK
    <2>1. UpdateJob(s)
      <3>1. ASSUME NEW p \in Procs, StoreCall(p) PROVE UpdateJob(s)
        <4>1. CASE UpdateJob(p)
          BY <2>0, <4>1, UpdateJobRegistered
        <4>2. CASE AppendStatus(p)
          BY <2>0, <4>2 DEF AppendStatus, Goto, SaySites
        <4> QED
          BY <3>1, <4>1, <4>2 DEF StoreCall
      <3>2. CASE Submit \/ Reject \/ SubmitLost \/ Launch \/ LauncherCtxDone \/ Sweep
        BY <2>0, <3>2, ProcsAssumption
           DEF Submit, Reject, SubmitLost, Launch, LauncherCtxDone, Sweep, Goto
      <3>3. ASSUME NEW t \in Streams,
                   \/ Dismiss(t) \/ Ready(t) \/ StreamStep(t) \/ ReceiveEvent(t) \/ HangUp(t)
                   \/ \E r \in StopReasons : ReceiveDone(t, r)
            PROVE  FALSE
        <4>1. CASE pc' = pc
          BY <4>1
        <4>2. CASE pc[t] # "close_unfinished" /\ \E site : pc' = [pc EXCEPT ![t] = site]
          BY <2>0, <4>2
        <4> QED
          BY <3>3, <4>1, <4>2
             DEF Dismiss, Ready, StreamStep, Register, Assign, ReceiveEvent, ReceiveEnd, ReceiveDone,
                 Unregister, HangUp, Goto
      <3>4. ASSUME NEW c \in Cancellers,
                   Cancel(c) \/ CancelGetFails(c) \/ CancelStep(c) \/ CallerGone(c)
            PROVE  FALSE
        <4>1. pc' = pc \/ \E site : pc' = [pc EXCEPT ![c] = site]
          BY <3>4 DEF Cancel, CancelGetFails, CancelStep, CheckConnected, SendCancel, CallerGone, Goto
        <4> QED
          BY <2>0, <4>1, ProcsAssumption
      <3>5. CASE Crash
        BY <2>0, <3>5, ProcsAssumption DEF Crash
      <3> QED
        BY <3>1, <3>2, <3>3, <3>4, <3>5 DEF Next
    <2>2. /\ job' = CloseUnfinished(job) /\ job \in JobRecord
          /\ flag'[s] = job'.status
      BY <2>1, ClosureCommits
    <2>3. CloseUnfinished(job).status = IF job.cancelRequested THEN "cancelled" ELSE "failed"
      BY <2>2 DEF CloseUnfinished, FinaliseCancelled, FailJob
    <2> QED
      BY <2>2, <2>3
  <1> QED
    BY <1>1, AlwaysIInv, PTL DEF Spec, CancelExplainsClosure

-----------------------------------------------------------------------------
(***************************************************************************)
(* The in-memory store                                                     *)
(*                                                                         *)
(* What a handler believes about the job after UpdateJob or AppendEvent    *)
(* returned is only true when the call cannot fail after taking effect.    *)
(* memStore gives that: it has no failing calls, ignores contexts, and its *)
(* jobs end with the process (BoundsAssumption).  Over Redis all three     *)
(* properties below fail: a call may report an error after it took effect, *)
(* a retried closure may leave its captured variable set, and a crash      *)
(* forgets the streams.  Hence the hypothesis Store = "mem".               *)
(***************************************************************************)

\* The locations of a run: from the running transition to the write that
\* settles the job.
Pumping == {"say_running", "pump", "touch", "finish", "close_unfinished"}

\* The statuses of a job that has been run.
RunStatuses == {"running", "succeeded", "failed", "cancelled"}

\* Streams that have begun a run, in this or an earlier location.
Started == pumped \cup {s \in Streams : pc[s] = "say_running"}

\* A running job is being run, by the only stream that ever began to.
RunInv ==
    /\ job.status = "running" => \E s \in Streams : pc[s] \in Pumping
    /\ \A s, t \in Started : s = t
    /\ Started # {} => job.status \in RunStatuses

\* The captured variable is empty but where a handler is settling the job or
\* announcing a status, and there it is the status the closure writes.
Heard(p) ==
    /\ pc[p] \notin SaySites \cup {"fail_job", "finish"} => flag[p] = "none"
    /\ pc[p] = "fail_job" => flag[p] = "failed"
    /\ pc[p] = "finish" => /\ p \in Streams /\ reason[p] \in StopReasons
                           /\ flag[p] = StatusForStopReason(reason[p])

\* p is about to append a terminal status_change.
Announces(p) == pc[p] \in SaySites /\ Terminal(StatusSaid(p))

\* At most one handler has a terminal status to announce, and it is the
\* job's; nothing terminal has been announced before.
EndInv ==
    /\ \A p \in Procs : Heard(p)
    /\ \A p \in Procs : Announces(p) => StatusSaid(p) = job.status /\ ending = "none"
    /\ \A p, q \in Procs : Announces(p) /\ Announces(q) => p = q
    /\ late = {}
    /\ ending # "none" => ending = job.status /\ Terminal(job.status)

\* What each closure makes of the status.
LEMMA ApplyStatus ==
    ASSUME NEW j \in JobRecord, NEW r
    PROVE  /\ \A site \in {"touch", "request_cancel"} : Apply(site, r, j).status = j.status
           /\ Apply("to_launching", r, j).status =
                 IF j.status = "queued" THEN "launching" ELSE j.status
           /\ Apply("to_failed", r, j).status =
                 IF j.status = "launching" THEN "failed" ELSE j.status
           /\ Apply("to_awaiting", r, j).status =
                 IF j.status = "launching" THEN "awaiting_harness" ELSE j.status
           /\ Apply("mark_running", r, j).status = "running"
           /\ Apply("fail_job", r, j).status = "failed"
           /\ Apply("finalise_cancelled", r, j).status = "cancelled"
           /\ Apply("finish", r, j).status = StatusForStopReason(r)
           /\ Apply("close_unfinished", r, j).status = CloseUnfinished(j).status
           /\ CloseUnfinished(j).status \in {"failed", "cancelled"}
           /\ Apply("cancel_unassigned", r, j).status =
                 IF Terminal(j.status) THEN j.status ELSE "cancelled"
           /\ Apply("fail_stuck", r, j).status =
                 IF j.status = "awaiting_harness" THEN "failed" ELSE j.status
  <1>1. \A site \in {"touch", "request_cancel"} : Apply(site, r, j).status = j.status
    BY DEF Apply, RequestCancel
  <1>2. \A from \in Statuses, to \in Statuses :
           Transition(j, from, to).status = IF j.status = from THEN to ELSE j.status
    BY DEF Transition
  <1>3. /\ Apply("to_launching", r, j) = Transition(j, "queued", "launching")
        /\ Apply("to_failed", r, j) = Transition(j, "launching", "failed")
        /\ Apply("to_awaiting", r, j) = Transition(j, "launching", "awaiting_harness")
    BY DEF Apply
  <1>4. /\ Apply("mark_running", r, j).status = "running"
        /\ Apply("fail_job", r, j).status = "failed"
    BY DEF Apply, MarkRunning, FailJob
  <1>5. /\ Apply("finalise_cancelled", r, j).status = "cancelled"
        /\ Apply("finish", r, j).status = StatusForStopReason(r)
    BY DEF Apply, FinaliseCancelled, Finish
  <1>6. /\ Apply("close_unfinished", r, j).status = CloseUnfinished(j).status
        /\ CloseUnfinished(j).status \in {"failed", "cancelled"}
    BY DEF Apply, CloseUnfinished, FinaliseCancelled, FailJob
  <1>7. /\ Apply("cancel_unassigned", r, j).status =
              IF Terminal(j.status) THEN j.status ELSE "cancelled"
        /\ Apply("fail_stuck", r, j).status =
              IF j.status = "awaiting_harness" THEN "failed" ELSE j.status
    BY DEF Apply, CancelUnassigned, FailStuckHarness, FailJob
  <1>8. /\ Apply("to_launching", r, j).status =
              IF j.status = "queued" THEN "launching" ELSE j.status
        /\ Apply("to_failed", r, j).status =
              IF j.status = "launching" THEN "failed" ELSE j.status
        /\ Apply("to_awaiting", r, j).status =
              IF j.status = "launching" THEN "awaiting_harness" ELSE j.status
    BY <1>2, <1>3
  <1> QED
    BY <1>1, <1>4, <1>5, <1>6, <1>7, <1>8

\* What memStore.UpdateJob does to its caller p and to the status.
MemMove(p) ==
    /\ UNCHANGED <<ending, late, reason, pumped>>
    /\ \A q \in Procs \ {p} : pc'[q] = pc[q] /\ flag'[q] = flag[q]
    /\ Heard(p)'
    /\ ~Announces(p)
    /\ Terminal(job.status) => job'.status = job.status /\ ~Announces(p)'
    /\ Announces(p)' => StatusSaid(p)' = job'.status
    /\ job'.status = "running" => job.status = "running" \/ pc'[p] = "say_running"
    /\ pc'[p] = "say_running" =>
          pc[p] = "mark_running" /\ ~Terminal(job.status) /\ job'.status = "running"
    /\ pc[p] \in Pumping => pc[p] # "say_running" /\ (pc'[p] \in Pumping \/ Terminal(job'.status))
    /\ job.status \in RunStatuses => job'.status \in RunStatuses

LEMMA MemUpdateMove ==
    ASSUME IInv, NEW p \in Procs, Heard(p), MemUpdate(p)
    PROVE  MemMove(p)
  <1>0. /\ pc[p] \in UpdateSites /\ pc[p] \notin Idle /\ pc[p] \notin SaySites
        /\ pc \in [Procs -> Sites] /\ flag \in [Procs -> Statuses \cup {"none"}]
    BY DEF MemUpdate, UpdateSites, Idle, SaySites, IInv, TypeOK
  <1>1. job \in JobRecord
    BY <1>0, JobExists
  <1>2. ASSUME NEW out, NEW fl, Return(p, out, fl)
        PROVE  /\ UNCHANGED <<ending, late, reason, pumped>>
               /\ \A q \in Procs \ {p} : pc'[q] = pc[q] /\ flag'[q] = flag[q]
               /\ pc'[p] = AfterUpdate(pc[p], out, fl)
               /\ flag'[p] = IF pc'[p] \in SaySites THEN fl ELSE "none"
    BY <1>0, <1>2 DEF Return, Goto, timeline
  <1>3. CASE Aborts(pc[p], job)
    <2>1. Return(p, "noupdate", flag[p]) /\ job' = job
      BY <1>3 DEF MemUpdate
    <2>2. pc'[p] \in {"closing", "exit"} /\ flag'[p] = "none" /\ Terminal(job.status)
      BY <1>2, <1>3, <2>1 DEF Aborts, AbortsOnTerminal, AfterUpdate, SaySites
    <2> QED
      BY <1>0, <1>1, <1>2, <2>1, <2>2
         DEF MemMove, Heard, Announces, SaySites, Pumping, RunStatuses, UpdateSites
  <1>4. CASE ~Aborts(pc[p], job)
    <2> DEFINE r == IF p \in Streams THEN reason[p] ELSE "none"
               fl == Captured(p, job)
    <2>1. Return(p, "ok", fl) /\ job' = Apply(pc[p], r, job)
      BY <1>4 DEF MemUpdate, Closure
    <2>2. /\ pc'[p] = AfterUpdate(pc[p], "ok", fl)
          /\ flag'[p] = IF pc'[p] \in SaySites THEN fl ELSE "none"
      BY <1>2, <2>1
    <2>3. /\ UNCHANGED <<ending, late, reason, pumped>>
          /\ \A q \in Procs \ {p} : pc'[q] = pc[q] /\ flag'[q] = flag[q]
          /\ ~Announces(p)
      BY <1>0, <1>2, <2>1 DEF Announces
    <2>4. CASE pc[p] \in {"to_launching", "to_failed", "to_awaiting", "fail_stuck"}
      <3> DEFINE from == IF pc[p] = "to_launching" THEN "queued"
                         ELSE IF pc[p] = "fail_stuck" THEN "awaiting_harness" ELSE "launching"
                 to == IF pc[p] = "to_launching" THEN "launching"
                       ELSE IF pc[p] = "to_awaiting" THEN "awaiting_harness" ELSE "failed"
                 say == IF pc[p] = "to_launching" THEN "say_launching"
                        ELSE IF pc[p] = "to_awaiting" THEN "say_awaiting"
                        ELSE IF pc[p] = "to_failed" THEN "say_failed" ELSE "say_stuck"
      <3>1. flag[p] = "none"
        BY <2>4 DEF Heard, SaySites
      <3>2. fl = IF job.status = from THEN to ELSE "none"
        BY <2>4, <3>1 DEF Captured
      <3>3. job'.status = IF job.status = from THEN to ELSE job.status
        BY <2>1, <2>4, <1>1, ApplyStatus
      <3>4. pc'[p] = IF job.status = from THEN say ELSE IF pc[p] = "fail_stuck" THEN "sleep" ELSE "exit"
        BY <2>2, <2>4, <3>2 DEF AfterUpdate
      <3>5. flag'[p] = IF job.status = from THEN to ELSE "none"
        BY <2>2, <2>4, <3>2, <3>4 DEF SaySites
      <3>6. Heard(p)'
        BY <2>4, <3>4, <3>5 DEF Heard, SaySites
      <3>7. pc'[p] \in SaySites => StatusSaid(p)' = to /\ job.status = from
        BY <2>4, <3>4 DEF StatusSaid, SaySites
      <3> HIDE DEF r, fl
      <3> QED
        BY <1>1, <2>3, <2>4, <3>3, <3>4, <3>6, <3>7
           DEF MemMove, Announces, Pumping, RunStatuses
    <2>5. CASE pc[p] \in {"mark_running", "touch", "request_cancel"}
      <3>1. flag[p] = "none"
        BY <2>5 DEF Heard, SaySites
      <3>2. fl = "none"
        BY <2>5, <3>1 DEF Captured
      <3>3. pc'[p] = IF pc[p] = "mark_running" THEN "say_running"
                     ELSE IF pc[p] = "touch" THEN "pump" ELSE "send_cancel"
        BY <2>2, <2>5 DEF AfterUpdate
      <3>4. flag'[p] = "none"
        BY <2>2, <3>2
      <3>5. job'.status = IF pc[p] = "mark_running" THEN "running" ELSE job.status
        BY <2>1, <2>5, <1>1, ApplyStatus
      <3>6. pc[p] = "mark_running" => ~Terminal(job.status)
        BY <1>4 DEF Aborts, AbortsOnTerminal
      <3>7. Heard(p)' /\ ~Announces(p)'
        BY <2>5, <3>3, <3>4 DEF Heard, Announces, StatusSaid, SaySites
      <3> HIDE DEF r, fl
      <3> QED
        BY <1>1, <2>3, <2>5, <3>3, <3>5, <3>6, <3>7 DEF MemMove, Pumping, RunStatuses
    <2>6. CASE pc[p] \in {"fail_job", "finalise_cancelled", "finish", "close_unfinished"}
      <3>1. ~Terminal(job.status)
        BY <1>4, <2>6 DEF Aborts, AbortsOnTerminal
      <3>2. pc'[p] = IF pc[p] = "finalise_cancelled" THEN "say_cancelled" ELSE "say_settled"
        BY <2>2, <2>6 DEF AfterUpdate
      <3>3. Terminal(job'.status)
        BY <2>1, <2>6, <1>1, ApplyStatus DEF StatusForStopReason
      <3>4. flag'[p] = fl
        BY <2>2, <2>6, <3>2 DEF SaySites
      <3>5. pc[p] = "fail_job" => StatusSaid(p)' = job'.status
        BY <2>1, <1>1, <3>2, <3>4, ApplyStatus DEF Captured, Heard, StatusSaid
      <3>6. pc[p] = "finalise_cancelled" => StatusSaid(p)' = job'.status
        BY <2>1, <1>1, <3>2, <3>4, ApplyStatus DEF StatusSaid
      <3>7. pc[p] = "finish" => StatusSaid(p)' = job'.status
        BY <2>1, <1>1, <3>2, <3>4, ApplyStatus DEF Captured, Heard, StatusSaid
      <3>8. pc[p] = "close_unfinished" => StatusSaid(p)' = job'.status
        BY <2>1, <1>1, <3>2, <3>4, ApplyStatus DEF Captured, StatusSaid
      <3>9. Heard(p)'
        BY <2>6, <3>2 DEF Heard, SaySites
      <3> HIDE DEF r, fl
      <3> QED
        BY <1>1, <2>3, <2>6, <3>1, <3>2, <3>3, <3>5, <3>6, <3>7, <3>8, <3>9
           DEF MemMove, Pumping, RunStatuses
    <2>7. CASE pc[p] = "cancel_unassigned"
      <3>1. flag[p] = "none"
        BY <2>7 DEF Heard, SaySites
      <3>2. fl = IF Terminal(job.status) THEN "none" ELSE "cancelled"
        BY <2>7, <3>1 DEF Captured
      <3>3. pc'[p] = IF Terminal(job.status) THEN "exit" ELSE "say_cancelled"
        BY <2>2, <2>7, <3>2 DEF AfterUpdate
      <3>4. job'.status = IF Terminal(job.status) THEN job.status ELSE "cancelled"
        BY <2>1, <2>7, <1>1, ApplyStatus
      <3>5. Heard(p)'
        BY <2>2, <3>3 DEF Heard, SaySites
      <3>6. pc'[p] = "say_cancelled" => StatusSaid(p)' = "cancelled"
        BY DEF StatusSaid
      <3> HIDE DEF r, fl
      <3> QED
        BY <1>1, <2>3, <2>7, <3>3, <3>4, <3>5, <3>6
           DEF MemMove, Announces, SaySites, Pumping, RunStatuses
    <2> QED
      BY <1>0, <2>4, <2>5, <2>6, <2>7 DEF UpdateSites
  <1> QED
    BY <1>3, <1>4

\* memStore.UpdateJob keeps both invariants: only the registered stream can
\* start a run, and only the handler that settles the job will announce it.
LEMMA MemMoveKeeps ==
    ASSUME IInv, RegistryOwnsStream, RunInv, EndInv, NEW p \in Procs, MemMove(p)
    PROVE  RunInv' /\ EndInv'
  <1>0. /\ Streams \subseteq Procs /\ pumped \subseteq Streams /\ None \notin Streams
        /\ \A q \in Procs : pc[q] \in Sites \cap SitesOf(q)
    BY ProcsAssumption DEF Procs, IInv, TypeOK
  <1>1. UNCHANGED <<ending, late, reason, pumped>>
    BY DEF MemMove
  <1>2. \A q \in Procs \ {p} : pc'[q] = pc[q] /\ flag'[q] = flag[q]
    BY DEF MemMove
  <1>3. ASSUME pc'[p] = "say_running" PROVE RunInv'
    <2>1. pc[p] = "mark_running" /\ ~Terminal(job.status) /\ job'.status = "running"
      BY <1>3 DEF MemMove
    <2>2. p \in Streams /\ session = p
      BY <1>0, <2>1 DEF SitesOf, LauncherSites, ReaperSites, CancelSites,
                        RegistryOwnsStream, RegisteredSites
    <2>3. \A t \in Streams : pc[t] \in Pumping => t = p
      BY <2>2 DEF RegistryOwnsStream, RegisteredSites, Pumping
    <2>4. Started = {}
      BY <2>1, <2>3 DEF RunInv, RunStatuses, Pumping
    <2>5. Started' = {p}
      BY <1>0, <1>1, <1>2, <1>3, <2>2, <2>4 DEF Started
    <2> QED
      BY <1>3, <2>1, <2>2, <2>5 DEF RunInv, Pumping, RunStatuses
  <1>4. ASSUME pc'[p] # "say_running" PROVE RunInv'
    <2>1. Started' \subseteq Started
      BY <1>0, <1>1, <1>2, <1>4 DEF Started
    <2>2. Started' # {} => job'.status \in RunStatuses
      BY <2>1 DEF RunInv, MemMove
    <2>3. job'.status = "running" => \E s \in Streams : pc'[s] \in Pumping
      <3> SUFFICES ASSUME job'.status = "running" PROVE \E s \in Streams : pc'[s] \in Pumping
        OBVIOUS
      <3>1. job.status = "running"
        BY <1>4 DEF MemMove
      <3>2. PICK s \in Streams : pc[s] \in Pumping
        BY <3>1 DEF RunInv
      <3>3. s = p => pc'[s] \in Pumping
        BY <3>2 DEF MemMove
      <3>4. s # p => pc'[s] = pc[s]
        BY <1>0, <1>2
      <3> QED
        BY <3>2, <3>3, <3>4
    <2> QED
      BY <2>1, <2>2, <2>3 DEF RunInv
  <1>5. RunInv'
    BY <1>3, <1>4
  <1>6. \A q \in Procs \ {p} : /\ Heard(q)' <=> Heard(q)
                               /\ Announces(q)' <=> Announces(q)
                               /\ StatusSaid(q)' = StatusSaid(q)
    BY <1>1, <1>2 DEF Heard, Announces, StatusSaid
  <1>7. \A q \in Procs : Heard(q)'
    BY <1>6 DEF EndInv, MemMove
  <1>8. CASE Terminal(job.status)
    <2>1. job'.status = job.status /\ ~Announces(p)'
      BY <1>8 DEF MemMove
    <2> QED
      BY <1>1, <1>5, <1>6, <1>7, <2>1 DEF EndInv
  <1>9. CASE ~Terminal(job.status)
    <2>1. ending = "none" /\ \A q \in Procs : ~Announces(q)
      BY <1>9 DEF EndInv, Announces
    <2>2. \A q \in Procs \ {p} : ~Announces(q)'
      BY <1>6, <2>1
    <2>3. Announces(p)' => StatusSaid(p)' = job'.status
      BY DEF MemMove
    <2> QED
      BY <1>1, <1>5, <1>7, <2>1, <2>2, <2>3 DEF EndInv
  <1> QED
    BY <1>8, <1>9

\* A handler's append goes through and says what its UpdateJob wrote.
LEMMA MemAppendKeeps ==
    ASSUME Store = "mem", IInv, RunInv, EndInv, NEW p \in Procs, AppendStatus(p)
    PROVE  RunInv' /\ EndInv'
  <1>0. /\ Streams \subseteq Procs /\ pumped \subseteq Streams
        /\ pc \in [Procs -> Sites] /\ pc[p] \in SaySites \cap SitesOf(p)
        /\ flag \in [Procs -> Statuses \cup {"none"}]
    BY DEF Procs, IInv, TypeOK, AppendStatus
  <1>1. ~CtxDead(p) /\ ~(faults < MaxFaults)
    <2>1. MaxFaults = 0 /\ faults \in 0 .. MaxFaults
      BY BoundsAssumption DEF IInv, TypeOK
    <2>2. ~(faults < MaxFaults)
      BY <2>1
    <2> QED
      BY <2>2 DEF CtxDead
  <1>2. AppendEvent(StatusSaid(p)) /\ job' = job /\ reason' = reason
    BY <1>1 DEF AppendStatus
  <1>3. /\ \A q \in Procs \ {p} : pc'[q] = pc[q] /\ flag'[q] = flag[q]
        /\ pc'[p] = AfterSay(pc[p]) /\ flag'[p] = "none"
        /\ pumped' = IF pc[p] = "say_running" THEN pumped \cup {p} ELSE pumped
    BY <1>0 DEF AppendStatus, Goto
  <1>4. /\ pc'[p] \notin SaySites \cup {"fail_job", "finish"}
        /\ pc[p] \in Pumping <=> pc[p] = "say_running"
        /\ pc[p] = "say_running" => pc'[p] \in Pumping
    BY <1>0, <1>3 DEF AfterSay, SaySites, Pumping
  <1>5. pc[p] = "say_running" => p \in Streams
    BY <1>0, ProcsAssumption DEF SitesOf, LauncherSites, ReaperSites, CancelSites
  <1>6. Started' = Started
    BY <1>0, <1>3, <1>4, <1>5 DEF Started, SaySites
  <1>7. RunInv'
    <2>1. \A s \in Streams : pc[s] \in Pumping => pc'[s] \in Pumping
      BY <1>0, <1>3, <1>4
    <2> QED
      BY <1>2, <1>6, <2>1 DEF RunInv
  <1>8. \A q \in Procs \ {p} : /\ Heard(q)' <=> Heard(q)
                               /\ Announces(q)' <=> Announces(q)
                               /\ StatusSaid(q)' = StatusSaid(q)
    BY <1>2, <1>3 DEF Heard, Announces, StatusSaid
  <1>9. Heard(p)' /\ ~Announces(p)'
    BY <1>3, <1>4 DEF Heard, Announces, SaySites
  <1>10. CASE Announces(p)
    <2>1. /\ ending = "none" /\ Terminal(job.status) /\ StatusSaid(p) = job.status
          /\ \A q \in Procs \ {p} : ~Announces(q)
      BY <1>10 DEF EndInv, Announces
    <2>2. ending' = job.status /\ late' = late
      BY <1>2, <2>1 DEF AppendEvent
    <2> QED
      BY <1>2, <1>7, <1>8, <1>9, <2>1, <2>2 DEF EndInv
  <1>11. CASE ~Announces(p)
    <2>1. ending' = ending /\ late' = late
      BY <1>0, <1>2, <1>11 DEF AppendEvent, Announces, timeline
    <2> QED
      BY <1>2, <1>7, <1>8, <1>9, <2>1 DEF EndInv
  <1> QED
    BY <1>10, <1>11

\* p moves on without a store call: it neither begins nor ends an
\* announcement, and a run goes on.
QuietMove(p) ==
    /\ UNCHANGED <<job, ending, late, pumped>>
    /\ \A q \in Procs \ {p} : /\ pc'[q] = pc[q] /\ flag'[q] = flag[q]
                              /\ q \in Streams => reason'[q] = reason[q]
    /\ pc[p] \notin SaySites /\ pc'[p] \notin SaySites
    /\ pc[p] \in Pumping => pc'[p] \in Pumping
    /\ Heard(p)'

LEMMA QuietMoveKeeps ==
    ASSUME IInv, RunInv, EndInv, NEW p \in Procs, QuietMove(p)
    PROVE  RunInv' /\ EndInv'
  <1>0. Streams \subseteq Procs
    BY DEF Procs
  <1>1. \A q \in Procs \ {p} : /\ Heard(q)' <=> Heard(q)
                               /\ Announces(q)' <=> Announces(q)
                               /\ StatusSaid(q)' = StatusSaid(q)
    BY DEF QuietMove, Heard, Announces, StatusSaid
  <1>2. ~Announces(p)'
    BY DEF QuietMove, Announces
  <1>3. Started' = Started
    BY <1>0 DEF QuietMove, Started, SaySites
  <1>4. \A s \in Streams : pc[s] \in Pumping => pc'[s] \in Pumping
    BY <1>0 DEF QuietMove
  <1>5. RunInv'
    BY <1>3, <1>4 DEF RunInv, QuietMove
  <1>6. EndInv'
    BY <1>1, <1>2 DEF EndInv, QuietMove
  <1> QED
    BY <1>5, <1>6

\* The handlers' own steps, between their store calls.
LEMMA HandlerStepsQuiet ==
    ASSUME Store = "mem", IInv, EndInv
    PROVE  /\ Reject \/ Launch => QuietMove(Launcher)
           /\ Sweep => QuietMove(Reaper)
           /\ \A s \in Streams :
                 \/ Dismiss(s) \/ Ready(s) \/ StreamStep(s) \/ ReceiveEvent(s)
                 \/ \E r \in StopReasons : ReceiveDone(s, r)
                 => QuietMove(s)
           /\ \A c \in Cancellers : Cancel(c) \/ CancelStep(c) => QuietMove(c)
  <1>0. /\ Streams \subseteq Procs /\ Cancellers \subseteq Procs
        /\ Launcher \in Procs /\ Reaper \in Procs
        /\ pc \in [Procs -> Sites] /\ flag \in [Procs -> Statuses \cup {"none"}]
        /\ reason \in [Streams -> StopReasons \cup {"none"}]
    BY DEF Procs, IInv, TypeOK
  <1>1. ASSUME NEW p \in Procs, NEW site,
               site \notin SaySites \cup {"fail_job", "finish"},
               pc[p] \notin SaySites \cup {"fail_job", "finish"},
               pc[p] \in Pumping => site \in Pumping,
               Goto(p, site), UNCHANGED <<job, ending, late, pumped, flag>>,
               \A q \in Streams \ {p} : reason'[q] = reason[q]
        PROVE  QuietMove(p)
    <2>1. flag[p] = "none"
      BY <1>1 DEF EndInv, Heard
    <2>2. pc'[p] = site /\ \A q \in Procs \ {p} : pc'[q] = pc[q]
      BY <1>0, <1>1 DEF Goto
    <2>3. Heard(p)'
      BY <1>1, <2>1, <2>2 DEF Heard
    <2> QED
      BY <1>1, <2>2, <2>3 DEF QuietMove
  <1> USE DEF storeVars, timeline, txVars, peerVars, SaySites, Pumping
  <1>2. Reject \/ Launch => QuietMove(Launcher)
    BY <1>0, <1>1 DEF Reject, Launch
  <1>3. Sweep => QuietMove(Reaper)
    BY <1>0, <1>1 DEF Sweep
  <1>4. ASSUME NEW c \in Cancellers, Cancel(c) \/ CancelStep(c) PROVE QuietMove(c)
    <2>1. CASE Cancel(c)
      BY <1>0, <1>1, <2>1 DEF Cancel
    <2>2. CASE CheckConnected(c)
      BY <1>0, <1>1, <2>2 DEF CheckConnected
    <2>3. CASE SendCancel(c)
      BY <1>0, <1>1, <2>3 DEF SendCancel
    <2> QED
      BY <1>4, <2>1, <2>2, <2>3 DEF CancelStep
  <1>5. ASSUME NEW s \in Streams, Dismiss(s) \/ Ready(s) PROVE QuietMove(s)
    <2>1. \E site \in {"exit", "finalise_cancelled", "register"} : Goto(s, site)
      BY <1>5 DEF Dismiss, Ready
    <2>2. pc[s] = "away" /\ UNCHANGED <<job, ending, late, pumped, flag, reason>>
      BY <1>5 DEF Dismiss, Ready
    <2> QED
      BY <1>0, <1>1, <2>1, <2>2
  <1>6. ASSUME NEW s \in Streams, Register(s) PROVE QuietMove(s)
    <2>1. \E site \in {"exit", "assign"} : Goto(s, site)
      BY <1>6 DEF Register
    <2>2. pc[s] = "register" /\ UNCHANGED <<job, ending, late, pumped, flag, reason>>
      BY <1>6 DEF Register
    <2> QED
      BY <1>0, <1>1, <2>1, <2>2
  <1>7. ASSUME NEW s \in Streams, Assign(s) PROVE QuietMove(s)
    <2>1. pc[s] = "assign" /\ UNCHANGED <<job, ending, late, pumped, reason>>
      BY <1>7 DEF Assign
    <2>2. \/ Goto(s, "mark_running") /\ UNCHANGED flag
          \/ Goto(s, "fail_job") /\ flag' = [flag EXCEPT ![s] = "failed"]
      BY <1>7 DEF Assign
    <2>3. CASE Goto(s, "mark_running") /\ UNCHANGED flag
      BY <1>0, <1>1, <2>1, <2>3
    <2>4. CASE Goto(s, "fail_job") /\ flag' = [flag EXCEPT ![s] = "failed"]
      BY <1>0, <2>1, <2>4 DEF QuietMove, Goto, Heard
    <2> QED
      BY <2>2, <2>3, <2>4
  <1>8. ASSUME NEW s \in Streams, ReceiveEvent(s) \/ ReceiveEnd(s) PROVE QuietMove(s)
    <2>1. \E site \in {"touch", "close_unfinished"} : Goto(s, site)
      BY <1>8 DEF ReceiveEvent, ReceiveEnd
    <2>2. pc[s] = "pump" /\ UNCHANGED <<job, ending, late, pumped, flag, reason>>
      BY <1>8 DEF ReceiveEvent, ReceiveEnd
    <2> QED
      BY <1>0, <1>1, <2>1, <2>2
  <1>9. ASSUME NEW s \in Streams, NEW r \in StopReasons, ReceiveDone(s, r) PROVE QuietMove(s)
    <2>1. /\ pc[s] = "pump" /\ UNCHANGED <<job, ending, late, pumped>>
          /\ reason' = [reason EXCEPT ![s] = r]
          /\ flag' = [flag EXCEPT ![s] = StatusForStopReason(r)]
          /\ pc' = [pc EXCEPT ![s] = "finish"]
      BY <1>9 DEF ReceiveDone, Goto
    <2> QED
      BY <1>0, <2>1 DEF QuietMove, Heard
  <1>10. ASSUME NEW s \in Streams, Unregister(s) PROVE QuietMove(s)
    <2>1. /\ pc[s] = "closing" /\ UNCHANGED <<job, ending, late, pumped, flag>>
          /\ Goto(s, "exit") /\ reason' = [reason EXCEPT ![s] = "none"]
      BY <1>10 DEF Unregister
    <2> QED
      BY <1>0, <1>1, <2>1
  <1> QED
    BY <1>2, <1>3, <1>4, <1>5, <1>6, <1>7, <1>8, <1>9, <1>10 DEF StreamStep

\* CreateJob: nothing has been run or announced before.
LEMMA MemSubmitKeeps ==
    ASSUME IInv, RunInv, EndInv, Submit
    PROVE  RunInv' /\ EndInv'
  <1>0. Streams \subseteq Procs /\ Launcher \in Procs /\ pc \in [Procs -> Sites]
    BY DEF Procs, IInv, TypeOK
  <1>1. job.status = "none" /\ job'.status = "queued"
    BY DEF Submit, IInv, JobInv, NoJob, NewJob
  <1>2. /\ UNCHANGED <<ending, late, pumped, flag, reason>>
        /\ pc' = [pc EXCEPT ![Launcher] = "say_queued"]
    BY DEF Submit, Goto, timeline, txVars, peerVars
  <1>3. Started = {} /\ Started' = {}
    BY <1>0, <1>1, <1>2 DEF RunInv, RunStatuses, Started
  <1>4. ending = "none" /\ \A q \in Procs : ~Announces(q)
    BY <1>1 DEF EndInv, Announces
  <1>5. \A q \in Procs \ {Launcher} : Heard(q)' /\ ~Announces(q)'
    BY <1>0, <1>2, <1>4 DEF EndInv, Heard, Announces, StatusSaid
  <1>6. Heard(Launcher)' /\ ~Announces(Launcher)'
    BY <1>0, <1>2 DEF Heard, Announces, StatusSaid, SaySites
  <1>7. RunInv'
    BY <1>1, <1>3 DEF RunInv
  <1>8. EndInv'
    BY <1>2, <1>4, <1>5, <1>6 DEF EndInv
  <1> QED
    BY <1>7, <1>8

\* Over the in-memory store every step keeps both invariants.
LEMMA MemNext ==
    ASSUME Store = "mem"
    PROVE  IInv /\ RegistryOwnsStream /\ RunInv /\ EndInv /\ [Next]_vars => RunInv' /\ EndInv'
  <1> SUFFICES ASSUME IInv, RegistryOwnsStream, RunInv, EndInv, [Next]_vars
               PROVE  RunInv' /\ EndInv'
    OBVIOUS
  <1>0. /\ ~(faults < MaxFaults) /\ ~(crashes < MaxCrashes)
        /\ \A p \in Procs : next[p] = NoJob
        /\ Streams \subseteq Procs /\ Cancellers \subseteq Procs
        /\ Launcher \in Procs /\ Reaper \in Procs
    <2>1. /\ MaxFaults = 0 /\ faults \in 0 .. MaxFaults
          /\ MaxCrashes = 0 /\ crashes \in 0 .. MaxCrashes
      BY BoundsAssumption DEF IInv, TypeOK
    <2>2. ~(faults < MaxFaults) /\ ~(crashes < MaxCrashes)
      BY <2>1
    <2>3. \A p \in Procs : next[p] = NoJob
      BY DEF IInv, TxInv
    <2> QED
      BY <2>2, <2>3 DEF Procs
  <1>1. ASSUME NEW p \in Procs, StoreCall(p) PROVE RunInv' /\ EndInv'
    <2>1. MemUpdate(p) \/ AppendStatus(p)
      BY <1>0, <1>1 DEF StoreCall, UpdateJob, TxRead, TxExec, UpdateFails
    <2>2. CASE MemUpdate(p)
      <3>1. Heard(p)
        BY DEF EndInv
      <3> QED
        BY <2>2, <3>1, MemUpdateMove, MemMoveKeeps
    <2>3. CASE AppendStatus(p)
      BY <2>3, MemAppendKeeps
    <2> QED
      BY <2>1, <2>2, <2>3
  <1>2. CASE Submit
    BY <1>2, MemSubmitKeeps
  <1>3. CASE SubmitLost \/ Crash \/ \E c \in Cancellers : CancelGetFails(c)
    BY <1>0, <1>3 DEF SubmitLost, Crash, CancelGetFails
  <1>4. CASE \/ LauncherCtxDone
             \/ \E s \in Streams : HangUp(s)
             \/ \E c \in Cancellers : CallerGone(c)
             \/ UNCHANGED vars
    <2>1. UNCHANGED <<job, ending, late, pc, flag, reason, pumped>>
      BY <1>4 DEF LauncherCtxDone, HangUp, CallerGone, vars, storeVars, timeline, txVars, peerVars
    <2> QED
      BY <2>1 DEF RunInv, EndInv, Started, Heard, Announces, StatusSaid
  <1>5. CASE \E p \in Procs : QuietMove(p)
    BY <1>5, QuietMoveKeeps
  <1> QED
    BY <1>0, <1>1, <1>2, <1>3, <1>4, <1>5, HandlerStepsQuiet DEF Next

\* The two invariants hold throughout.
LEMMA AlwaysMem ==
    ASSUME Store = "mem"
    PROVE  Spec => [](RunInv /\ EndInv)
  <1>1. Init => RunInv /\ EndInv
    <2> SUFFICES ASSUME Init PROVE RunInv /\ EndInv
      OBVIOUS
    <2>1. \A p \in Procs : pc[p] \in {"submit", "sleep", "away"} /\ flag[p] = "none"
      BY DEF Init
    <2>2. Started = {}
      BY <2>1 DEF Init, Started, Procs
    <2>3. \A p \in Procs : Heard(p) /\ ~Announces(p)
      BY <2>1 DEF Heard, Announces, SaySites
    <2>4. job.status = "none" /\ ending = "none" /\ late = {}
      BY DEF Init, NoJob, NewJob
    <2> QED
      BY <2>2, <2>3, <2>4 DEF RunInv, EndInv
  <1> QED
    BY <1>1, MemNext, AlwaysIInv, RegistryTheorem, PTL DEF Spec

\* Over the in-memory store a record that says running always has the pump
\* of the registered stream behind it: no cancellation, second harness, launch
\* or sweep leaves a running job that nobody will settle.
THEOREM RunningOwner ==
    ASSUME Store = "mem"
    PROVE  Spec => []RunningIsOwned
  <1>1. RegistryOwnsStream /\ RunInv /\ EndInv => RunningIsOwned
    BY DEF RunInv, RunningIsOwned, RegistryOwnsStream, RegisteredSites, Pumping
  <1> QED
    BY <1>1, AlwaysMem, RegistryTheorem, PTL

\* Over the in-memory store at most one of the harnesses that dial in for a
\* job is ever run, however their handshakes interleave.
THEOREM OneRun ==
    ASSUME Store = "mem"
    PROVE  Spec => []OneRunPerJob
  <1>1. RunInv /\ EndInv => OneRunPerJob
    BY DEF RunInv, OneRunPerJob, Started
  <1> QED
    BY <1>1, AlwaysMem, PTL

\* Over the in-memory store the status_change event that ends a watch says
\* how the job ended, and it is the only terminal one.
THEOREM TerminalEvent ==
    ASSUME Store = "mem"
    PROVE  Spec => []TerminalEventIsTrue
  <1>1. RunInv /\ EndInv => TerminalEventIsTrue
    BY DEF EndInv, TerminalEventIsTrue
  <1> QED
    BY <1>1, AlwaysMem, PTL

-----------------------------------------------------------------------------
(***************************************************************************)
(* Either store, with failing calls and crashes                            *)
(***************************************************************************)

\* A call of UpdateJob is under way, or found its closure to abort, or
\* committed the closure and says so, or returned an error: then the closure
\* was committed or not.
LEMMA UpdateOutcome ==
    ASSUME IInv, NEW p \in Procs, UpdateJob(p)
    PROVE  /\ pc[p] \in UpdateSites /\ job \in JobRecord
           /\ \/ pc' = pc /\ job' = job
              \/ Aborts(pc[p], job) /\ job' = job /\ \E fl : Return(p, "noupdate", fl)
              \/ ~Aborts(pc[p], job) /\ job' = Closure(p, job) /\ \E fl : Return(p, "ok", fl)
              \/ /\ Return(p, "err", flag[p])
                 /\ job' = job \/ (~Aborts(pc[p], job) /\ job' = Closure(p, job))
  <1>1. pc[p] \in UpdateSites /\ pc[p] \notin Idle
    BY DEF UpdateJob, MemUpdate, TxRead, TxExec, UpdateFails, IInv, TxInv, TypeOK,
           UpdateSites, Idle
  <1>2. job \in JobRecord
    BY <1>1, JobExists
  <1>3. p \in fresh => ~Aborts(pc[p], job) /\ next[p] = Closure(p, job)
    BY DEF IInv, TxInv
  <1>4. CASE MemUpdate(p)
    BY <1>1, <1>2, <1>4, Zenon DEF MemUpdate
  <1>5. CASE TxRead(p)
    BY <1>1, <1>2, <1>5, Zenon DEF TxRead
  <1>6. CASE TxExec(p)
    BY <1>1, <1>2, <1>3, <1>6, Zenon DEF TxExec, WatchHolds, storeVars
  <1>7. CASE UpdateFails(p)
    BY <1>1, <1>2, <1>3, <1>7, Zenon DEF UpdateFails, WatchHolds
  <1> QED
    BY <1>4, <1>5, <1>6, <1>7 DEF UpdateJob

\* Returning moves the caller alone.
LEMMA ReturnMoves ==
    ASSUME IInv, NEW p \in Procs, NEW out, NEW fl, Return(p, out, fl)
    PROVE  /\ pc'[p] = AfterUpdate(pc[p], out, fl)
           /\ \A q \in Procs \ {p} : pc'[q] = pc[q]
           /\ session' = session
  BY DEF Return, Goto, IInv, TypeOK

\* The record shows that the job was cancelled or is over.
CancelOnRecord == Terminal(job.status) \/ job.cancelRequested

\* A cancellation that has returned without an error, or is past the write
\* that decides it, is on record.
CancelInv ==
    \A c \in Cancellers :
        pc[c] \in {"send_cancel", "say_cancelled", "exit"} => CancelOnRecord

\* A CancelJob call that returned without an error is on record: the cancel
\* was requested or the job is over (Service.Cancel).
CancelIsRecorded == \A c \in Cancellers : pc[c] = "exit" => CancelOnRecord

\* Nothing takes it off the record again, a restart of the server included.
CancelIsKept == [][CancelOnRecord => CancelOnRecord']_vars

\* So a harness that dials in later is turned away: no stream passes the
\* pre-assignment check of Handler.runTask once CancelJob has returned.
LateHarnessTurnedAway ==
    [][\A s \in Streams, c \in Cancellers :
          pc[c] = "exit" /\ pc[s] = "away" => pc'[s] # "register"]_vars

\* No write of the record takes a cancellation back.
LEMMA CancelStays ==
    ASSUME RecordStep, CancelOnRecord
    PROVE  CancelOnRecord'
  <1>1. CASE job' = job
    BY <1>1 DEF CancelOnRecord
  <1>2. CASE job = NoJob
    BY <1>2 DEF CancelOnRecord, NoJob, NewJob
  <1>3. CASE job \in JobRecord /\ Effect(job, job')
    <2>1. CASE Settles(job, job')
      <3>1. PICK status \in Statuses : Terminal(status) /\ job'.status = status
        BY <2>1 DEF Settles
      <3> QED
        BY <3>1 DEF CancelOnRecord
    <2>2. CASE job' = [job EXCEPT !.cancelRequested = TRUE]
      BY <1>3, <2>2 DEF CancelOnRecord
    <2>3. CASE \/ job.status = "queued" /\ job' = [job EXCEPT !.status = "launching"]
               \/ job.status = "launching" /\ job' = [job EXCEPT !.status = "awaiting_harness"]
               \/ ~Terminal(job.status) /\ job' = [job EXCEPT !.status = "running"]
      BY <1>3, <2>3 DEF CancelOnRecord
    <2> QED
      BY <1>1, <1>3, <2>1, <2>2, <2>3 DEF Effect
  <1> QED
    BY <1>1, <1>2, <1>3 DEF RecordStep

\* UpdateJob returns to Service.Cancel without an error only when it has put
\* the cancellation on record or found the job over.
LEMMA CancelCommits ==
    ASSUME IInv, NEW c \in Cancellers, UpdateJob(c),
           pc'[c] \in {"send_cancel", "say_cancelled", "exit"}
    PROVE  CancelOnRecord'
  <1>1. c \in Procs /\ pc[c] \in CancelSites
    BY ProcsAssumption DEF Procs, IInv, TypeOK, SitesOf
  <1>2. pc[c] \in {"request_cancel", "cancel_unassigned"} /\ job \in JobRecord
    BY <1>1, UpdateOutcome DEF UpdateSites, CancelSites
  <1>3. ASSUME NEW out, NEW fl, Return(c, out, fl) PROVE out = "ok"
    BY <1>1, <1>2, <1>3, ReturnMoves DEF AfterUpdate
  <1>4. pc' # pc
    BY <1>2
  <1>5. ~Aborts(pc[c], job)
    BY <1>2 DEF Aborts, AbortsOnTerminal
  <1>6. job' = Closure(c, job)
    BY <1>1, <1>3, <1>4, <1>5, UpdateOutcome
  <1>7. CASE pc[c] = "request_cancel"
    BY <1>2, <1>6, <1>7 DEF Closure, Apply, RequestCancel, CancelOnRecord
  <1>8. CASE pc[c] = "cancel_unassigned"
    <2>1. job'.status = IF Terminal(job.status) THEN job.status ELSE "cancelled"
      BY <1>2, <1>6, <1>8, ApplyStatus DEF Closure
    <2> QED
      BY <2>1 DEF CancelOnRecord
  <1> QED
    BY <1>2, <1>7, <1>8

\* A cancellation that succeeded is on record and stays there, over either
\* store, whatever fails and however often the server restarts.
THEOREM CancelNeverForgotten == Spec => []CancelIsRecorded /\ CancelIsKept
  <1>1. Init => CancelInv
    BY ProcsAssumption DEF Init, CancelInv, Procs
  <1>2. IInv /\ CancelInv /\ [Next]_vars => CancelInv'
    <2> SUFFICES ASSUME IInv, CancelInv, [Next]_vars, NEW c \in Cancellers,
                        pc'[c] \in {"send_cancel", "say_cancelled", "exit"}
                 PROVE  CancelOnRecord'
      BY DEF CancelInv
    <2>0. /\ c \in Procs /\ pc[c] \in CancelSites /\ pc \in [Procs -> Sites]
          /\ c \notin Streams /\ c # Launcher /\ c # Reaper
      BY ProcsAssumption DEF Procs, IInv, TypeOK, SitesOf
    <2>1. CASE pc[c] \in {"send_cancel", "say_cancelled", "exit"}
      BY <2>1, NextIInv, CancelStays DEF CancelInv
    <2>2. CASE pc'[c] # pc[c] /\ pc[c] \notin {"send_cancel", "say_cancelled", "exit"}
      <3>1. ASSUME NEW p \in Procs, StoreCall(p) PROVE CancelOnRecord'
        <4>1. CASE UpdateJob(p)
          BY <2>0, <2>2, <4>1, UpdateJobRegistered, CancelCommits
        <4>2. CASE AppendStatus(p)
          BY <2>0, <2>2, <4>2 DEF AppendStatus, Goto, SaySites, CancelSites
        <4> QED
          BY <3>1, <4>1, <4>2 DEF StoreCall
      <3>2. ASSUME NEW d \in Cancellers,
                   Cancel(d) \/ CancelGetFails(d) \/ CancelStep(d) \/ CallerGone(d)
            PROVE  CancelOnRecord'
        <4>1. CASE Cancel(d)
          BY <2>0, <2>2, <4>1 DEF Cancel, Goto, storeVars, CancelOnRecord
        <4>2. CASE CancelGetFails(d) \/ CancelStep(d) \/ CallerGone(d)
          BY <2>0, <2>2, <4>2
             DEF CancelGetFails, CancelStep, CheckConnected, SendCancel, CallerGone, Goto
        <4> QED
          BY <3>2, <4>1, <4>2
      <3>3. CASE Submit \/ Reject \/ SubmitLost \/ Launch \/ LauncherCtxDone \/ Sweep
        BY <2>0, <2>2, <3>3 DEF Submit, Reject, SubmitLost, Launch, LauncherCtxDone, Sweep, Goto
      <3>4. ASSUME NEW s \in Streams,
                   \/ Dismiss(s) \/ Ready(s) \/ StreamStep(s) \/ ReceiveEvent(s) \/ HangUp(s)
                   \/ \E r \in StopReasons : ReceiveDone(s, r)
            PROVE  CancelOnRecord'
        <4>1. pc' = pc \/ \E site : pc' = [pc EXCEPT ![s] = site]
          BY <3>4 DEF Dismiss, Ready, StreamStep, Register, Assign, ReceiveEnd, Unregister,
                      ReceiveEvent, HangUp, ReceiveDone, Goto
        <4> QED
          BY <2>0, <2>2, <4>1
      <3>5. CASE Crash
        BY <2>0, <2>2, <3>5 DEF Crash, CancelSites
      <3>6. CASE UNCHANGED vars
        BY <2>2, <3>6 DEF vars
      <3> QED
        BY <3>1, <3>2, <3>3, <3>4, <3>5, <3>6 DEF Next
    <2> QED
      BY <2>1, <2>2
  <1>3. CancelInv => CancelIsRecorded
    BY DEF CancelInv, CancelIsRecorded
  <1>4. RecordStep => [CancelOnRecord => CancelOnRecord']_vars
    BY CancelStays
  <1> QED
    BY <1>1, <1>2, <1>3, <1>4, AlwaysIInv, NextIInv, PTL DEF Spec, CancelIsKept

\* A harness that dials in for a job whose cancellation succeeded is never
\* assigned the job, however the cancellation raced with other harnesses.
THEOREM CancelledTurnsAway == Spec => LateHarnessTurnedAway
  <1>1. IInv /\ CancelIsRecorded /\ [Next]_vars =>
           [\A s \in Streams, c \in Cancellers :
               pc[c] = "exit" /\ pc[s] = "away" => pc'[s] # "register"]_vars
    <2> SUFFICES ASSUME IInv, CancelIsRecorded, Next, NEW s \in Streams, NEW c \in Cancellers,
                        pc[c] = "exit", pc[s] = "away", pc'[s] = "register"
                 PROVE  FALSE
      OBVIOUS
    <2>0. /\ s \in Procs /\ pc \in [Procs -> Sites] /\ s # Launcher /\ s # Reaper /\ s \notin Cancellers
          /\ CancelOnRecord
      BY ProcsAssumption DEF Procs, IInv, TypeOK, CancelIsRecorded
    <2>1. ~Ready(s)
      BY <2>0 DEF Ready, Goto, CancelOnRecord
    <2>2. ASSUME NEW p \in Procs, StoreCall(p) PROVE FALSE
      <3>1. p # s
        BY <2>2, UpdateOutcome DEF StoreCall, AppendStatus, SaySites, UpdateSites
      <3>2. UpdateJob(p) => pc'[s] = pc[s]
        BY <2>0, <3>1, UpdateJobRegistered
      <3>3. AppendStatus(p) => pc'[s] = pc[s]
        BY <2>0, <3>1 DEF AppendStatus, Goto
      <3> QED
        BY <2>2, <3>2, <3>3 DEF StoreCall
    <2>3. CASE Submit \/ Reject \/ SubmitLost \/ Launch \/ LauncherCtxDone \/ Sweep \/ Crash
      BY <2>0, <2>3 DEF Submit, Reject, SubmitLost, Launch, LauncherCtxDone, Sweep, Crash, Goto
    <2>4. ASSUME NEW d \in Cancellers,
                 Cancel(d) \/ CancelGetFails(d) \/ CancelStep(d) \/ CallerGone(d)
          PROVE  FALSE
      <3>1. pc' = pc \/ \E site : pc' = [pc EXCEPT ![d] = site]
        BY <2>4 DEF Cancel, CancelGetFails, CancelStep, CheckConnected, SendCancel, CallerGone, Goto
      <3> QED
        BY <2>0, <3>1
    <2>5. ASSUME NEW t \in Streams,
                 \/ Dismiss(t) \/ Ready(t) \/ StreamStep(t) \/ ReceiveEvent(t) \/ HangUp(t)
                 \/ \E r \in StopReasons : ReceiveDone(t, r)
          PROVE  FALSE
      <3>1. pc' = pc \/ \E site : pc' = [pc EXCEPT ![t] = site]
        BY <2>5 DEF Dismiss, Ready, StreamStep, Register, Assign, ReceiveEnd, Unregister,
                    ReceiveEvent, HangUp, ReceiveDone, Goto
      <3>2. t = s
        BY <2>0, <3>1
      <3>3. Dismiss(s) \/ HangUp(s)
        BY <2>1, <2>5, <3>2 DEF StreamStep, Register, Assign, ReceiveEnd, Unregister,
                                ReceiveEvent, ReceiveDone
      <3> QED
        BY <2>0, <3>3 DEF Dismiss, HangUp, Goto
    <2> QED
      BY <2>2, <2>3, <2>4, <2>5 DEF Next
  <1> QED
    BY <1>1, CancelNeverForgotten, AlwaysIInv, PTL DEF Spec, LateHarnessTurnedAway

\* The store returns an error to the pump that was settling the job, and the
\* record is as it was (eventPump.finish and closeUnfinished log the error and
\* go on to Unregister).
SettlementLost(s) ==
    /\ session = s /\ pc[s] \in {"finish", "close_unfinished"}
    /\ Return(s, "err", flag[s])
    /\ job' = job

\* A job that says running loses the pump that answers for it in two ways
\* only: the server crashes, or the UpdateJob that would have settled it
\* returns an error.  No cancellation, second harness, lost stream, sweep,
\* timeout or other failing call does it.
OwnerLostByFailure ==
    [][RunningIsOwned /\ ~RunningIsOwned' => Crash \/ \E s \in Streams : SettlementLost(s)]_vars

\* UpdateJob takes the record to running only from runTask, which owns the
\* session, and leaves a running record with its owner unless it fails to
\* settle it.
LEMMA UpdateJobOwner ==
    ASSUME IInv, RegistryOwnsStream, RunningIsOwned, NEW p \in Procs, UpdateJob(p),
           ~RunningIsOwned'
    PROVE  \E s \in Streams : SettlementLost(s)
  <1> USE DEF Pumping
  <1>0. job'.status = "running" /\ \A s \in Streams : session' = s => pc'[s] \notin Pumping
    BY DEF RunningIsOwned
  <1>1. /\ session' = session /\ \A q \in Procs \ {p} : pc'[q] = pc[q]
        /\ pc[p] \in UpdateSites /\ pc[p] \in SitesOf(p) /\ job \in JobRecord
        /\ Streams \subseteq Procs
    BY UpdateJobRegistered, UpdateOutcome DEF IInv, TypeOK, Procs
  <1>2. CASE job.status = "running"
    <2>1. PICK s \in Streams : session = s /\ pc[s] \in Pumping
      BY <1>2 DEF RunningIsOwned
    <2>2. p = s /\ pc'[s] \notin Pumping /\ pc' # pc
      BY <1>0, <1>1, <2>1
    <2>3. pc[s] \in {"touch", "finish", "close_unfinished"}
      BY <1>1, <2>1, <2>2 DEF UpdateSites
    <2>4. \A out, fl : Return(s, out, fl) => pc[s] # "touch"
      BY <1>1, <2>2, ReturnMoves DEF AfterUpdate
    <2>5. job' = Closure(s, job) => pc[s] = "touch"
      <3> SUFFICES ASSUME job' = Closure(s, job), pc[s] # "touch" PROVE FALSE
        OBVIOUS
      <3>1. job'.status \in {"succeeded", "failed", "cancelled"}
        BY <1>1, <2>3, ApplyStatus DEF Closure, StatusForStopReason
      <3> QED
        BY <1>0, <3>1
    <2>6. ~Aborts(pc[s], job)
      BY <1>2 DEF Aborts
    <2>7. Return(s, "err", flag[s]) /\ job' = job
      BY <1>1, <2>2, <2>4, <2>5, <2>6, UpdateOutcome
    <2> QED
      BY <2>1, <2>3, <2>4, <2>7 DEF SettlementLost
  <1>3. CASE job.status # "running"
    <2>1. /\ job' = Closure(p, job) /\ ~Aborts(pc[p], job)
          /\ \E out, fl : out # "noupdate" /\ Return(p, out, fl)
      BY <1>0, <1>3, UpdateOutcome
    <2>2. pc[p] = "mark_running"
      BY <1>0, <1>1, <1>3, <2>1, ApplyStatus DEF Closure, UpdateSites, StatusForStopReason
    <2>3. p \in Streams /\ session' = p
      <3>1. p \in Streams
        BY <1>1, <2>2 DEF SitesOf, LauncherSites, ReaperSites, CancelSites
      <3> QED
        BY <1>1, <2>2, <3>1 DEF RegistryOwnsStream, RegisteredSites
    <2>4. pc'[p] = "say_running"
      BY <2>1, <2>2, ReturnMoves DEF AfterUpdate
    <2> QED
      BY <1>0, <2>3, <2>4
  <1> QED
    BY <1>2, <1>3

\* So does every other step but a crash.
LEMMA OthersOwner ==
    ASSUME IInv, RegistryOwnsStream, RunningIsOwned, [Next]_vars, ~RunningIsOwned',
           \A p \in Procs : ~UpdateJob(p)
    PROVE  Crash
  <1> USE DEF Pumping
  <1>0. /\ job'.status = "running" /\ \A s \in Streams : session' = s => pc'[s] \notin Pumping
        /\ Streams \subseteq Procs /\ pc \in [Procs -> Sites]
    BY DEF RunningIsOwned, IInv, TypeOK, Procs
  <1>1. SUFFICES ASSUME ~Crash PROVE FALSE
    OBVIOUS
  <1>2. job' = job
    <2>1. \A p \in Procs : StoreCall(p) => job' = job
      BY DEF StoreCall, AppendStatus
    <2>2. Submit \/ SubmitLost => job'.status # "running"
      BY DEF Submit, SubmitLost, NewJob
    <2>3. Reject \/ Launch \/ LauncherCtxDone \/ Sweep \/ UNCHANGED vars => job' = job
      BY DEF Reject, Launch, LauncherCtxDone, Sweep, vars, storeVars
    <2>4. \A c \in Cancellers : Cancel(c) \/ CancelGetFails(c) \/ CancelStep(c) \/ CallerGone(c)
                                => job' = job
      BY DEF Cancel, CancelGetFails, CancelStep, CheckConnected, SendCancel, CallerGone, storeVars
    <2>5. \A s \in Streams : \/ Dismiss(s) \/ Ready(s) \/ StreamStep(s)
                             \/ ReceiveEvent(s) \/ HangUp(s)
                             \/ \E r \in StopReasons : ReceiveDone(s, r)
                             => job' = job
      BY DEF Dismiss, Ready, StreamStep, Register, Assign, ReceiveEnd, Unregister,
             ReceiveEvent, HangUp, ReceiveDone, storeVars
    <2> QED
      BY <1>0, <1>1, <2>1, <2>2, <2>3, <2>4, <2>5 DEF Next
  <1>3. PICK s \in Streams : session = s /\ pc[s] \in Pumping
    BY <1>0, <1>2 DEF RunningIsOwned
  <1>4. s # None /\ s # Launcher /\ s # Reaper /\ s \notin Cancellers /\ s \in Procs
    BY <1>0, ProcsAssumption
  <1>5. SUFFICES session' = s /\ pc'[s] \in Pumping
    BY <1>0
  <1>6. ASSUME NEW p \in Procs, StoreCall(p) PROVE session' = s /\ pc'[s] \in Pumping
    <2>1. session' = s /\ pc' = [pc EXCEPT ![p] = AfterSay(pc[p])] /\ pc[p] \in SaySites
      BY <1>3, <1>6 DEF StoreCall, AppendStatus, Goto
    <2>2. p = s => AfterSay(pc[p]) = "pump"
      BY <1>3, <2>1 DEF SaySites, AfterSay
    <2> QED
      BY <1>0, <1>3, <1>4, <2>1, <2>2
  <1>7. CASE \/ Submit \/ Reject \/ SubmitLost \/ Launch \/ LauncherCtxDone \/ Sweep
             \/ UNCHANGED vars
    BY <1>0, <1>3, <1>4, <1>7
       DEF Submit, Reject, SubmitLost, Launch, LauncherCtxDone, Sweep, Goto, vars
  <1>8. ASSUME NEW c \in Cancellers,
               Cancel(c) \/ CancelGetFails(c) \/ CancelStep(c) \/ CallerGone(c)
        PROVE  session' = s /\ pc'[s] \in Pumping
    <2>1. session' = session /\ (pc' = pc \/ \E site : pc' = [pc EXCEPT ![c] = site])
      BY <1>8 DEF Cancel, CancelGetFails, CancelStep, CheckConnected, SendCancel, CallerGone, Goto
    <2> QED
      BY <1>0, <1>3, <1>4, <2>1
  <1>9. ASSUME NEW t \in Streams,
               \/ Dismiss(t) \/ Ready(t) \/ StreamStep(t) \/ ReceiveEvent(t) \/ HangUp(t)
               \/ \E r \in StopReasons : ReceiveDone(t, r)
        PROVE  session' = s /\ pc'[s] \in Pumping
    <2>1. CASE Dismiss(t) \/ Ready(t) \/ Assign(t)
      <3>1. session' = session /\ t # s /\ \E site : pc' = [pc EXCEPT ![t] = site]
        BY <1>3, <2>1 DEF Dismiss, Ready, Assign, Goto
      <3> QED
        BY <1>0, <1>3, <1>4, <3>1
    <2>2. CASE Register(t) \/ Unregister(t)
      <3>1. session' = session /\ t # s /\ \E site : pc' = [pc EXCEPT ![t] = site]
        BY <1>3, <1>4, <2>2 DEF Register, JobFree, Unregister, RegistryUnregister, Goto
      <3> QED
        BY <1>0, <1>3, <1>4, <3>1
    <2>3. CASE ReceiveEvent(t) \/ ReceiveEnd(t) \/ HangUp(t) \/ \E r \in StopReasons : ReceiveDone(t, r)
      <3>1. session' = session /\ (pc' = pc \/ \E site \in Pumping : pc' = [pc EXCEPT ![t] = site])
        BY <2>3 DEF ReceiveEvent, ReceiveEnd, HangUp, ReceiveDone, Goto
      <3> QED
        BY <1>0, <1>3, <1>4, <3>1
    <2> QED
      BY <1>9, <2>1, <2>2, <2>3 DEF StreamStep
  <1> QED
    BY <1>1, <1>6, <1>7, <1>8, <1>9 DEF Next

\* For either store, any faults and any crashes, OwnerLostByFailure holds.
THEOREM OwnerLoss == Spec => OwnerLostByFailure
  <1>1. IInv /\ RegistryOwnsStream /\ [Next]_vars =>
           [RunningIsOwned /\ ~RunningIsOwned' => Crash \/ \E s \in Streams : SettlementLost(s)]_vars
    BY UpdateJobOwner, OthersOwner, Zenon
  <1> QED
    BY <1>1, AlwaysIInv, RegistryTheorem, PTL DEF Spec, OwnerLostByFailure

\* What a stream's handler is about to announce is what the record says, in
\* finaliseCancelled, failJob and closeUnfinished: they announce what they
\* have written and nothing else, also when a call fails or an EXEC is retried.
\* The exception is eventPump.finish (the harness sent done, reason[s] is
\* set), which announces the status although UpdateJob may have failed.
StreamsAnnounceTruth ==
    \A s \in Streams :
        /\ pc[s] = "say_cancelled" => job.status = "cancelled"
        /\ pc[s] = "say_settled" /\ reason[s] = "none" => flag[s] = job.status

\* The parts of the inductive invariant: what is about to be announced is
\* terminal, so that it stays true; failJob knows its status; finish is
\* entered with a stop reason.
TruthAt(s) ==
    /\ pc[s] = "say_cancelled" => job.status = "cancelled"
    /\ pc[s] = "say_settled" /\ reason[s] = "none" => flag[s] = job.status /\ Terminal(job.status)
    /\ pc[s] = "fail_job" => flag[s] = "failed"
    /\ pc[s] = "finish" => reason[s] # "none"

TruthInv == \A s \in Streams : TruthAt(s)

\* A step that leaves the handler alone leaves its announcement true.
LEMMA TruthStays ==
    ASSUME IInv, RecordStep, NEW s \in Streams, TruthAt(s),
           pc'[s] = pc[s], flag'[s] = flag[s], reason'[s] = reason[s]
    PROVE  TruthAt(s)'
  <1>1. Terminal(job.status) => job'.status = job.status
    <2>1. CASE job = NoJob
      BY <2>1 DEF NoJob, NewJob
    <2>2. CASE job \in JobRecord /\ Effect(job, job')
      BY <2>2, EffectFinal
    <2> QED
      BY <2>1, <2>2 DEF RecordStep
  <1> QED
    BY <1>1 DEF TruthAt

\* A stream's own UpdateJob goes on to an announcement that is true.
LEMMA UpdateJobTruth ==
    ASSUME IInv, RecordStep, NEW s \in Streams, TruthAt(s), UpdateJob(s)
    PROVE  TruthAt(s)'
  <1>0. /\ s \in Procs /\ pc \in [Procs -> Sites] /\ flag \in [Procs -> Statuses \cup {"none"}]
        /\ pc[s] \in UpdateSites /\ pc[s] \in StreamSites /\ job \in JobRecord
    BY UpdateOutcome, ProcsAssumption DEF Procs, IInv, TypeOK, SitesOf
  <1>1. reason' = reason
    BY DEF UpdateJob, MemUpdate, TxRead, TxExec, UpdateFails, Return, peerVars
  <1>2. CASE pc' = pc
    <2>1. pc[s] = "fail_job" => flag'[s] = flag[s]
      <3> SUFFICES ASSUME pc[s] = "fail_job" PROVE flag'[s] = flag[s]
        OBVIOUS
      <3>1. Captured(s, job) = flag[s]
        BY DEF Captured
      <3>2. \A out, fl : ~Return(s, out, fl)
        <4>1. ASSUME NEW out, NEW fl, Return(s, out, fl) PROVE FALSE
          BY <1>0, <1>2, <4>1, ReturnMoves, AfterUpdateSettled
        <4> QED
          BY <4>1, Zenon
      <3>3. flag' = flag \/ flag' = [flag EXCEPT ![s] = Captured(s, job)]
        BY <3>2 DEF UpdateJob, MemUpdate, TxRead, TxExec, UpdateFails
      <3> QED
        BY <1>0, <3>1, <3>3
    <2> QED
      BY <1>0, <1>1, <1>2, <2>1 DEF TruthAt, UpdateSites
  <1>3. ASSUME NEW out, NEW fl, Return(s, out, fl)
        PROVE  /\ pc'[s] = AfterUpdate(pc[s], out, fl) /\ pc'[s] \notin UpdateSites
               /\ flag'[s] = IF pc'[s] \in SaySites THEN fl ELSE "none"
    <2>1. pc'[s] = AfterUpdate(pc[s], out, fl)
      BY <1>0, <1>3, ReturnMoves
    <2>2. AfterUpdate(pc[s], out, fl) \notin UpdateSites
      BY <1>0, AfterUpdateSettled
    <2>3. flag'[s] = IF AfterUpdate(pc[s], out, fl) \in SaySites THEN fl ELSE "none"
      BY <1>0, <1>3 DEF Return
    <2> QED
      BY <2>1, <2>2, <2>3
  <1>4. CASE pc'[s] = "say_cancelled"
    <2>1. pc[s] # pc'[s]
      BY <1>0, <1>4 DEF UpdateSites
    <2>2. ASSUME NEW out, NEW fl, Return(s, out, fl)
          PROVE  out = "ok" /\ pc[s] = "finalise_cancelled"
      BY <1>0, <1>3, <1>4, <2>2 DEF AfterUpdate, UpdateSites, StreamSites, RegisteredSites
    <2>3. job' = Closure(s, job) /\ pc[s] = "finalise_cancelled"
      BY <1>0, <2>1, <2>2, UpdateOutcome
    <2>4. job'.status = "cancelled"
      BY <1>0, <2>3, ApplyStatus DEF Closure
    <2> QED
      BY <1>4, <2>4 DEF TruthAt
  <1>5. CASE pc'[s] = "say_settled" /\ reason[s] = "none"
    <2>1. pc[s] # pc'[s] /\ pc[s] # "finish"
      BY <1>0, <1>5 DEF UpdateSites, TruthAt
    <2>2. ASSUME NEW out, NEW fl, Return(s, out, fl)
          PROVE  out = "ok" /\ pc[s] \in {"fail_job", "close_unfinished"} /\ flag'[s] = fl
      BY <1>0, <1>3, <1>5, <2>1, <2>2 DEF AfterUpdate, UpdateSites, SaySites
    <2>3. job' = Closure(s, job) /\ pc[s] \in {"fail_job", "close_unfinished"}
      BY <1>0, <2>1, <2>2, UpdateOutcome
    <2>4. CASE pc[s] = "close_unfinished"
      <3>1. job' = CloseUnfinished(job) /\ flag'[s] = job'.status
        BY <1>5, <2>4, ClosureCommits
      <3>2. job'.status \in {"failed", "cancelled"}
        BY <1>0, <3>1, ApplyStatus
      <3> QED
        BY <1>5, <3>1, <3>2 DEF TruthAt
    <2>5. CASE pc[s] = "fail_job"
      <3>1. job'.status = "failed"
        BY <1>0, <2>3, <2>5, ApplyStatus DEF Closure
      <3>2. Captured(s, job) = "failed" /\ flag[s] = "failed"
        BY <2>5 DEF Captured, TruthAt
      <3>3. Return(s, "ok", Captured(s, job)) \/ Return(s, "ok", flag[s])
        BY <2>1, <2>2 DEF UpdateJob, MemUpdate, TxRead, TxExec, UpdateFails
      <3>4. flag'[s] = "failed"
        BY <2>2, <3>2, <3>3
      <3> QED
        BY <1>5, <3>1, <3>4 DEF TruthAt
    <2> QED
      BY <2>3, <2>4, <2>5
  <1>6. CASE pc' # pc /\ pc'[s] # "say_cancelled" /\ ~(pc'[s] = "say_settled" /\ reason[s] = "none")
    <2>1. \E out, fl : Return(s, out, fl)
      BY <1>0, <1>6, UpdateOutcome
    <2>2. pc'[s] \notin UpdateSites
      BY <1>3, <2>1
    <2> QED
      BY <1>1, <1>6, <2>2 DEF TruthAt, UpdateSites, AbortsOnTerminal
  <1> QED
    BY <1>2, <1>4, <1>5, <1>6

\* A step of p, in its own code, leaves the other handlers' announcements.
LEMMA TruthOthers ==
    ASSUME IInv, NEW p \in Procs, StoreCall(p), NEW s \in Streams, s # p
    PROVE  pc'[s] = pc[s] /\ flag'[s] = flag[s] /\ reason'[s] = reason[s]
  <1>0. s \in Procs /\ pc \in [Procs -> Sites] /\ flag \in [Procs -> Statuses \cup {"none"}]
    BY DEF Procs, IInv, TypeOK
  <1>1. ASSUME NEW out, NEW fl, Return(p, out, fl)
        PROVE  pc'[s] = pc[s] /\ flag'[s] = flag[s] /\ reason'[s] = reason[s]
    BY <1>0, <1>1 DEF Return, Goto
  <1>2. CASE UpdateJob(p)
    BY <1>0, <1>1, <1>2 DEF UpdateJob, MemUpdate, TxRead, TxExec, UpdateFails, peerVars
  <1>3. CASE AppendStatus(p)
    BY <1>0, <1>3 DEF AppendStatus, Goto
  <1> QED
    BY <1>2, <1>3 DEF StoreCall

\* Over either store, with failing calls, lost transactions and crashes,
\* StreamsAnnounceTruth holds.
THEOREM AnnouncedTruth == Spec => []StreamsAnnounceTruth
  <1>1. Init => TruthInv
    BY ProcsAssumption DEF Init, TruthInv, TruthAt, Procs
  <1>2. IInv /\ TruthInv /\ [Next]_vars => TruthInv'
    <2> SUFFICES ASSUME IInv, TruthInv, [Next]_vars, NEW s \in Streams PROVE TruthAt(s)'
      BY DEF TruthInv
    <2>0. /\ s \in Procs /\ pc \in [Procs -> Sites] /\ flag \in [Procs -> Statuses \cup {"none"}]
          /\ reason \in [Streams -> StopReasons \cup {"none"}] /\ pc[s] \in StreamSites
          /\ s # Launcher /\ s # Reaper /\ s \notin Cancellers /\ TruthAt(s)
      BY ProcsAssumption DEF Procs, IInv, TypeOK, SitesOf, TruthInv
    <2>1. RecordStep
      BY NextIInv
    <2>2. pc'[s] = pc[s] /\ flag'[s] = flag[s] /\ reason'[s] = reason[s] => TruthAt(s)'
      BY <2>0, <2>1, TruthStays
    <2>3. ASSUME NEW p \in Procs, StoreCall(p) PROVE TruthAt(s)'
      <3>1. CASE p # s
        BY <2>2, <2>3, <3>1, TruthOthers
      <3>2. CASE p = s /\ UpdateJob(s)
        BY <2>0, <2>1, <3>2, UpdateJobTruth
      <3>3. CASE p = s /\ AppendStatus(s)
        <4>1. pc'[s] \in {"to_launching", "launch", "pump", "closing", "sleep", "exit"}
          BY <2>0, <3>3 DEF AppendStatus, Goto, AfterSay
        <4> QED
          BY <4>1 DEF TruthAt
      <3> QED
        BY <2>3, <3>1, <3>2, <3>3 DEF StoreCall
    <2>4. CASE \/ Submit \/ Reject \/ SubmitLost \/ Launch \/ LauncherCtxDone \/ Sweep
               \/ UNCHANGED vars
      <3>1. /\ UNCHANGED <<flag, reason>>
            /\ pc' = pc \/ \E p \in {Launcher, Reaper}, site \in Sites : pc' = [pc EXCEPT ![p] = site]
        BY <2>4 DEF Submit, Reject, SubmitLost, Launch, LauncherCtxDone, Sweep, Goto,
                    txVars, peerVars, vars, Sites, LauncherSites, ReaperSites
      <3> QED
        BY <2>0, <2>2, <3>1
    <2>5. ASSUME NEW c \in Cancellers,
                 Cancel(c) \/ CancelGetFails(c) \/ CancelStep(c) \/ CallerGone(c)
          PROVE  TruthAt(s)'
      <3>1. UNCHANGED <<flag, reason>> /\ (pc' = pc \/ \E site : pc' = [pc EXCEPT ![c] = site])
        BY <2>5 DEF Cancel, CancelGetFails, CancelStep, CheckConnected, SendCancel, CallerGone,
                    Goto, txVars, peerVars
      <3> QED
        BY <2>0, <2>2, <3>1
    <2>6. ASSUME NEW t \in Streams,
                 \/ Dismiss(t) \/ Ready(t) \/ Register(t) \/ ReceiveEvent(t) \/ ReceiveEnd(t)
                 \/ HangUp(t)
          PROVE  TruthAt(s)'
      <3>1. /\ UNCHANGED <<flag, reason>>
            /\ \/ pc' = pc
               \/ \E site \in {"exit", "finalise_cancelled", "register", "assign", "touch",
                              "close_unfinished"} : pc' = [pc EXCEPT ![t] = site]
        BY <2>6 DEF Dismiss, Ready, Register, ReceiveEvent, ReceiveEnd, HangUp, Goto, txVars, peerVars
      <3>2. CASE t = s
        <4>1. pc' = pc \/ pc'[s] \in {"exit", "finalise_cancelled", "register", "assign", "touch",
                                      "close_unfinished"}
          BY <2>0, <3>1, <3>2
        <4> QED
          BY <2>2, <3>1, <4>1 DEF TruthAt
      <3>3. CASE t # s
        BY <2>0, <2>2, <3>1, <3>3
      <3> QED
        BY <3>2, <3>3
    <2>7. ASSUME NEW t \in Streams, Assign(t) PROVE TruthAt(s)'
      <3>1. /\ UNCHANGED reason
            /\ \/ pc' = [pc EXCEPT ![t] = "mark_running"] /\ UNCHANGED flag
               \/ pc' = [pc EXCEPT ![t] = "fail_job"] /\ flag' = [flag EXCEPT ![t] = "failed"]
        BY <2>7 DEF Assign, Goto
      <3>2. CASE t = s
        <4>1. pc'[s] = "mark_running" \/ (pc'[s] = "fail_job" /\ flag'[s] = "failed")
          BY <2>0, <3>1, <3>2
        <4> QED
          BY <4>1 DEF TruthAt
      <3>3. CASE t # s
        BY <2>0, <2>2, <3>1, <3>3
      <3> QED
        BY <3>2, <3>3
    <2>8. ASSUME NEW t \in Streams, Unregister(t) \/ \E r \in StopReasons : ReceiveDone(t, r)
          PROVE  TruthAt(s)'
      <3>1. CASE t = s
        <4>1. pc'[s] = "exit" \/ (pc'[s] = "finish" /\ reason'[s] \in StopReasons)
          BY <2>0, <2>8, <3>1 DEF Unregister, ReceiveDone, Goto
        <4> QED
          BY <4>1 DEF TruthAt
      <3>2. CASE t # s
        <4>1. pc'[s] = pc[s] /\ flag'[s] = flag[s] /\ reason'[s] = reason[s]
          BY <2>0, <2>8, <3>2 DEF Unregister, ReceiveDone, Goto, txVars
        <4> QED
          BY <2>2, <4>1
      <3> QED
        BY <3>1, <3>2
    <2>9. CASE Crash
      <3>1. pc'[s] \in {"submit", "away", "exit"}
        BY <2>0, <2>9 DEF Crash
      <3> QED
        BY <3>1 DEF TruthAt
    <2> QED
      BY <2>3, <2>4, <2>5, <2>6, <2>7, <2>8, <2>9 DEF Next, StreamStep
  <1>3. TruthInv => StreamsAnnounceTruth
    BY DEF TruthInv, TruthAt, StreamsAnnounceTruth
  <1> QED
    BY <1>1, <1>2, <1>3, AlwaysIInv, PTL DEF Spec

=============================================================================
