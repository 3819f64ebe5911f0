---------------------------- MODULE JobLifecycle ----------------------------
(***************************************************************************)
(* One job of hairpin, from SubmitJob to its terminal status, and every    *)
(* goroutine of the server that writes its record:                         *)
(*                                                                         *)
(*   Launcher     SubmitJob and the background launch it starts            *)
(*   Streams      the RunTask handlers, one per harness that dials in      *)
(*   Cancellers   the CancelJob calls                                      *)
(*   Reaper       the maintenance loop (its awaiting_harness pass)         *)
(*                                                                         *)
(* They share the job record and timeline (store), and the registry of     *)
(* live sessions.  A handler is a sequence of locations, pc[p]; a location *)
(* in UpdateSites is a call of store.UpdateJob, one in SaySites a call of  *)
(* AppendEvent with a status_change event.                                 *)
(*                                                                         *)
(* UpdateJob on the Redis store is optimistic: TxRead is WATCH and HGETALL *)
(* and the closure, TxExec is MULTI/EXEC, which lands only if the key was  *)
(* not written in between.  The in-memory store does it in one step.       *)
(***************************************************************************)
EXTENDS Job, Naturals

CONSTANTS
    Launcher, Reaper,   \* the two singletons
    Streams,            \* harness streams that may dial in
    Cancellers,         \* CancelJob calls that may be made
    None,               \* no live session
    Store,              \* "redis" or "mem"
    MaxUpdateRetries,   \* attempts of the Redis UpdateJob (30 in the code)
    MaxFaults,          \* bound on failed store calls
    MaxCrashes,         \* bound on crashes of the server
    LaunchMayTimeOut    \* whether launchTimeout may expire during a launch

ASSUME ProcsAssumption ==
    /\ Launcher # Reaper
    /\ Launcher \notin Streams \cup Cancellers
    /\ Reaper \notin Streams \cup Cancellers
    /\ Streams \cap Cancellers = {}
    /\ None \notin Streams

ASSUME BoundsAssumption ==
    /\ Store \in {"redis", "mem"}
    /\ MaxUpdateRetries \in Nat \ {0}
    /\ MaxFaults \in Nat
    /\ MaxCrashes \in Nat
    /\ LaunchMayTimeOut \in BOOLEAN
    \* the in-memory store has no failing calls and does not survive a crash
    /\ Store = "mem" => MaxFaults = 0 /\ MaxCrashes = 0

Procs == {Launcher, Reaper} \cup Streams \cup Cancellers

VARIABLES
    job,        \* the stored record, NoJob before CreateJob
    ending,     \* the first terminal status_change on the timeline, or "none"
    late,       \* the terminal status_change events that follow it
    session,    \* the registry's session for the job, None when absent
    pc,         \* location of each handler
    next,       \* the record a handler is about to EXEC, NoJob outside WATCH..EXEC
    fresh,      \* handlers whose WATCHed key has not been written since
    tries,      \* lost EXECs of the current UpdateJob
    flag,       \* status in the variable the closure captures (moved, cancelled, status)
    reason,     \* done.stop_reason a pump has received
    ctxDone,    \* handlers whose context is done: caller or harness gone, launch timeout
    told,       \* registered streams that were sent cancel
    pumped,     \* streams that reached the event pump
    usable,     \* the stored run config still parses
    faults, crashes

timeline  == <<ending, late>>
storeVars == <<job, timeline>>
txVars    == <<next, fresh, tries, flag>>
peerVars  == <<reason, told, pumped>>
envVars   == <<ctxDone, usable, faults, crashes>>
vars      == <<storeVars, session, pc, txVars, peerVars, envVars>>

SaySites == {"say_queued", "say_launching", "say_failed", "say_awaiting", "say_running",
             "say_settled", "say_cancelled", "say_stuck"}

\* Locations of a stream between reg.Register and reg.Unregister.
RegisteredSites == {"assign", "fail_job", "mark_running", "say_running", "pump", "touch",
                    "finish", "close_unfinished", "say_settled", "closing"}

LauncherSites == {"submit", "say_queued", "to_launching", "say_launching", "launch",
                  "to_failed", "say_failed", "to_awaiting", "say_awaiting", "exit"}

StreamSites == RegisteredSites \cup {"away", "register", "finalise_cancelled", "say_cancelled", "exit"}

CancelSites == {"away", "connected", "request_cancel", "send_cancel", "cancel_unassigned",
                "say_cancelled", "exit", "error"}

ReaperSites == {"sleep", "fail_stuck", "say_stuck"}

Sites == LauncherSites \cup StreamSites \cup CancelSites \cup ReaperSites

\* The locations of the handler p runs.
SitesOf(p) == IF p = Launcher THEN LauncherSites
              ELSE IF p = Reaper THEN ReaperSites
              ELSE IF p \in Streams THEN StreamSites ELSE CancelSites

Init ==
    /\ job = NoJob
    /\ ending = "none" /\ late = {}
    /\ session = None
    /\ pc = [p \in Procs |-> IF p = Launcher THEN "submit"
                             ELSE IF p = Reaper THEN "sleep" ELSE "away"]
    /\ next = [p \in Procs |-> NoJob]
    /\ fresh = {}
    /\ tries = [p \in Procs |-> 0]
    /\ flag = [p \in Procs |-> "none"]
    /\ reason = [s \in Streams |-> "none"]
    /\ ctxDone = {} /\ told = {} /\ pumped = {}
    /\ usable \in BOOLEAN
    /\ faults = 0 /\ crashes = 0

Goto(p, site) == pc' = [pc EXCEPT ![p] = site]

-----------------------------------------------------------------------------
(***************************************************************************)
(* store.UpdateJob                                                         *)
(***************************************************************************)

\* The record after p's closure ran on j without aborting.
Closure(p, j) == Apply(pc[p], IF p \in Streams THEN reason[p] ELSE "none", j)

\* A pump whose closure assigns to a variable of its own.
CapturedShadowed(p, j) ==
    IF pc[p] \in {"cancel_unassigned", "close_unfinished"} \/ Closure(p, j) = j
    THEN flag[p] ELSE Closure(p, j).status

\* The captured variable after p's closure ran on j.  A closure that leaves
\* the record alone leaves the variable alone too: it is not reset.
Captured(p, j) ==
    CASE pc[p] = "to_launching" /\ j.status = "queued"              -> "launching"
      [] pc[p] = "to_failed" /\ j.status = "launching"              -> "failed"
      [] pc[p] = "to_awaiting" /\ j.status = "launching"            -> "awaiting_harness"
      [] pc[p] = "cancel_unassigned" /\ ~Terminal(j.status)         -> "cancelled"
      [] pc[p] = "fail_stuck" /\ j.status = "awaiting_harness"      -> "failed"
      [] pc[p] = "close_unfinished"                                 -> CloseUnfinished(j).status
      [] OTHER                                                      -> flag[p]

\* Where the caller of UpdateJob at site goes on, by the call's outcome
\* ("ok", "noupdate" when the closure aborted, "err") and the captured
\* variable fl.
AfterUpdate(site, out, fl) ==
    LET moved == out = "ok" /\ fl # "none" IN
    CASE site = "to_launching"       -> IF moved THEN "say_launching" ELSE "exit"
      [] site = "to_failed"          -> IF moved THEN "say_failed" ELSE "exit"
      [] site = "to_awaiting"        -> IF moved THEN "say_awaiting" ELSE "exit"
      [] site = "mark_running"       -> IF out = "noupdate" THEN "closing" ELSE "say_running"
      [] site = "fail_job"           -> IF out = "ok" THEN "say_settled" ELSE "closing"
      [] site = "finalise_cancelled" -> IF out = "ok" THEN "say_cancelled" ELSE "exit"
      [] site = "touch"              -> "pump"
      [] site = "finish"             -> IF out = "noupdate" THEN "closing" ELSE "say_settled"
      [] site = "close_unfinished"   -> IF out = "ok" THEN "say_settled" ELSE "closing"
      [] site = "request_cancel"     -> IF out = "ok" THEN "send_cancel" ELSE "error"
      [] site = "cancel_unassigned"  -> IF moved THEN "say_cancelled"
                                        ELSE IF out = "ok" THEN "exit" ELSE "error"
      [] OTHER                       -> IF moved THEN "say_stuck" ELSE "sleep"

\* A handler that returns takes its context with it.
CtxAfter(p, site) == IF site \in {"exit", "error"} THEN ctxDone \ {p} ELSE ctxDone

\* UpdateJob returns out to p.  runTask dismisses the harness when the
\* running transition finds a settled job.
Return(p, out, fl) ==
    LET site == AfterUpdate(pc[p], out, fl) IN
    /\ Goto(p, site)
    /\ next' = [next EXCEPT ![p] = NoJob]
    /\ tries' = [tries EXCEPT ![p] = 0]
    /\ flag' = [flag EXCEPT ![p] = IF site \in SaySites THEN fl ELSE "none"]
    /\ told' = IF pc[p] = "mark_running" /\ out = "noupdate" THEN told \cup {p} ELSE told
    /\ ctxDone' = CtxAfter(p, site)
    /\ UNCHANGED <<timeline, session, reason, pumped, usable, crashes>>

\* The pump runs on a context detached from its stream; every other handler
\* calls the store on a context that may be done.  memStore ignores contexts.
CtxDead(p) == Store = "redis" /\ p \in ctxDone /\ p \notin pumped

\* memStore.UpdateJob: one critical section.
MemUpdate(p) ==
    /\ Store = "mem" /\ pc[p] \in UpdateSites
    /\ IF Aborts(pc[p], job)
       THEN Return(p, "noupdate", flag[p]) /\ UNCHANGED job
       ELSE Return(p, "ok", Captured(p, job)) /\ job' = Closure(p, job)
    /\ UNCHANGED <<fresh, faults>>

\* redisStore.UpdateJob, first half of an attempt: WATCH, HGETALL, fn(j).
TxRead(p) ==
    /\ Store = "redis" /\ pc[p] \in UpdateSites
    /\ next[p] = NoJob /\ ~CtxDead(p)
    /\ \/ /\ Aborts(pc[p], job)
          /\ Return(p, "noupdate", flag[p])
          /\ UNCHANGED fresh
       \/ /\ ~Aborts(pc[p], job)
          /\ next' = [next EXCEPT ![p] = Closure(p, job)]
          /\ flag' = [flag EXCEPT ![p] = Captured(p, job)]
          /\ fresh' = fresh \cup {p}
          /\ UNCHANGED <<timeline, session, pc, tries, peerVars,
                         ctxDone, usable, crashes>>
    /\ UNCHANGED <<job, faults>>

\* EXEC lands: nobody has written p's key since its WATCH.
UnwatchedExec(p) == next[p] # NoJob
WatchHolds(p) == p \in fresh

\* The attempt p has lost was its last one.
LastTryOffByOne(p) == tries[p] >= MaxUpdateRetries
LastTry(p) == tries[p] + 1 >= MaxUpdateRetries

\* Second half: MULTI, HSET, EXEC.  Writing the key, even with the values it
\* had, fails every other transaction that watches it.
TxExec(p) ==
    /\ next[p] # NoJob
    /\ \/ /\ WatchHolds(p)
          /\ job' = next[p]
          /\ fresh' = {}
          /\ Return(p, "ok", flag[p])
       \/ /\ ~WatchHolds(p) /\ ~LastTry(p)
          /\ next' = [next EXCEPT ![p] = NoJob]
          /\ tries' = [tries EXCEPT ![p] = @ + 1]
          /\ UNCHANGED <<storeVars, session, pc, fresh, flag, peerVars,
                         ctxDone, usable, crashes>>
       \/ /\ ~WatchHolds(p) /\ LastTry(p)
          /\ Return(p, "err", flag[p])
          /\ UNCHANGED <<job, fresh>>
    /\ UNCHANGED faults

\* WATCH on a context that is done, or a connection that fails: before the
\* EXEC, or after it landed and before its reply arrived.
UpdateFails(p) ==
    /\ Store = "redis" /\ pc[p] \in UpdateSites
    /\ \/ /\ CtxDead(p) /\ next[p] = NoJob
          /\ UNCHANGED <<job, fresh, faults>>
       \/ /\ faults < MaxFaults /\ faults' = faults + 1
          /\ fresh' = fresh \ {p}
          /\ UNCHANGED job
       \/ /\ faults < MaxFaults /\ faults' = faults + 1
          /\ next[p] # NoJob /\ WatchHolds(p)
          /\ job' = next[p]
          /\ fresh' = {}
    /\ Return(p, "err", flag[p])

-----------------------------------------------------------------------------
(***************************************************************************)
(* Status events: appendStatusEvent, appendStatus                          *)
(***************************************************************************)

StatusSaid(p) ==
    CASE pc[p] = "say_queued"    -> "queued"
      [] pc[p] = "say_launching" -> "launching"
      [] pc[p] = "say_awaiting"  -> "awaiting_harness"
      [] pc[p] = "say_running"   -> "running"
      [] pc[p] = "say_cancelled" -> "cancelled"
      [] pc[p] = "say_settled"   -> flag[p]
      [] OTHER                   -> "failed"

AfterSay(site) ==
    CASE site = "say_queued"    -> "to_launching"
      [] site = "say_launching" -> "launch"
      [] site = "say_running"   -> "pump"
      [] site = "say_settled"   -> "closing"
      [] site = "say_stuck"     -> "sleep"
      [] OTHER                  -> "exit"

\* Appending to the timeline.  Only terminal statuses are kept: they end
\* watches, and no property is about the others.
AppendEvent(status) ==
    \/ ~Terminal(status) /\ UNCHANGED timeline
    \/ Terminal(status) /\ ending = "none" /\ ending' = status /\ UNCHANGED late
    \/ Terminal(status) /\ ending # "none" /\ late' = late \cup {status} /\ UNCHANGED ending

\* The append is best-effort: a failure is logged and the handler goes on.
\* launch starts on a context of its own; the pump detaches its context.
AppendStatus(p) ==
    /\ pc[p] \in SaySites
    /\ \/ /\ ~CtxDead(p)
          /\ AppendEvent(StatusSaid(p))
          /\ UNCHANGED faults
       \/ CtxDead(p) /\ UNCHANGED <<timeline, faults>>
       \/ faults < MaxFaults /\ faults' = faults + 1 /\ UNCHANGED timeline
    /\ Goto(p, AfterSay(pc[p]))
    /\ flag' = [flag EXCEPT ![p] = "none"]
    /\ ctxDone' = IF pc[p] = "say_queued" THEN ctxDone \ {p}
                  ELSE CtxAfter(p, AfterSay(pc[p]))
    /\ pumped' = IF pc[p] = "say_running" THEN pumped \cup {p} ELSE pumped
    /\ UNCHANGED <<job, session, next, fresh, tries, reason, told,
                   usable, crashes>>

-----------------------------------------------------------------------------
(***************************************************************************)
(* Service.Submit and Service.launch                                       *)
(***************************************************************************)

Submit ==
    /\ pc[Launcher] = "submit"
    /\ job' = NewJob
    /\ Goto(Launcher, "say_queued")
    /\ UNCHANGED <<timeline, session, txVars, peerVars, envVars>>

\* The config does not resolve or validate, or CreateJob fails.
Reject ==
    /\ pc[Launcher] = "submit"
    /\ Goto(Launcher, "exit")
    /\ UNCHANGED <<storeVars, session, txVars, peerVars, envVars>>

\* CreateJob's EXEC landed and its reply did not: Submit returns an error and
\* launches nothing.
SubmitLost ==
    /\ pc[Launcher] = "submit" /\ faults < MaxFaults
    /\ faults' = faults + 1
    /\ job' = NewJob
    /\ Goto(Launcher, "exit")
    /\ UNCHANGED <<timeline, session, txVars, peerVars, ctxDone, usable, crashes>>

\* launcher.Launch: the harness was created, or an error came back.
Launch ==
    /\ pc[Launcher] = "launch"
    /\ \E site \in {"to_awaiting", "to_failed"} : Goto(Launcher, site)
    /\ UNCHANGED <<storeVars, session, txVars, peerVars, envVars>>

\* The submitting client hangs up, or launchTimeout passes: the deadline
\* covers the whole launch, its status transitions included.  memStore does
\* not look at it.
LauncherCtxDone ==
    /\ Store = "redis" /\ Launcher \notin ctxDone
    /\ \/ pc[Launcher] = "say_queued"
       \/ LaunchMayTimeOut /\ pc[Launcher] \in {"to_launching", "say_launching", "launch",
                                                "to_failed", "say_failed", "to_awaiting",
                                                "say_awaiting"}
    /\ ctxDone' = ctxDone \cup {Launcher}
    /\ UNCHANGED <<storeVars, session, pc, txVars, peerVars,
                   usable, faults, crashes>>

-----------------------------------------------------------------------------
(***************************************************************************)
(* Handler.runTask and the event pump                                      *)
(***************************************************************************)

\* Closed before ready, not ready, no id, unknown job, wrong token, or GetJob
\* failed: every case but the first sends cancel, none touches the job.
Dismiss(s) ==
    /\ pc[s] = "away"
    /\ Goto(s, "exit")
    /\ UNCHANGED <<storeVars, session, txVars, peerVars, envVars>>

\* ready with the job's session string: GetJob and the pre-assignment check.
\* A harness for a closed job is sent cancel on a stream that never registers.
Ready(s) ==
    /\ pc[s] = "away" /\ job # NoJob
    /\ Goto(s, CASE Terminal(job.status)                          -> "exit"
                 [] ~Terminal(job.status) /\ job.cancelRequested  -> "finalise_cancelled"
                 [] OTHER                                         -> "register")
    /\ UNCHANGED <<storeVars, session, txVars, peerVars, envVars>>

\* Registry.Register finds the job free.
\* Mutant: a second stream takes the job over.
JobTaken(s) == TRUE
JobFree(s) == session = None

\* reg.Register: the first stream owns the job, a second one is dismissed.
Register(s) ==
    /\ pc[s] = "register"
    /\ \/ JobFree(s) /\ session' = s /\ Goto(s, "assign") /\ UNCHANGED ctxDone
       \/ /\ ~JobFree(s) /\ UNCHANGED session
          /\ Goto(s, "exit") /\ ctxDone' = CtxAfter(s, "exit")
    /\ UNCHANGED <<storeVars, txVars, peerVars, usable, faults, crashes>>

\* parseRunConfig, then Send(task_assignment), which may fail once the
\* harness is gone.
Assign(s) ==
    /\ pc[s] = "assign"
    /\ \/ /\ usable
          /\ Goto(s, "mark_running")
          /\ UNCHANGED <<told, flag>>
       \/ /\ usable /\ s \in ctxDone
          /\ Goto(s, "fail_job")
          /\ flag' = [flag EXCEPT ![s] = "failed"]
          /\ UNCHANGED told
       \/ /\ ~usable
          /\ told' = told \cup {s}
          /\ Goto(s, "fail_job")
          /\ flag' = [flag EXCEPT ![s] = "failed"]
    /\ UNCHANGED <<storeVars, session, next, fresh, tries, reason, pumped, envVars>>

\* An event that is not done and makes the pump persist LastEventAt.
ReceiveEvent(s) ==
    /\ pc[s] = "pump" /\ s \notin ctxDone
    /\ Goto(s, "touch")
    /\ UNCHANGED <<storeVars, session, txVars, peerVars, envVars>>

ReceiveDone(s, stopReason) ==
    /\ pc[s] = "pump"
    /\ reason' = [reason EXCEPT ![s] = stopReason]
    /\ flag' = [flag EXCEPT ![s] = StatusForStopReason(stopReason)]
    /\ Goto(s, "finish")
    /\ UNCHANGED <<storeVars, session, next, fresh, tries, told, pumped, envVars>>

\* The stream ends without done.
ReceiveEndQuietly(s) ==
    /\ pc[s] = "pump" /\ s \in ctxDone
    /\ Goto(s, "closing")
    /\ UNCHANGED <<storeVars, session, txVars, peerVars, envVars>>
ReceiveEnd(s) ==
    /\ pc[s] = "pump" /\ s \in ctxDone
    /\ Goto(s, "close_unfinished")
    /\ UNCHANGED <<storeVars, session, txVars, peerVars, envVars>>

\* Registry.Unregister
RegistryUnregister(s) == session' = IF session = s THEN None ELSE session

\* The deferred Unregister; "closing" is entered with sess.close().
Unregister(s) ==
    /\ pc[s] = "closing"
    /\ RegistryUnregister(s)
    /\ Goto(s, "exit")
    /\ told' = told \ {s}
    /\ ctxDone' = CtxAfter(s, "exit")
    /\ reason' = [reason EXCEPT ![s] = "none"]
    /\ UNCHANGED <<storeVars, txVars, pumped, usable, faults, crashes>>

\* The harness exits, is evicted, or reaches its pod's deadline.
HangUp(s) ==
    /\ pc[s] \notin {"away", "exit"} /\ s \notin ctxDone
    /\ ctxDone' = ctxDone \cup {s}
    /\ UNCHANGED <<storeVars, session, pc, txVars, peerVars,
                   usable, faults, crashes>>

-----------------------------------------------------------------------------
(***************************************************************************)
(* Service.Cancel                                                          *)
(***************************************************************************)

Cancel(c) ==
    /\ pc[c] = "away" /\ job # NoJob
    /\ Goto(c, IF Terminal(job.status) THEN "exit" ELSE "connected")
    /\ UNCHANGED <<storeVars, session, txVars, peerVars, envVars>>

CancelGetFails(c) ==
    /\ pc[c] = "away" /\ faults < MaxFaults
    /\ faults' = faults + 1
    /\ Goto(c, "error")
    /\ UNCHANGED <<storeVars, session, txVars, peerVars, ctxDone, usable, crashes>>

\* registry.Connected
CheckConnected(c) ==
    /\ pc[c] = "connected"
    /\ Goto(c, IF session # None THEN "request_cancel" ELSE "cancel_unassigned")
    /\ UNCHANGED <<storeVars, session, txVars, peerVars, envVars>>

\* A session the registry knows and whose stream has not been closed.
SessionOpen == session # None /\ pc[session] # "closing"

\* registry.Send(cancel): no session or a closed one is ErrNotConnected; a
\* write to a harness that is gone may fail.
SendCancel(c) ==
    /\ pc[c] = "send_cancel"
    /\ \/ /\ ~SessionOpen
          /\ Goto(c, "cancel_unassigned")
          /\ UNCHANGED told
       \/ /\ SessionOpen
          /\ told' = told \cup {session}
          /\ Goto(c, "exit")
       \/ /\ SessionOpen /\ session \in ctxDone
          /\ Goto(c, "error")
          /\ UNCHANGED told
    /\ ctxDone' = CtxAfter(c, pc'[c])
    /\ UNCHANGED <<storeVars, session, txVars, reason, pumped, usable, faults, crashes>>

CallerGone(c) ==
    /\ Store = "redis"
    /\ pc[c] \notin {"away", "exit", "error"} /\ c \notin ctxDone
    /\ ctxDone' = ctxDone \cup {c}
    /\ UNCHANGED <<storeVars, session, pc, txVars, peerVars,
                   usable, faults, crashes>>

-----------------------------------------------------------------------------
(***************************************************************************)
(* Reaper: the awaiting_harness pass of a sweep.  It acts on the list it   *)
(* read, on a job whose deadline has passed by then; a sweep before that,  *)
(* or on a job in another status, does nothing.                            *)
(***************************************************************************)

Sweep ==
    /\ pc[Reaper] = "sleep"
    /\ \/ job.status = "awaiting_harness" /\ Goto(Reaper, "fail_stuck")
       \/ Goto(Reaper, "sleep")
    /\ UNCHANGED <<storeVars, session, txVars, peerVars, envVars>>

-----------------------------------------------------------------------------
(***************************************************************************)
(* The server dies and is started again: goroutines and the registry are   *)
(* lost, the Redis record and timeline are not.  Harnesses and callers of  *)
(* the dead server are disconnected; the others may still come.            *)
(***************************************************************************)

Crash ==
    /\ crashes < MaxCrashes
    /\ crashes' = crashes + 1
    /\ pc' = [p \in Procs |->
                CASE p = Reaper                      -> "sleep"
                  [] pc[p] \in {"submit", "away"}    -> pc[p]
                  [] p \in Cancellers                -> "error"
                  [] OTHER                           -> "exit"]
    /\ session' = None
    /\ next' = [p \in Procs |-> NoJob]
    /\ fresh' = {}
    /\ tries' = [p \in Procs |-> 0]
    /\ flag' = [p \in Procs |-> "none"]
    /\ reason' = [s \in Streams |-> "none"]
    /\ told' = {} /\ ctxDone' = {}
    /\ UNCHANGED <<storeVars, pumped, usable, faults>>

UpdateJob(p) == MemUpdate(p) \/ TxRead(p) \/ TxExec(p) \/ UpdateFails(p)

StoreCall(p) == UpdateJob(p) \/ AppendStatus(p)

StreamStep(s) ==
    \/ Register(s) \/ Assign(s) \/ ReceiveEnd(s) \/ Unregister(s)

CancelStep(c) == CheckConnected(c) \/ SendCancel(c)

Next ==
    \/ \E p \in Procs : StoreCall(p)
    \/ Submit \/ Reject \/ SubmitLost \/ Launch \/ LauncherCtxDone
    \/ \E s \in Streams : \/ Dismiss(s) \/ Ready(s) \/ StreamStep(s)
                          \/ ReceiveEvent(s) \/ HangUp(s)
                          \/ \E r \in StopReasons : ReceiveDone(s, r)
    \/ \E c \in Cancellers : Cancel(c) \/ CancelGetFails(c) \/ CancelStep(c) \/ CallerGone(c)
    \/ Sweep
    \/ Crash

Spec == Init /\ [][Next]_vars

(***************************************************************************)
(* Handlers run until they return; store calls end (go-redis has read and  *)
(* write timeouts); a harness does not outlive its pod's                   *)
(* activeDeadlineSeconds; the reaper's timer keeps firing.  Nobody has to  *)
(* submit, dial in or cancel.                                              *)
(***************************************************************************)
Fairness ==
    /\ \A p \in Procs : WF_vars(StoreCall(p))
    /\ WF_vars(Launch)
    /\ \A s \in Streams : WF_vars(StreamStep(s)) /\ WF_vars(HangUp(s))
    /\ \A c \in Cancellers : WF_vars(CancelStep(c))
    /\ WF_vars(Sweep)

FairSpec == Spec /\ Fairness

-----------------------------------------------------------------------------
(***************************************************************************)
(* Properties                                                              *)
(***************************************************************************)

\* Every variable has its type; a handler is at a location of its own code.
TypeOK ==
    /\ job \in JobRecord \cup {NoJob}
    /\ ending \in Statuses \cup {"none"} /\ late \in SUBSET Statuses
    /\ session \in Streams \cup {None}
    /\ pc \in [Procs -> Sites] /\ \A p \in Procs : pc[p] \in SitesOf(p)
    /\ next \in [Procs -> JobRecord \cup {NoJob}]
    /\ fresh \in SUBSET Procs
    /\ tries \in [Procs -> 0 .. MaxUpdateRetries - 1]
    /\ flag \in [Procs -> Statuses \cup {"none"}]
    /\ reason \in [Streams -> StopReasons \cup {"none"}]
    /\ ctxDone \in SUBSET Procs
    /\ told \in SUBSET Streams /\ pumped \in SUBSET Streams
    /\ usable \in BOOLEAN
    /\ faults \in 0 .. MaxFaults /\ crashes \in 0 .. MaxCrashes

\* The handlers, over either store, implement the record's contract: every
\* commit of UpdateJob, however its attempts interleave, is one atomic
\* application of the closure to the current record.
JobStatusSpec == INSTANCE JobStatus WITH record <- job

RecordContract == JobStatusSpec!Spec

\* A terminal record is never resurrected or settled a second time, whatever
\* the launch, the streams, the cancellations, the reaper, failing calls and
\* crashes do (the checks inside the closures of UpdateJob).
TerminalIsFinal ==
    [][Terminal(job.status) => /\ job'.status = job.status
                               /\ job'.stopReason = job.stopReason
                               /\ job'.finished]_job

\* The reaper ages terminal jobs by FinishedAt: it is set on all of them and
\* on no other.
FinishedIffTerminal == job.finished <=> Terminal(job.status)

\* The registry and the handlers agree: the session in the registry is that
\* of the one stream that is past Register and not yet past Unregister.
RegistryOwnsStream ==
    \A s \in Streams : pc[s] \in RegisteredSites <=> session = s

\* A stream that ends without done is recorded as cancelled exactly when a
\* cancel request is on record at the write (closeUnfinished), and the status
\* it will announce is the one it wrote.
CancelExplainsClosure ==
    [][\A s \in Streams :
          pc[s] = "close_unfinished" /\ pc'[s] = "say_settled" =>
             /\ job'.status = IF job.cancelRequested THEN "cancelled" ELSE "failed"
             /\ flag'[s] = job'.status]_vars

\* While no store call fails and the server does not crash, a record that
\* says running has a pump behind it that has yet to settle it.
RunningIsOwned ==
    job.status = "running" =>
        \E s \in Streams : /\ session = s
                           /\ pc[s] \in {"say_running", "pump", "touch",
                                         "finish", "close_unfinished"}

\* One harness run per job: no second stream reaches the event pump.
OneRunPerJob == \A s, t \in pumped : s = t

\* The status_change event that ends a watch is true: the job has that
\* terminal status, and no second one follows.
TerminalEventIsTrue ==
    ending # "none" => ending = job.status /\ late = {}

\* Once CancelJob has returned without an error, a harness that is executing
\* the job has been sent cancel.
CancelReachesHarness ==
    \A c \in Cancellers, s \in Streams :
        pc[c] = "exit" /\ job.status = "cancelled" /\ pc[s] = "pump" => s \in told

\* Every submitted job reaches a terminal status.
EventuallySettles == job # NoJob ~> Terminal(job.status)

\* A terminal status is eventually on the timeline, where it ends watches.
SettleIsAnnounced == Terminal(job.status) ~> ending # "none"

=============================================================================
