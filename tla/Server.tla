------------------------------- MODULE Server -------------------------------
(***************************************************************************)
(* One process of `hairpin serve` (cmd/hairpin/serve.go): it parses its    *)
(* flags, builds its parts in order, serves harness streams and API calls, *)
(* and ends on a signal or because the listener fails.                     *)
(*                                                                         *)
(* The parts a run of the process needs are abstracted to what start-up,   *)
(* shutdown and the sends on a stream depend on: module JobLifecycle has   *)
(* the record a stream works on, module EventPump what its pump does.      *)
(* A stream claims one job; the goroutines that send on it are its own     *)
(* (runTask and the event pump it becomes), the memory calls the pump      *)
(* leaves behind, the API handlers and, at the end, serve itself.          *)
(***************************************************************************)
EXTENDS ServerConfig, Sequences, FiniteSets

CONSTANTS
    Flags,          \* command lines tried
    Streams,        \* harness streams
    Jobs,           \* jobs their harnesses claim
    Callers,        \* API handlers that submit a job or send on a stream
    Workers,        \* goroutines of memory calls, one call each
    Main,           \* the goroutine of serve
    None

ASSUME ServerAssumption ==
    /\ Streams \cap (Callers \cup Workers) = {} /\ Callers \cap Workers = {}
    /\ Main \notin Streams \cup Callers \cup Workers
    /\ None \notin Streams \cup Callers \cup Workers \cup {Main}
    /\ MaxInt32 \in Nat /\ Flags \subseteq Config

\* The goroutines that reach a stream through its session.
Routers == Callers \cup Workers \cup {Main}
Senders == Streams \cup Routers

VARIABLES
    cfg,        \* parsed flags until the parts are built, then NoConfig
    listening,  \* the listener has its address
    phase,      \* where serve is
    defers,     \* deferred calls, the last one to run first
    failure,    \* what start-up failed on
    ending,     \* "none", "signal", "listener"
    expired,    \* the grace of Shutdown ran out
    todo,       \* jobs the shutdown has still to cancel
    reaper,     \* "off", "running", "stopped"
    claim,      \* job each stream's harness claims
    spc,        \* location of runTask for each stream
    registry,   \* job -> session (its stream), None without one
    shut,       \* streams whose session was closed
    mutex,      \* holder of each session's mutex, None when free
    inSend,     \* goroutines inside Send of each stream
    target,     \* session each router is to send on, None when idle
    told,       \* open streams the shutdown has sent cancel
    unsent,     \* open streams whose cancel at shutdown failed
    missed,     \* open streams that registered after the shutdown read the registry
    calls,      \* callers inside Submit, before the launch is handed over
    launches,   \* launch goroutines, named by their callers
    memory,     \* where each memory call is: "none", "calling", "answering", "done"
    counted,    \* HarnessSession calls of each stream
    active      \* the active sessions gauge

bootVars   == <<cfg, listening, defers, failure, reaper>>
endVars    == <<ending, expired, todo>>
streamVars == <<claim, spc, registry, shut, missed, counted, active>>
sendVars   == <<mutex, inSend, target, told, unsent>>
workVars   == <<calls, launches, memory>>
vars == <<bootVars, phase, endVars, streamVars, sendVars, workVars>>

\* runTask holds the session between Register and its deferred Unregister.
Registered == {"registered", "assigning", "assigned", "pump", "replying", "dismiss",
               "cancelling", "closing", "leaving", "closed"}
\* ... and is an active session between SessionOpened and SessionClosed.
Active     == {"assigned", "pump", "replying", "cancelling", "closing"}
InProgress == Registered \cup {"open"}

Streaming == {s \in Streams : spc[s] \in InProgress}
InFlight  == {m \in Workers : memory[m] \in {"calling", "answering"}}
Serving   == phase \in {"serving", "cancelling"}

-----------------------------------------------------------------------------
(* Start-up *)

\* parseServeFlags fails before anything is built.
Start(f, detected) ==
    /\ phase = "start"
    /\ cfg' = parseServeFlags(f, detected)
    /\ phase' = IF cfg' = NoConfig THEN "exited" ELSE "telemetry"
    /\ failure' = IF cfg' = NoConfig THEN "flags" ELSE "none"
    /\ UNCHANGED <<listening, defers, reaper, endVars, streamVars, sendVars, workVars>>

\* A part is built: its deferred call is noted and serve goes on to the next.
Built(part, deferred, to) ==
    /\ phase = part /\ phase' = to
    /\ defers' = deferred \o defers
    /\ UNCHANGED <<cfg, listening, failure, reaper, endVars, streamVars, sendVars, workVars>>

\* It cannot be built: serve returns, running the calls deferred so far.
Failed(part, why) ==
    /\ phase = part /\ phase' = "unwinding"
    /\ failure' = why
    /\ UNCHANGED <<cfg, listening, defers, reaper, endVars, streamVars, sendVars, workVars>>

\* newResource, newSpanExporter or newMetricExporter fails, for reasons outside.
ExporterFails == TelemetryEnabled(cfg) /\ Failed("telemetry", "exporter")

\* telemetry.Setup: validates again, then needs a resource, two exporters and
\* the recorder's instruments; what it had built by then it shuts down itself.
SetupTelemetry ==
    /\ phase = "telemetry"
    /\ \/ TelemetryValid(cfg) /\ Built("telemetry", <<"telemetry">>, "store")
       \/ ~TelemetryValid(cfg) /\ Failed("telemetry", "telemetry options")
       \/ ExporterFails

\* The in-memory store needs nothing; Redis must answer a ping.
buildStore ==
    /\ phase = "store"
    /\ \/ Built("store", <<"store">>, "profiles")
       \/ cfg.redis # "" /\ Failed("store", "redis")

\* The directory and its files must parse, and hold the default profile.
LoadProfiles ==
    /\ phase = "profiles"
    /\ \/ \E names \in SUBSET {"default", "other"} :
            IF ProfilesOK(names, cfg.defaultProfile)
            THEN Built("profiles", << >>, "launcher")
            ELSE Failed("profiles", "default profile")
       \/ Failed("profiles", "profile file")

\* NewK8s finds no configuration of a client, or an unusable one.
NewK8sFails == cfg.launcher = "kubernetes" /\ Failed("launcher", "kubernetes client")

buildLauncher ==
    /\ phase = "launcher"
    /\ \/ Built("launcher", << >>, "issuer")
       \/ NewK8sFails

\* The key file is read once; New then checks the settings again.
buildTokenIssuer ==
    /\ phase = "issuer"
    /\ \/ cfg.keyPath = "" /\ Built("issuer", << >>, "wire")
       \/ cfg.keyPath # "" /\ IssuerArgsOK(cfg) /\ Built("issuer", << >>, "wire")
       \/ cfg.keyPath # "" /\ Failed("issuer", "key file")
       \/ cfg.keyPath # "" /\ ~IssuerArgsOK(cfg) /\ Failed("issuer", "issuer settings")

\* Registry, service, control plane, reaper, mux and listener: with telemetry
\* there is an interceptor to build first.  An address net.Listen refuses makes
\* ListenAndServe fail before the first connection.
Wire ==
    /\ phase = "wire"
    /\ \/ /\ phase' = "serving"
          /\ defers' = <<"reaper">> \o defers
          /\ reaper' = "running"
          /\ listening' = (cfg.listen # "bad")
          /\ cfg' = NoConfig
          /\ UNCHANGED <<failure, endVars, streamVars, sendVars, workVars>>
       \/ TelemetryEnabled(cfg) /\ Failed("wire", "interceptor")

-----------------------------------------------------------------------------
(* Sending on a stream *)

\* registry.Send: looks the session up, then waits for its mutex.
Route(p, j) ==
    /\ target[p] = None
    /\ registry[j] # None
    /\ target' = [target EXCEPT ![p] = registry[j]]
    /\ UNCHANGED <<mutex, inSend, told, unsent>>

\* session.Send: under the mutex, and not on a closed session.
\* Mutant: without the mutex.
TakesAnyway(p, s) == TRUE
Takes(p, s) == mutex[s] = None

EnterSend(p, s) ==
    /\ p \notin inSend[s] /\ Takes(p, s)
    /\ s \notin shut
    /\ mutex' = [mutex EXCEPT ![s] = p]
    /\ inSend' = [inSend EXCEPT ![s] = @ \cup {p}]

LeaveSend(p, s) ==
    /\ p \in inSend[s]
    /\ mutex' = [mutex EXCEPT ![s] = IF @ = p THEN None ELSE @]
    /\ inSend' = [inSend EXCEPT ![s] = @ \ {p}]

\* A caller's message is a cancel or the answer to a permission request, a
\* worker's a tool result, Main's a cancel.  The send may fail; serve logs that.
Outcome(p, s) ==
    \/ p # Main /\ UNCHANGED <<told, unsent>>
    \/ p = Main /\ told' = told \cup {s} /\ UNCHANGED unsent
    \/ p = Main /\ unsent' = unsent \cup {s} /\ UNCHANGED told

\* A closed session answers ErrNotConnected.
NotConnected(p, s) ==
    /\ s \in shut /\ p \notin inSend[s] /\ Takes(p, s)
    /\ unsent' = IF p = Main THEN unsent \cup {s} ELSE unsent
    /\ UNCHANGED <<mutex, inSend, told>>

Deliver(p) ==
    \E s \in Streams : target[p] = s /\
        \/ EnterSend(p, s) /\ UNCHANGED <<target, told, unsent>>
        \/ /\ LeaveSend(p, s) /\ Outcome(p, s)
           /\ target' = [target EXCEPT ![p] = None]
        \/ /\ NotConnected(p, s)
           /\ target' = [target EXCEPT ![p] = None]

-----------------------------------------------------------------------------
(* Harness streams *)

\* The recorder: each stream's disposition, and a gauge of those at work.
SessionOpened == active' = active + 1
SessionClosed == active' = active - 1
Count(s) == counted' = [counted EXCEPT ![s] = @ + 1]
To(s, from, to) == spc[s] = from /\ spc' = [spc EXCEPT ![s] = to]

\* A harness dials in; after the listener stopped, a new stream is refused.
Open(s) ==
    /\ Serving /\ listening
    /\ To(s, "away", "open")
    /\ claim' \in {[claim EXCEPT ![s] = j] : j \in Jobs}
    /\ UNCHANGED <<bootVars, phase, endVars, registry, shut, missed, counted, active,
                   sendVars, workVars>>

\* Dismissed before the registry: the stream closed, no ready, no session id,
\* an unknown job, a bad token, a closed job, or a job another stream holds.
\* Nothing else can reach the stream: its cancel needs no mutex.
\* Mutant: a stream for a job that is closed is not counted.
DismissUncounted(s) ==
    /\ To(s, "open", "gone")
    /\ UNCHANGED counted
Dismiss(s) ==
    /\ To(s, "open", "gone")
    /\ Count(s)

Refuse(s) ==
    /\ Dismiss(s)
    /\ claim' = [claim EXCEPT ![s] = None]
    /\ UNCHANGED <<bootVars, phase, endVars, registry, shut, missed, active,
                   sendVars, workVars>>

Register(s) ==
    /\ To(s, "open", "registered")
    /\ registry[claim[s]] = None
    /\ registry' = [registry EXCEPT ![claim[s]] = s]
    /\ missed' = IF phase \in {"start", "serving"} THEN missed ELSE missed \cup {s}
    /\ UNCHANGED <<bootVars, phase, endVars, claim, shut, counted, active,
                   sendVars, workVars>>

\* The stored run config does not parse: cancelled past the mutex.
Unusable(s) ==
    /\ To(s, "registered", "dismiss")
    /\ Count(s)
    /\ UNCHANGED <<bootVars, phase, endVars, claim, registry, shut, missed, active,
                   sendVars, workVars>>

Assign(s) ==
    /\ \/ /\ To(s, "registered", "assigning") /\ EnterSend(s, s)
          /\ UNCHANGED <<counted, active>>
       \/ /\ To(s, "assigning", "assigned") /\ LeaveSend(s, s)
          /\ Count(s) /\ SessionOpened
       \* the send failed
       \/ /\ To(s, "assigning", "leaving") /\ LeaveSend(s, s)
          /\ Count(s) /\ UNCHANGED active
    /\ UNCHANGED <<bootVars, phase, endVars, claim, registry, shut, missed, target, told,
                   unsent, workVars>>

\* The job becomes running, or has settled already and the harness is
\* cancelled, past the mutex again.
MarkRunning(s) ==
    /\ \/ To(s, "assigned", "pump")
       \/ To(s, "assigned", "cancelling")
    /\ UNCHANGED <<bootVars, phase, endVars, claim, registry, shut, missed, counted, active,
                   sendVars, workVars>>

\* sendCancel on the stream itself; its failure is logged.
BareCancel(s) ==
    /\ spc[s] \in {"dismiss", "cancelling"}
    /\ \/ /\ s \notin inSend[s]
          /\ inSend' = [inSend EXCEPT ![s] = @ \cup {s}]
          /\ UNCHANGED spc
       \/ /\ s \in inSend[s]
          /\ inSend' = [inSend EXCEPT ![s] = @ \ {s}]
          /\ spc' = [spc EXCEPT ![s] = IF @ = "dismiss" THEN "leaving" ELSE "closing"]
    /\ UNCHANGED <<bootVars, phase, endVars, claim, registry, shut, missed, counted, active,
                   mutex, target, told, unsent, workVars>>

\* The pump answers a sandbox token request, or refuses a tool call, itself.
Reply(s) ==
    /\ \/ To(s, "pump", "replying") /\ EnterSend(s, s)
       \/ To(s, "replying", "pump") /\ LeaveSend(s, s)
    /\ UNCHANGED <<bootVars, phase, endVars, claim, registry, shut, missed, counted, active,
                   target, told, unsent, workVars>>

\* It leaves an admitted memory call to a goroutine, which keeps the session.
StartMemoryCall(s, m) ==
    /\ spc[s] = "pump" /\ memory[m] = "none"
    /\ memory' = [memory EXCEPT ![m] = "calling"]
    /\ target' = [target EXCEPT ![m] = s]
    /\ UNCHANGED <<bootVars, phase, endVars, streamVars, mutex, inSend, told, unsent,
                   calls, launches>>

\* done, an error of the stream, or the harness has obeyed a cancel.
EndPump(s) ==
    /\ To(s, "pump", "closing")
    /\ UNCHANGED <<bootVars, phase, endVars, claim, registry, shut, missed, counted, active,
                   sendVars, workVars>>

\* The deferred calls of runTask: SessionClosed if SessionOpened ran ...
EndSession(s) ==
    /\ To(s, "closing", "leaving") /\ SessionClosed
    /\ UNCHANGED <<bootVars, phase, endVars, claim, registry, shut, missed, counted,
                   sendVars, workVars>>

\* ... session.close, under the mutex ...
CloseSession(s) ==
    /\ To(s, "leaving", "closed") /\ mutex[s] = None
    /\ shut' = shut \cup {s}
    /\ UNCHANGED <<bootVars, phase, endVars, claim, registry, missed, counted, active,
                   sendVars, workVars>>

\* ... and Unregister, up to which the registry names a closed session.
Unregister(s) ==
    /\ To(s, "closed", "gone")
    /\ registry' = [registry EXCEPT ![claim[s]] = IF @ = s THEN None ELSE @]
    /\ claim' = [claim EXCEPT ![s] = None]
    /\ told' = told \ {s} /\ missed' = missed \ {s} /\ unsent' = unsent \ {s}
    /\ UNCHANGED <<bootVars, phase, endVars, shut, counted, active, mutex, inSend, target,
                   workVars>>

-----------------------------------------------------------------------------
(* Memory calls *)

\* The backend answers, fails, panics or runs into CallTimeout.
BackendAnswers(m) ==
    /\ memory[m] = "calling" /\ memory' = [memory EXCEPT ![m] = "answering"]
    /\ UNCHANGED <<bootVars, phase, endVars, streamVars, sendVars, calls, launches>>

\* sendToolResult, through the session whether or not the stream is still
\* there; the answer is recorded and WaitGroup memoryWait is told last.
EndMemoryCall(m) ==
    /\ memory[m] = "answering" /\ Deliver(m)
    /\ memory' = [memory EXCEPT ![m] = IF target'[m] = None THEN "done" ELSE @]
    /\ UNCHANGED <<bootVars, phase, endVars, streamVars, calls, launches>>

-----------------------------------------------------------------------------
(* API calls and the reaper *)

\* One request of a caller at a time, and none while its launch is under way.
Idle(c) == Serving /\ listening /\ c \notin calls \cup launches /\ target[c] = None

\* Submit, and the launch it leaves behind; WaitGroup launches has both ends.
Submit(c) ==
    /\ \/ /\ Idle(c) /\ calls' = calls \cup {c} /\ UNCHANGED launches
       \/ /\ c \in calls /\ calls' = calls \ {c}
          /\ launches' \in {launches, launches \cup {c}}
    /\ UNCHANGED <<bootVars, phase, endVars, streamVars, sendVars, memory>>

EndLaunch(c) ==
    /\ c \in launches /\ launches' = launches \ {c}
    /\ UNCHANGED <<bootVars, phase, endVars, streamVars, sendVars, calls, memory>>

\* Cancel and AnswerPermission send to the job's session.
Call(c) ==
    /\ Idle(c) /\ \E j \in Jobs : Route(c, j)
    /\ UNCHANGED <<bootVars, phase, endVars, streamVars, workVars>>

Finish(c) ==
    /\ Deliver(c)
    /\ UNCHANGED <<bootVars, phase, endVars, streamVars, workVars>>

ReaperCancelled == phase = "stopping" \/ (phase = "unwinding" /\ ending # "none" /\
                                          ~\E i \in DOMAIN defers : defers[i] = "reaper")

\* Run notices the cancelled context between sweeps, a sweep at its next call.
StopReaper ==
    /\ reaper = "running" /\ ReaperCancelled /\ reaper' = "stopped"
    /\ UNCHANGED <<cfg, listening, defers, failure, phase, endVars, streamVars, sendVars, workVars>>

-----------------------------------------------------------------------------
(* The end of serve *)

JobIDs == {j \in Jobs : registry[j] # None}

Proceed(from, to) ==
    /\ phase = from /\ phase' = to
    /\ UNCHANGED <<bootVars, streamVars, workVars>>

\* ListenAndServe failed, at once or later: serve returns without waiting for
\* anyone.
ListenError ==
    /\ Proceed("serving", "unwinding")
    /\ ending' = "listener" /\ UNCHANGED <<expired, todo, sendVars>>

Signal ==
    /\ Proceed("serving", "cancelling")
    /\ ending' = "signal" /\ todo' = JobIDs
    /\ UNCHANGED <<expired, sendVars>>

\* One cancel after the other, with no deadline; a job without a session any
\* more is skipped.
CancelRuns ==
    /\ phase = "cancelling"
    /\ \/ /\ target[Main] = None
          /\ \E j \in todo :
                /\ todo' = todo \ {j}
                /\ IF registry[j] = None THEN UNCHANGED sendVars ELSE Route(Main, j)
       \/ Deliver(Main) /\ UNCHANGED todo
    /\ UNCHANGED <<bootVars, phase, ending, expired, streamVars, workVars>>

\* Mutant: the drain begins after the first cancel.
SentSome == target[Main] = None /\ (todo = {} \/ told # {})
SentAll == target[Main] = None /\ todo = {}

StartDrain ==
    /\ Proceed("cancelling", "draining") /\ SentAll
    /\ UNCHANGED <<endVars, sendVars>>

Drained == Streaming = {} /\ \A c \in Callers : c \notin calls /\ target[c] = None

\* server.Shutdown returns when every request has, or after 30 s.
\* Mutant: without the time limit.
ShutdownUnbounded ==
    /\ Proceed("draining", "stopping") /\ Drained
    /\ UNCHANGED <<endVars, sendVars>>
Shutdown ==
    /\ Proceed("draining", "stopping")
    /\ expired' = ~Drained
    /\ UNCHANGED <<ending, todo, sendVars>>

\* Mutant: serve does not wait for the reaper.
WaitReaperNot == Proceed("stopping", "launches") /\ UNCHANGED <<endVars, sendVars>>
WaitReaper == Proceed("stopping", "launches") /\ reaper = "stopped" /\ UNCHANGED <<endVars, sendVars>>

WaitForLaunches ==
    Proceed("launches", "memory") /\ launches = {} /\ UNCHANGED <<endVars, sendVars>>

WaitForMemoryCalls ==
    /\ Proceed("memory", "unwinding") /\ InFlight = {}
    /\ UNCHANGED <<endVars, sendVars>>

\* The deferred calls, last first; after the first one main returns and the
\* process ends.
Unwind ==
    /\ phase = "unwinding"
    /\ defers' = IF defers = << >> THEN << >> ELSE Tail(defers)
    /\ phase' = IF defers' = << >> THEN "exited" ELSE phase
    /\ UNCHANGED <<cfg, listening, failure, reaper, endVars, streamVars, sendVars, workVars>>

-----------------------------------------------------------------------------

Init ==
    /\ cfg = NoConfig /\ listening = FALSE /\ phase = "start" /\ defers = << >> /\ failure = "none"
    /\ ending = "none" /\ expired = FALSE /\ todo = {}
    /\ reaper = "off"
    /\ claim = [s \in Streams |-> None] /\ spc = [s \in Streams |-> "away"]
    /\ registry = [j \in Jobs |-> None] /\ shut = {} /\ missed = {}
    /\ mutex = [s \in Streams |-> None] /\ inSend = [s \in Streams |-> {}]
    /\ target = [p \in Routers |-> None] /\ told = {} /\ unsent = {}
    /\ calls = {} /\ launches = {} /\ memory = [m \in Workers |-> "none"]
    /\ counted = [s \in Streams |-> 0] /\ active = 0

Boot == SetupTelemetry \/ buildStore \/ LoadProfiles \/ buildLauncher \/ buildTokenIssuer \/ Wire

Stop == StartDrain \/ Shutdown \/ WaitReaper \/ WaitForLaunches \/ WaitForMemoryCalls \/ Unwind

runTask(s) == \/ Open(s) \/ Refuse(s) \/ Register(s) \/ Unusable(s) \/ Assign(s)
              \/ MarkRunning(s) \/ BareCancel(s) \/ Reply(s)
              \/ (\E m \in Workers : StartMemoryCall(s, m))
              \/ EndPump(s) \/ EndSession(s) \/ CloseSession(s) \/ Unregister(s)

Next ==
    /\ phase # "exited"
    /\ \/ \E f \in Flags, detected \in {"", "ns"} : Start(f, detected)
       \/ Boot \/ Signal \/ CancelRuns \/ Stop \/ ListenError \/ StopReaper
       \/ \E s \in Streams : runTask(s)
       \/ \E m \in Workers : BackendAnswers(m) \/ EndMemoryCall(m)
       \/ \E c \in Callers : Submit(c) \/ EndLaunch(c) \/ Call(c) \/ Finish(c)

Spec == Init /\ [][Next]_vars

\* p is not inside Send: its next step waits for a mutex at most.
Outside(p) == \A s \in Streams : p \notin inSend[s]

\* serve goes on, the reaper notices its context, launches and memory calls
\* have timeouts, and who waits for a mutex that is free again and again gets
\* it.  Nothing makes a send return: connect's Send has no deadline.
FairSpec ==
    /\ Spec
    /\ WF_vars(Boot) /\ WF_vars(Stop) /\ SF_vars(Outside(Main) /\ CancelRuns)
    /\ WF_vars(StopReaper)
    /\ \A m \in Workers : WF_vars(BackendAnswers(m)) /\ SF_vars(Outside(m) /\ EndMemoryCall(m))
    /\ \A c \in Callers : WF_vars(EndLaunch(c))

-----------------------------------------------------------------------------
(* Properties *)

(* The settings that tokenissuer.New checks again (issuer, audience, TTL)  *)
(* never fail there: Config.Validate has refused such flags before the     *)
(* store was opened.  It says nothing of the flags Validate does not look  *)
(* at: a listen address no listener takes, beside an advertised one, or a  *)
(* default profile that is not in the directory, fail later.               *)
ValidatedBuilds == failure # "issuer settings"

(* Two goroutines are inside Send of one stream only when one of them is   *)
(* runTask sending its bare cancel (controlplane.go:328 and :365); the     *)
(* event pump, the memory calls, the API handlers and the shutdown are     *)
(* kept apart by the session's mutex, whoever outlives whom.               *)
SendsSerialized ==
    \A s \in Streams : \A p, q \in inSend[s] :
        p # q => s \in {p, q} /\ spc[s] \in {"dismiss", "cancelling"}

(* Each stream's disposition is counted exactly once, and the active       *)
(* sessions gauge is the number of streams that hold an assignment.        *)
SessionsTally ==
    /\ \A s \in Streams : counted[s] = IF spc[s] \in {"away", "open", "registered", "assigning"}
                                       THEN 0 ELSE 1
    /\ active = Cardinality({s \in Streams : spc[s] \in Active})

(* When the listener starts to drain, every harness that was registered    *)
(* when the signal came and still is has been sent a cancel, or its send   *)
(* failed and serve logged that (unsent).  One that registers after the    *)
(* signal is never told (missed): it holds the drain up to its grace.      *)
RunsToldToStop ==
    phase \in {"draining", "stopping", "launches", "memory"} =>
        \A s \in Streams : spc[s] \in Registered => s \in told \cup missed \cup unsent

StoreClosed == phase = "unwinding" /\ ending # "none" /\ ~\E i \in DOMAIN defers : defers[i] = "store"

(* The store is closed last: on a signal the reaper has stopped, and with  *)
(* every request over nobody is left to use it.  Only the listener's own   *)
(* failure, or requests that outlive the grace, leave goroutines behind.   *)
StoreClosedLast ==
    StoreClosed /\ ending = "signal" =>
        /\ reaper = "stopped"
        /\ ~expired => Drained /\ launches = {} /\ InFlight = {}

(* A signal ends the process unless one send never returns: the only wait  *)
(* of the shutdown that nothing bounds is the one for a session's mutex,   *)
(* or for the send itself, on a harness that stays and does not read.      *)
(* Streams that never end, a silent harness or a slow API call do not      *)
(* keep the process alive.                                                 *)
SignalEndsProcess ==
    \/ \E s \in Streams : <>[](mutex[s] # None)
    \/ (ending = "signal") ~> (phase = "exited")

=============================================================================
