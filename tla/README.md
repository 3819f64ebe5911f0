# hairpin: TLA+ models and proofs

hairpin is a control plane for coding agents. A client submits a *job*; hairpin
launches a harness for it (a Kubernetes Job running stirrup), the harness dials
back over a bidirectional stream, is assigned the task, streams its events and
ends with `done`. Operators watch the timeline, answer permission requests and
cancel. One Go process serves everything; the record, timeline and permission
requests of a job live in Redis or, without Redis, in memory.

This directory models the parts of that process whose correctness depends on
what happens in which order, checks them with TLC on small instances, and proves
nearly all of the safety properties for every instance with TLAPS.

```
tlc -workers 2 -config MCJobLifecycle_redis.cfg MCJobLifecycle    # one run
tlapm WatchProofs.tla                                             # the proofs about one module
```

`PROJECT.json` lists the runs, the source lines of each definition (`map`), the
hazards the properties are aimed at, the findings and the theorems. In the
modules, **a definition directly above another one with the same parameters is
a faulty variant of it**: no specification uses it. `mutants` names the
property that must fail when the variant takes the place of the definition,
so a property that could not notice a plausible bug is noticed.

## 1. Inventory

Concurrency in hairpin is goroutines over shared state: one goroutine per RPC or
page request, one per background launch, one per harness stream (the *pump*),
one per memory call, one per watch, the reaper's loop, and `serve` itself, which
starts and stops them. They share the store, the registry of live sessions, the
profile templates and the telemetry counters. There is no lock over a handler:
every store call and every registry call is a point where others interleave.

| Component (source) | State | Operations | Interacts with | What makes it correct |
|---|---|---|---|---|
| job record (`internal/job`) | status, stop reason, FinishedAt, CancelRequested | the closures given to `UpdateJob` | everyone | a terminal record is final, FinishedAt is set with it, statuses move as the contract says |
| service: submit, launch, cancel (`internal/service/submit.go`, `service.go`) | none of its own; flags captured by closures | Submit, launch, transition, Cancel, cancelUnassigned, appendStatusEvent | store, launcher, registry | every job settles; the event that announces a status is true; a cancel reaches a running harness |
| service: watch (`watch.go`) | cursor of a watch | Watch, replay | both stores' ReadEvents and WatchEvents | in order, no repeats, no holes, ends when the job has |
| service: permission answers (`service.go`) | a copy of the request read at the start | AnswerPermission | store, registry | the record says what the harness acted on |
| service: config resolution and validation (`submit.go`, `executor.go`, `tools.go`, `profiles.go`, `traceemitter.go`) | templates parsed at start, shared | resolveConfig, defaults, validation | Submit | a job gets its own request's config; defaults complete what a caller may leave out; a refused submission leaves nothing behind |
| control plane: sessions (`controlplane.go`) | one session per stream: mutex, `closed` | runTask: ready, check, register, assign, mark running, pump, unregister | store, registry | one harness owns a job; a settled job is not assigned; one writer at a time on a stream |
| control plane: pump (`pump.go`) | text buffer, counters, seen request ids, in-flight slots | handle, finish, closeUnfinished, putPermission, memory calls, tokens | store, memory backend, stream | the timeline keeps the stream's order; one answer per request; the terminal write lands |
| registry (`internal/registry`) | map job -> session | Register, Unregister, Send, Connected, JobIDs | pump, service, shutdown | it names the stream that owns the job |
| reaper (`internal/reaper`) | none | sweep: paged listing, awaiting_harness pass, retention pass | store | settles launches nobody answered; deletes exactly the settled jobs past retention |
| Redis store (`internal/store/redisstore`) | hashes, streams, index | CreateJob, UpdateJob (WATCH/EXEC, 30 attempts), ListJobs, DeleteJob, AppendEvent, ReadEvents, WatchEvents, permissions | Redis | an update is atomic whatever interleaves; index and records agree; a listing skips nothing |
| in-memory store (`internal/store/memstore.go`) | maps and an order under one mutex, watcher buffers | the same | | the same; hand-over from history to live delivery |
| API and SSE (`internal/api`, `internal/web/sse.go`) | none | relay of the service | clients | what a client is told holds of the store; an error is told from an end |
| web pages (`internal/web`) | none | index, submit, detail, cancel, answer; cross-origin check; error pages | clients, service | the same |
| launcher (`internal/launcher`) | none | Launch | Kubernetes | created or an error |
| server start and shutdown (`cmd/hairpin/serve.go`) | deferred calls | build the parts, serve, cancel live runs, drain, wait, close | all of them | nobody uses the store after the close; a signal ends the process, as far as sends return |
| configuration (`internal/config`) | parsed once | flags, defaults, Validate | serve | what a later part checks again was refused at the start |
| memory tools (`internal/memory`) | none | Fulfil | backend | answered once, saved once |
| token issuer (`internal/tokenissuer`), keygen (`cmd/hairpin/keygen.go`) | key and JWKS files; the key loaded at start | keygen, New, Mint, JWKSHandler | serve, pump, verifiers | key and document belong together; a token verifies |
| telemetry (`internal/telemetry`) | exporters, counters, a gauge | Setup, JobSubmitted, HarnessSession, SessionOpened/Closed, ... | serve, service, control plane | each outcome counted once |

**What is hard here.** Optimistic transactions whose closure runs several times
and captures variables; a check (`Connected`, `Terminal`, `pending`, EXISTS) whose
answer is old when it is acted on; the record update and the timeline append
being two calls; contexts that end in the middle of a handler, with some
handlers detached from them on purpose; a store call that failed and may have
landed; a server that dies between two steps; watches that switch from history
to live delivery; clients that resume; cursors over a set that changes between
pages; goroutines that outlive their stream, or the server's grace. `hazards`
lists them at their lines.

## 2. Modules

```
Job ──────── JobStatus                          the record, and its contract
  ├───────── JobLifecycle ── MCJobLifecycle     one job: handlers, store, registry
  └─ RunConfig ── Requests ── MCRequests        requests, and what Submit makes of them
ServerConfig ──── Server ──── MCServer          the process: start, sends, shutdown
JobStore ── MCJobStore                          all jobs of a store: listing, retention
Watch ── MCWatch     EventPump ── MCEventPump     Permissions ── MCPermissions
TokenIssuer ── MCTokenIssuer
```

Each of JobLifecycle, Requests, Server, JobStore, Watch, EventPump, Permissions and
TokenIssuer also has its proofs, in the module of its name with `Proofs` at the end.

The modules cut the system along what its parts share: `JobLifecycle` is one job
with everyone who writes its record; `JobStore` many jobs with those who list and
delete them; `Watch`, `EventPump` and `Permissions` what hangs off one job;
`Requests` what clients see of it; `Server` the goroutines around it. Where one
module uses another's subject it takes the outcomes the other explores step by
step (Cancel and AnswerPermission in `Requests`, a pump in `Server`).

**`Job`**: the record as `[status, stopReason, finished, cancelRequested]`, and one
operator per closure that the code passes to `UpdateJob` (`Transition`,
`MarkRunning`, `FailJob`, `FinaliseCancelled`, `Finish`, `CloseUnfinished`,
`RequestCancel`, `CancelUnassigned`, `FailStuckHarness`). `Apply(site, reason,
j)` selects the closure by the location it is called from and `Aborts(site, j)`
says when it returns `errNoUpdate`. Timestamps other than "FinishedAt is set",
prompts, configs, texts and tokens are left out: nothing that is checked branches
on them. The token a harness must present appears as the choice between `Ready`
and `Dismiss`.

**`JobStatus`** is the abstract specification: what a reader of the record may see
change, with no handlers, stores or failures.

**`JobLifecycle`** is the composition: the launcher goroutine, any number of harness
streams and cancellations, the reaper, the registry, the store and the timeline of
one job. A handler is at a location `pc[p]`; the location names follow the calls
in the code:

| handler | locations in order |
|---|---|
| Submit and launch | submit, say_queued, to_launching, say_launching, launch, to_awaiting (to_failed), say_awaiting (say_failed), exit |
| runTask | away, (finalise_cancelled, say_cancelled) register, assign, (fail_job) mark_running, say_running, pump, touch, finish (close_unfinished), say_settled, closing, exit |
| Cancel | away, connected, request_cancel, send_cancel, cancel_unassigned, say_cancelled, exit (error) |
| Reaper | sleep, fail_stuck, say_stuck |

A location in `UpdateSites` is a call of `UpdateJob`. Over Redis it is two steps:
`TxRead` (WATCH, HGETALL, the closure) and `TxExec` (MULTI, EXEC), which lands if
nobody has written the key since (`fresh`), or is tried again, up to
`MaxUpdateRetries`. `UpdateFails` is a call on a context that is done, or a
connection that fails before EXEC or after EXEC landed. `MemUpdate` is the same
call on the in-memory store, one critical section. `flag` is the variable a
closure captures (`moved`, `cancelled`, `status`); as in the code, it is set when
the closure runs, not when EXEC lands. `AppendStatus` is the best-effort append
that follows. `ctxDone` holds the handlers whose context has ended (`HangUp`,
`CallerGone`, `LauncherCtxDone`); the pump runs detached from it (`CtxDead`).
`Crash` loses every goroutine and the registry and keeps the Redis data. Of the
timeline, JobLifecycle keeps the first terminal status_change, which ends every
live watch, and the set of terminal ones behind it.

**`JobStore`**: the jobs of a store, either one (`backend`). A Redis record is what
`jobSetFields` and `jobClearFields` write and `jobFromFields` reads back; an update
is `TxRead` and `TxExec` again, here against `DeleteJob`; `PutCheck` and `PutWrite`
are the EXISTS and the write of `PutPermission` and `AppendEvent`. A listing, a
client's or the reaper's, is `PageIds` (ZRANGE by lex, one id more than the page),
`PageRead` (one GetJob after the other) and `PageDone`; in memory it is `MemPage`,
whose token is a position. The reaper's listing keeps, as `listAllJobs` and
`reapRetention` do, the finish time each settled job had when it was read (`seen`);
`StartReaping` reads the clock once (`now`), and `Reap` compares only these two, while
`Tick`, updates and creations go on.

**`Watch`**: one job's timeline and the clients that watch it, over either store: the
append (with trimming, and for Redis EXISTS and XADD as two commands), the reads,
`Service.Watch`'s choice between replay and live watch, the in-memory watcher's
buffer, the Redis poll, deletion by the reaper, disconnects and resumes. A writer is
the append of one event; the Settler's is the terminal status_change behind the
settling update. `Mislead` makes another writer one that lost its EXEC with the
captured flag set (finding 1, Redis only): its event says terminal whatever the record
says. IDs are compared as `streamIDLess` does; the in-memory store's carry a timestamp
read before the lock. `lapses` records the three losses that the code accepts (an
event appended behind a younger one, a full buffer, a trimmed terminal event), so that
the properties can be stated for everything else.

**`EventPump`**: one stream's pump: text coalescing, events recorded as they come,
token requests, memory calls with their slots, limits and seen ids, the goroutine
of each call, the end of the stream.

**`Permissions`**: the pump recording permission requests, and operators answering
them in the code's four calls: read, record, send, revert.

**`RunConfig`**: Submit's rules as operators over a config of the fields they look at:
where it comes from (`resolveConfig`), the repo scope, the server's defaults, the
preflight checks, in the order in which Submit applies them (`Filled`,
`Preflight`). **`Requests`**: handlers of the connect API and of the pages, each with
one request from its receipt (`Receive`: cross-origin check, routing, the handler's
own checks) over its store calls (`Resolve`, `Submitted`, `CreateFails`, `GetJob`,
`ShowDetail`, `ShowIndex`, `Cancel`, `AnswerPermission`) to what the client sees
(`reply`, with errorRewriter's replacement of 404 and 405). Templates, store and
counters are shared; `Advance` and `DeleteJob` are the rest of the system.

**`ServerConfig`**: `parseServeFlags`, the defaults it fills in, and `Validate`.
**`Server`**: one process from its flags to its exit. `phase` is where `serve` is:
start, telemetry, store, profiles, launcher, issuer, wire, serving, then after a
signal cancelling, draining, stopping, launches, memory, unwinding, exited; a part
that cannot be built goes to unwinding, which pops `defers`. An address that the
listener refuses is accepted by `Validate` when another one is advertised:
`listening` is then false, and nobody is served. Streams follow `runTask` as far as
sends, registry and counters see it (`spc`). Everyone who writes to a stream is there:
runTask's assignment, the pump's own replies (`Reply`: tokens, refused tool calls), the
goroutine of a memory call (`StartMemoryCall`, `BackendAnswers`, `EndMemoryCall`), the API
handlers (`Call`, `Finish`) and the shutdown (`CancelRuns`). `Route`, `EnterSend` and
`LeaveSend` are `registry.Send` and `session.Send` with its mutex; `BareCancel` is
`sendCancel`, which does not take it. The deferred calls of runTask are three steps
(`EndSession`, `CloseSession`, `Unregister`), so the registry may name a closed session.
Of the open streams, `told`, `unsent` and `missed` are those the shutdown's cancel
reached, those on which it failed, which is only logged, and those that registered
after the shutdown had read the registry.

**`TokenIssuer`**: `hairpin keygen`, write by write, the key a server loads, the tokens it
mints and the document it serves, with key files that are rotated or half
written.

## 3. Properties

JobLifecycle
- `RecordContract`: JobLifecycle implements JobStatus. Every commit is one atomic
  application of a closure to the current record, though the code's attempts
  interleave, fail and are repeated.
- `TerminalIsFinal`, `FinishedIffTerminal`: a job is settled once; the reaper ages
  jobs by FinishedAt.
- `RegistryOwnsStream`: the session in the registry is that of the one stream between
  Register and Unregister, with two harnesses that claim the job and the exit of either.
- `CancelExplainsClosure`: a stream that ends without `done` is recorded, and
  announced, as cancelled exactly if a cancel request was on record at the write.
- `RunningIsOwned`: a running record has a pump that will settle it.
- `OneRunPerJob`, `TerminalEventIsTrue`, `SettleIsAnnounced`: one harness runs the
  job; the event that ends the watches is true, and comes.
- `EventuallySettles`: every submitted job reaches a terminal status.
- `CancelReachesHarness`: after a successful CancelJob, a harness that is executing
  the job has been sent cancel.

JobStore
- `IndexMatchesRecords`: no update racing a deletion brings back a record that no
  listing shows.
- `ListingComplete`, `PagesDescend`: whatever is created and deleted between the pages,
  a listing holds every job that was there throughout, and none twice; for the
  in-memory store, where positions shift, exactly when that may fail.
- `DeletedIsGone`: nothing of a deleted job remains but what a writer had checked
  before the deletion.
- `OnlyExpiredDeleted`, `ExpiredIsDeleted`: the reaper decides on finish times and a
  clock it read earlier; what it deletes is, by the record and the clock at the moment
  of the deletion, a settled job past its retention (`PastRetention`), and all of them
  are deleted in the end.

Watch: `InOrder` (each event at most once, in order, over all connections of a
client), `NoGap` (no hole before the last event received), `NoEarlyEof` (a stream that
ended says the job has, unless a call failed or the client has received the terminal
event of a misled writer: finding 1), `WatchEnds`.

EventPump: `TimelineFollowsStream` (coalescing and concurrent answers lose, repeat and
reorder nothing; an answer stands behind its request), `OneAnswer`, `SlotPerCall`,
`OncePerId`, `EveryCallAnswered`.

Permissions: `LoneDecisionOnRecord`, `RecordedWasDelivered`, and `DecisionOnRecord`,
which fails.

Requests
- `OwnConfig`: however many submissions share the templates, a stored config is the
  caller's over its profile and the server's defaults.
- `IsolationSuffices`: a caller need name no more than the isolation it wants.
- `SubmissionsCounted`: each submission once, under what became of it.
- `RepliesAreTrue`: one page per reply; what it says of the job holds, though the
  handler reads the store in several calls and calls may fail after they landed.

Server
- `ValidatedBuilds`: the settings `tokenissuer.New` checks again never fail there, since
  Validate has refused such flags. Not every flag is covered (section 5).
- `SendsSerialized`: two goroutines are inside Send of one stream only if one is
  runTask's bare cancel; pump, memory calls, API handlers and shutdown are kept apart,
  also when they outlive the stream.
- `SessionsTally`: one disposition per stream, and the gauge counts the assigned ones.
- `RunsToldToStop`: when the drain begins, every harness registered at the signal has
  been sent a cancel, or its send failed and that was logged, or it is gone.
- `StoreClosedLast`: the reaper is over when the store is closed, and without an
  expired grace so is everyone else.
- `SignalEndsProcess`: a signal ends the process unless some send never returns;
  streams that never end and handlers that hang do not keep it.

TokenIssuer: `KeygenPairs` (a successful keygen leaves a matching pair, whatever other
keygens do), `MintedVerifies`.

## 4. Runs

| run | instance | shows |
|---|---|---|
| `redis` | 1 stream, 1 cancellation, launcher, reaper; 2 attempts; 1 failed call; 1 crash; launch timeout. 2.2 million states | safety of the record under every fault |
| `mem` | in-memory, 2 streams, 1 cancellation; 63 thousand states | two harnesses racing for a job and its place in the registry; truth and arrival of the terminal event; every job settles |
| `sticky` | Redis, 1 stream, 3 attempts | *violated*: finding 1 |
| `cancel` | Redis, 1 stream, 1 cancellation | *violated*: finding 2 |
| `watch` | either store, 3 writers, 1 client, cap 2, buffer 2, pages of 1, 2 resumes, 1 fault, deletion, misled writers; 457 thousand states | order and completeness, hand-over, resumes, ends |
| `pump` | 3 events of any kind, 3 ids, 1 slot, 2 calls, 1 token, 1 failed append; 116 thousand states | order, answers, slots |
| `answers` | 2 operators, 3 requests, room for 2, 1 fault; 25 thousand states | answers that do not overlap |
| `answer_race` | 2 operators, 2 requests | *violated*: finding 3 |
| `jobstore` | either store, 2 jobs, 1 client, 1 updater, 1 writer, pages of 1, clock to 3, retention of 1, 1 fault; 1.5 million states | listing, deletion, retention, also in the end |
| `requests` | 2 handlers, every kind of request and some 45 submissions on 3 servers, 1 fault; 1.1 million states | submissions side by side, replies against the store |
| `server` | 2 streams, 2 jobs, 1 memory call, 1 API caller, two command lines and each with one flag changed in 21 ways; 1.2 million states | start-up, sends, shutdown |
| `tokens` | 3 keygens over the same paths, 4 kinds of foreign key; 1115 states | pairs of files, tokens across rotations |

**Why the bounds are enough.** In `redis` four handlers contend for one record, so a
transaction can lose to each of three others; with two attempts both the retry and the
exhausted retries happen. One failed call and one crash, at any place, are what a
handler can meet between two of its steps. A second stream in `mem` is what the
registry and the pre-assignment check are for; a third one meets nothing new. In
`watch` the writers outnumber the cap and the page, so trimming happens between two
pages and a buffer can overflow; clients do not interact, so one is enough. In `pump`
three events are a request, a repetition of its id and a third one, or a text between
two others, and both limits are reached. `answers` has more requests than room. In
`jobstore` two jobs are one on each side of a page boundary, either of which may be
created late, settle, age and be deleted between any two calls of a listing, and both
can go, so that an in-memory token ends past the end of the list; three ticks of the
clock put a job before, at and past a retention of one, at the reading of its record,
at the reading of the clock and at its deletion. In `requests` every rule of RunConfig
is met from both sides by a submission that differs from a sound one in one respect,
and two handlers are the fewest that can share a template or act on the same job. In
`server` two streams compete for a job or hold one each; an API caller, a memory call
and `serve` race with the stream's own goroutine for a session's mutex, four writers
in all. In `tokens` the third keygen can run after a rotation while the first two have
collided.

**Variations** that are not runs of their own, by changing constants in a cfg:
`EventuallySettles` under `FairSpec` also holds over Redis, with 1 stream, 1
cancellation, no faults and 4 attempts (one more than there are rivals that can beat
an update in a row; 30 in the code plays the same part; 480 thousand states), and
fails there with `LaunchMayTimeOut = TRUE` (section 5).

**Symmetry** is used in Permissions (operators, requests) and Requests (handlers), in
runs with invariants only.

**Deadlock** is checked for JobLifecycle and JobStore, where the reaper always has a
next sweep. Timeline, pump and permissions of a finished job, answered requests, a
process that has exited and key files at rest have nothing left to do, so those
runs say CHECK_DEADLOCK FALSE.

**Fairness.** JobLifecycle: store calls end (go-redis has timeouts), handlers run
until they return, Launch returns (its context has a deadline), the reaper's timer
fires, and a harness does not outlive its pod's activeDeadlineSeconds (`HangUp`).
Nobody has to submit, dial in, send `done`, or cancel. JobStore: the reaper's loop
runs; nothing is asked of clients and writers. Watch: writers finish their append, the
goroutines of a watch run, the client reads. EventPump: the goroutine of a call runs,
the backend's part ends within CallTimeout, and the harness reads its answer or has
gone, so that the send returns. Server: `serve` goes on, the reaper notices that its
context is done, launches have a timeout, and so has the backend's part of a memory
call. Nothing makes a send return: `session.Send` holds the mutex over a connect Send
that has no deadline and can block on flow control while a harness does not read. All
of this is weak fairness but for those who wait for a session's mutex outside a send,
the shutdown (`CancelRuns`) and a memory call's answer: others may take the mutex
again and again, and Go's mutex hands over to a waiter that has starved, which is
strong fairness. In Server no harness has to obey a cancel, end its stream or read. No
liveness is claimed of a job across crashes or failing calls, because the code does
not promise it: nothing settles a job whose server died while it was queued, launching
or running.

## 5. Findings

1. **A captured flag survives a lost EXEC** (`sticky`). `failStuckHarness` sets
   `moved` in its closure. If EXEC loses to a harness that marks the job running,
   the retry changes nothing but `moved` is still true: a `failed` status_change is
   appended for a running job, which ends every watch of it (`Mislead` in Watch, the
   exception of `NoEarlyEof`). The comment above the
   closure says that `moved` reports false in this case. `transition` and
   `cancelUnassigned` capture a flag in the same way.
2. **A cancellation can miss a harness** (`cancel`). `Cancel` found no session; a
   harness registers, is assigned the task and marks the job running; `Cancel` then
   settles the record. The harness runs on and is not sent cancel.
3. **Overlapping permission answers** (`answer_race`). Two operators both read
   `pending`; the harness acts on one answer and the record keeps the other, or is
   reverted to pending.

**Known limits.** Smaller disagreements between code and comments, and losses that
the code accepts. The properties state each one as an exception, or a constant
switches it on.
- A launch that times out stays in launching: the transition to `failed` uses the
  context whose deadline made the launch fail. With `LaunchMayTimeOut = TRUE` (over
  Redis) `EventuallySettles` fails; docs/api.md:24 promises a transition to `failed`.
- `sendCancel` writes to a registered stream without the session's mutex
  (controlplane.go:328 and :365), where the comment at :235 says that every writer
  goes through it. `SendsSerialized` names this writer as the only one.
- A harness that registers after the shutdown has read the registry is not told to
  stop, and holds the drain for its grace (`missed` in `RunsToldToStop`). After an
  expired grace, or when the listener itself fails, goroutines may use a closed store.
- The shutdown sends its cancels before the grace begins, and waits for the answers of
  memory calls after it, both without a deadline: a send that blocks, on a harness
  that stays and does not read, keeps the process (the exception of `SignalEndsProcess`).
- A cancel of the shutdown that fails is logged and not repeated (serve.go:315): that
  harness holds the drain for its grace like one that was missed (`unsent`).
- config.go:191 says that Validate rejects configurations that cannot serve. A listen
  address no listener takes passes it when another address is advertised, and fails in
  ListenAndServe (`listening` in Server, where nobody is then served); a default profile
  that is not in the directory passes it and fails in NewProfiles (`LoadProfiles`).
- In-memory `ListJobs`: a deletion between two pages shifts positions. A job may come
  twice, and a token past the end of the list makes the handler panic
  (`PagesDescend`). No job is skipped.
- Redis writes of permissions and events come after EXISTS: a deletion in between
  leaves a key without a job (`crossed` in `DeletedIsGone`).
- A server whose default sandbox runtime is not gvisor refuses every `k8s-sandbox`
  that names no runtime, where executor.go:24 says that a caller names only the
  isolation it wants (`IsolationSuffices`).
- A submission refused for its repo scope is not counted (`SubmissionsCounted`).
- The form answers 400 also when the store failed, possibly after the job was written;
  and a missing job's page says "page not found", because errorRewriter replaces
  every 404 (`RepliesAreTrue`).
- The form tells blank fields from empty ones only in its own check: a prompt of
  blanks beside a run config replaces the config's prompt, and a run config of
  blanks is parsed, and refused.
- issuer.go:19 says that the repo claim is omitted for an empty scope; the code always
  sets it. Verifiers treat both as "no repos".
- A sample ratio that is not a number passes Validate.
- Watch: events with timestamps out of order (in memory), a full buffer, a trimmed
  terminal event, a failed poll and a failed terminal append are `lapses` and `faults`
  in its properties. A replay chosen between the settling update and the append of
  the terminal event ends without that event; GetJob has the status.
- JobLifecycle, Redis: `OneRunPerJob` fails. A stream whose context ended during
  `mark_running` gets an error, is not aborted, and still enters the pump, while
  another stream can take the job later.
- A slow handler's non-terminal status_change can be appended behind the terminal
  one (not kept in the model: it ends no watch).

## 6. Proofs

Eight modules hold the proofs, some 10,000 obligations. Each theorem is about the
module's `Spec` with its constants free: any number of processes, jobs, requests
and faults, any limits. What is assumed of the constants is named, in the module
that declares them, and evaluated by TLC on every run: processes have different
names, bounds are naturals (a page, a cap and a number of attempts are at least 1),
an in-memory store has no failing calls and does not survive a crash
(`BoundsAssumption`), requests and profiles have the fields the code reads, and the
runtime a server defaults to is one that `Validate` accepts (`RequestsAssumption`).

| module | theorem | states |
|---|---|---|
| JobLifecycleProofs | `TypeCorrect` | `Spec => []TypeOK` |
| | `FinishedTheorem` | `Spec => []FinishedIffTerminal` |
| | `TerminalFinality` | `Spec => TerminalIsFinal` |
| | `Refinement` | `Spec => RecordContract`, the specification of JobStatus |
| | `RegistryTheorem` | `Spec => []RegistryOwnsStream` |
| | `ClosureTheorem` | `Spec => CancelExplainsClosure` |
| | `RunningOwner` | `Store = "mem"`: `Spec => []RunningIsOwned` |
| | `OneRun` | `Store = "mem"`: `Spec => []OneRunPerJob` |
| | `TerminalEvent` | `Store = "mem"`: `Spec => []TerminalEventIsTrue` |
| | `CancelNeverForgotten` | `Spec => []CancelIsRecorded /\ CancelIsKept` |
| | `CancelledTurnsAway` | `Spec => LateHarnessTurnedAway` |
| | `OwnerLoss` | `Spec => OwnerLostByFailure` |
| | `AnnouncedTruth` | `Spec => []StreamsAnnounceTruth` |
| WatchProofs | `TypeCorrect` | `Spec => []TypeOK` |
| | `StreamsAreOrdered` | `Spec => []InOrder` |
| | `StreamsHaveNoGap` | `Spec => []NoGap` |
| | `NoStreamEndsEarly` | `Spec => []NoEarlyEof` |
| EventPumpProofs | `TypeCorrect` | `Spec => [](TypeOK /\ Bookkeeping)` |
| | `SlotsMatchCalls` | `Spec => []SlotPerCall` |
| | `AnsweredOnce` | `Spec => []OneAnswer` |
| | `BackendCalledOnce` | `Spec => []OncePerId` |
| | `StreamOrderKept` | `Spec => []TimelineFollowsStream` |
| PermissionsProofs | `TypeCorrect` | `Spec => []TypeOK` |
| | `LoneDecisionsStand` | `Spec => []LoneDecisionOnRecord` |
| | `RecordedIsDelivered` | `Spec => []RecordedWasDelivered` |
| JobStoreProofs | `IndexIsTrue` | `Spec => []IndexMatchesRecords` |
| | `DeletedStaysGone` | `Spec => []DeletedIsGone` |
| | `DeletesOnlyExpired` | `Spec => OnlyExpiredDeleted` |
| | `ListingsAreComplete` | `Spec => []ListingComplete` |
| | `PagesAreOrdered` | `Spec => []PagesDescend` |
| RequestsProofs | `ConfigsAreOwn` | `Spec => []OwnConfig` |
| | `SubmissionsAreCounted` | `Spec => []SubmissionsCounted` |
| | `ClientsAreToldTheTruth` | `Spec => []RepliesAreTrue` |
| | `IsolationIsEnough` | `Spec => []IsolationSuffices` |
| ServerProofs | `ValidatedFlagsBuild` | `Spec => []ValidatedBuilds` |
| | `SendsAreSerialized` | `Spec => []SendsSerialized` |
| | `SessionsAreTallied` | `Spec => []SessionsTally` |
| | `RunsAreToldToStop` | `Spec => []RunsToldToStop` |
| | `StoreIsClosedLast` | `Spec => []StoreClosedLast` |
| TokenIssuerProofs | `KeysArePaired` | `Spec => []KeygenPairs` |
| | `TokensVerify` | `Spec => []MintedVerifies` |
| | `FilesAreKept` | `Spec => NeverOverwritten` |

None of these statements is inductive as it stands. What follows is what has to be
added, module by module; TLC has checked the larger of these invariants (those of
Watch, Requests, JobStore and the in-memory JobLifecycle) on the instances of the runs.

**JobLifecycle.** A commit writes a record that the closure computed some steps
earlier. `IInv` ties the two moments together:
- `TxInv`: a transaction is only open inside `UpdateJob` over Redis, and one whose key
  has not been written since its WATCH (`p \in fresh`) holds exactly what its
  closure makes of the *current* record, and its closure does not abort on it.
  So `TxExec` is an atomic application of the closure. The step that could
  disturb it is another handler's commit, which empties `fresh`.
- `JobInv`: before the job exists no handler is inside an update, and the launcher
  has not passed Submit.
- `FlagInv`: a pump that is going to announce a terminal status knows which, and in an
  open `close_unfinished` transaction that is still fresh it is the status of the
  record about to be written.

`ApplyEffect` reduces the nine closures to a small set of effects on a record;
`EffectType`, `EffectFinal` and `EffectFinished` say what an effect preserves. One
lemma per group of actions shows that it preserves `IInv` and changes the record by
creating it or by an effect (`RecordStep`); finality, the refinement and FinishedAt
follow from `RecordStep`. The registry theorem has an induction of its own over the
same case split, and `ClosureTheorem` uses `FlagInv`.

Three theorems have the hypothesis `Store = "mem"`, and need it: over Redis
a call may report an error after it took effect, a retried closure may leave its
captured variable set (run `sticky`), a handler may find its context done, and a
crash forgets the streams. They rest on two more invariants, on top of `IInv` and
`RegistryOwnsStream`. `RunInv`: a running job has a stream in its pump, the streams
that ever began a run are one, and since then the status has been running or terminal.
A second `mark_running` would have to come from the registered stream, which is then
not pumping, so the record is not running, so no run has begun. `EndInv`: a captured
variable is empty but where a handler settles or announces (`Heard`); at most one
handler has a terminal status to announce, it is the job's, and none has been
announced before. `MemUpdateMove` goes through the twelve call sites of `UpdateJob` and
says what each does to its caller and to the status; the rest of the induction uses
only that summary, `MemAppendKeeps`, and that all other steps are `QuietMove`s.

The last four are for either store, with failing calls and crashes, and say what is
left of these promises then. Their statements are in the proof module; no run lists
them; TLC has checked them on the instance of the run `redis`.
- `CancelNeverForgotten`: a CancelJob call that returned without an error has left the
  request on record or the job over, and no later step, restarts included, takes that
  back. `CancelInv` adds the places past the deciding write; `UpdateOutcome` says how
  a call of `UpdateJob` can end, and that only one that committed reports success.
- `CancelledTurnsAway`: so no harness whose `ready` comes after that is assigned the job.
  (One that passed the check before may still be run: run `cancel`.)
- `OwnerLoss`: a running job is left without the pump that answers for it only by a
  crash, or by an error that `UpdateJob` returns to the very call that would have settled
  it (`SettlementLost`): after `finish` and `closeUnfinished` the handler goes on to
  Unregister. No cancellation, second harness, sweep, timeout or other failing call
  does it. The proof needs `RegistryOwnsStream`: the stream that writes running is the
  registered one.
- `AnnouncedTruth`: what a stream's handler announces in `finaliseCancelled`, `failJob` and
  `closeUnfinished` is the status on record. What is left of `TerminalEventIsTrue` over
  Redis is thus narrowed down: a false terminal event comes from `finish`, which
  announces also when its `UpdateJob` failed, or from the launch, CancelJob or the
  reaper with a captured variable left over from a lost attempt (run `sticky`).
  `TruthInv` adds that what is announced is terminal, hence stays true.

**Watch.** `WatchInv` is about every event that is *held*: on the timeline, on its way
to a client or with one. `OrderInv`: a sequence number stands for one event, later
numbers have later times unless one was backdated (`Agree`), and no held event is
later than the whole timeline (`Topped`), so that an append that is not backdated
against the timeline is not backdated against what has been trimmed from it. A
client's cursor is the last event it received, and everything pending for it comes
after (`Placed`). `GapInv`: up to the cursor the timeline was received, from there up
to a pending event it is pending too, and a registered in-memory watcher has all of
the rest pending (`Gapless`); this is what the hand-over from history to live
delivery, which registers under the lock before it reads, has to establish.
`EofInv`: whatever ends a stream comes from a settled record or, over
Redis, from the terminal event of a misled writer.

**EventPump.** `Bookkeeping`: the goroutines are those of events received, one slot each.
`Admitted`: each of them, and everything the backend was told, is of an id that was
seen, no two of the same one; with `Unanswered` (nothing is answered before it is
received) this gives `OneAnswer` and `OncePerId`. `RequestsFiled`: a goroutine that
has yet to answer finds its request on the timeline, or lost; without it the answer
might be appended ahead of it. The order itself needs lemmas about appending to,
and flushing the text buffer into, a timeline that has entries of several goroutines.

**Permissions.** `LoneAnswer` is the state of a request at each stage of its one answer;
`DeliveredOrInHand` says who, of several operators, is about to deliver or take back
what is on record.

**JobStore.** `TxOK`: while the key an update watches was not written, its job exists,
so EXEC never brings one back. `SnapshotInv`: a finish time in the snapshot is that of
the record for as long as the job exists, since a settled record is not written again,
and the clock the sweep read is not ahead of the current one; so what is expired by
the snapshot is expired by the record at its deletion. `PutOK`: a write under way to a
job that is gone was crossed by the deletion. `Cursor` (Redis): what a listing has
read lies above what it is reading, the cursor below both, and each job of its start
is on a page, on this one or below the cursor. `Positions` (in memory) is the same
with positions that deletions shift; `Steady` says when they cannot have.

**Requests.** `StoreInv`: the templates are those of the file, and each record is what
its own request makes of them. `Stage(h)` is what is known of a handler at each
place: what it holds is its own (`OwnFilled`), what it has shown or is about to show
of a job is still true (`Shows`), the counter has its submission or will
(`Tallied`), and what it told its client holds (`Told`). `Onward` says how the store
may move under a handler that stands still: statuses up to a terminal one, a flag
that is set, deletions, jobs that were never there; `OthersStay` shows that nothing
else is needed, so that each operation is proved by what it does to its own
handler. `IsolationIsEnough` then is a calculation over RunConfig: if the rest of a
config passes the preflight, so does the whole with a sandbox that the defaults
complete. It found an assumption that the run's three servers happened to satisfy:
the default runtime has to be one the preflight knows, which `Validate` sees to at
start (config.go:217).

**Server.** `SendInv`: who is inside a send on a session, other than the bare cancel,
holds its mutex. `FreshInv`: a memory call that has
not begun is to send on no stream. `RegistryInv` and
`ToldInv`: while the shutdown works through its list, each registered stream was told,
failed to be, came too late to be, is being told, or is still listed; also one whose
session is closed and whose Unregister is to come. `DrainInv`: what the shutdown has
waited for at each phase. `ConfigInv`: from the flags to the wired server the
configuration is one whose issuer settings `Validate` accepted. `SessionsTally` counts, so it
also needs that only finitely many streams ever dialled in.

**TokenIssuer.** `OwnerInv`: the key file is created exclusively, so at most one keygen
is past that point, and the files hold what it has written so far. `NeverOverwritten`
is what the comment of `writeNew` promises (keygen.go:59): it depends on the same
invariant, since the write itself, after the exclusive creation, has no guard.

**Only model-checked**: the liveness properties `EventuallySettles`,
`SettleIsAnnounced`, `WatchEnds`, `EveryCallAnswered`, `ExpiredIsDeleted` and
`SignalEndsProcess`, since the provers have neither ENABLED nor fairness.
Watch, JobStore, EventPump and Permissions have a `TypeOK` for the proofs, which no
run checks.

## 7. Plan

The model covers the system, and every safety invariant and action property that a
run checks is proved, three of them under the hypothesis that the store is the
in-memory one; `OwnerLoss` and `AnnouncedTruth` say what becomes of two of these over
Redis. Left:

1. JobLifecycle over Redis: the same for `OneRunPerJob` (when a second harness can be
   run).
2. Server and TokenIssuer: types of all their variables, as theorems of their own.

## 8. Not modelled

- Generated protocol code (`src/gen`): accessors, descriptors and routing tables.
- Cryptography and token claims: a signature names its key.
- Templates, styles and wording of the pages; the wording of errors.
- Telemetry other than its set-up and the counters of sessions and submissions: spans,
  durations and the remaining counters are written and never read back.
- Building the Kubernetes object: `Launch` succeeds, fails or times out.
- The inputs of memory tools and what the backend stores: a call is admitted or
  refused, and answered.
- The encoding of events as stream entries. (Records as hashes are in JobStore.)
- FinalText, Error and heartbeats: nothing branches on them.
- Several hairpin replicas: the registry is in-process and its package comment rules
  them out.
