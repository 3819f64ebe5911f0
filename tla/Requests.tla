------------------------------ MODULE Requests ------------------------------
(***************************************************************************)
(* The two surfaces callers reach hairpin through, the connect API         *)
(* (internal/api) and the pages (internal/web), and the service's Submit   *)
(* behind both (internal/service/submit.go).  Handlers run concurrently    *)
(* over one store, one set of profiles and one set of counters; each takes *)
(* one request from its receipt to what the client sees.                   *)
(*                                                                         *)
(* The job a handler's Submit makes has the handler's name: NewID never    *)
(* repeats.  Cancel and AnswerPermission are single steps here, with the   *)
(* outcomes that JobLifecycle and Permissions explore step by step; the    *)
(* life of a job after its submission is Advance and DeleteJob.            *)
(*                                                                         *)
(* A definition directly above another one with the same parameters is a   *)
(* faulty variant of it: PROJECT.json names the property that tells the    *)
(* two apart.                                                              *)
(***************************************************************************)
EXTENDS RunConfig, Job, FiniteSets, Functions

CONSTANTS
    Handlers,
    Requests,       \* what a client may ask
    Servers,        \* [templates, def, sv]: profiles, default profile, settings
    MaxFaults       \* store calls that fail

\* The runtime that a server may default to is checked at its start (config.go:217).
ASSUME RequestsAssumption ==
    /\ \A r \in Requests : r.surface \in {"api", "web"} /\ IsSubmission(r.p)
    /\ \A s \in Servers : /\ \A name \in DOMAIN s.templates : IsConfig(s.templates[name])
                          /\ s.sv.executor.runtime = "" \/ validK8sRuntime(s.sv.executor.runtime)

VARIABLES
    server,         \* how this process was started
    templates,      \* Profiles.templates, shared by every Submit
    jobs,           \* the store: job id -> record
    gone,           \* jobs the store had and deleted
    launched,       \* jobs whose launch goroutine was started
    req,            \* the request a handler serves
    before,         \* the jobs there were when it arrived
    pc,             \* where the handler is
    staged,         \* what it holds between two store calls
    reply,          \* what the client received
    counted,        \* hairpin.job.submissions, by the handler that added to it
    faults

vars == <<server, templates, jobs, gone, launched, req, before, pc, staged, reply, counted, faults>>
handling == <<req, before>>
world == <<server, templates, jobs, gone, launched, counted>>

NoReply == [status |-> "none", body |-> << >>]
Nothing == [profile |-> "", cfg |-> << >>, status |-> "", msg |-> "", view |-> << >>]

-----------------------------------------------------------------------------
(* What goes on the wire *)

statusToProto(status) ==
    [queued |-> "QUEUED", launching |-> "LAUNCHING", awaiting_harness |-> "AWAITING_HARNESS",
     running |-> "RUNNING", succeeded |-> "SUCCEEDED", failed |-> "FAILED",
     cancelled |-> "CANCELLED"][status]

statusClass(status) == IF status \in {"queued", "launching", "awaiting_harness"} THEN "pending" ELSE status

\* jobToProto and newJobDetail: what a client is shown of a record.
jobToProto(id, j) == [id |-> id, status |-> statusToProto(j.status), prompt |-> j.cfg.prompt,
                      profile |-> j.profile]
newJobDetail(id, j) == [id |-> id, status |-> j.status, badge |-> statusClass(j.status),
                        prompt |-> j.cfg.prompt, profile |-> j.profile]

\* A page through errorRewriter, which swaps every 404 and 405 for its own
\* page and drops the body its caller goes on to write.
Written(status, page) ==
    [status |-> status, body |-> <<IF status \in {"404", "405"} THEN "generic" ELSE page>>]

connectErrorCaller(err) == IF err \in {"notfound", "notconnected"} THEN "NotFound" ELSE "InvalidArgument"
connectError(err) ==
    CASE err = "notfound"     -> "NotFound"
      [] err = "invalid"      -> "InvalidArgument"
      [] err = "notconnected" -> "FailedPrecondition"
      [] OTHER                -> "Internal"

Send(h, what) == /\ reply' = [reply EXCEPT ![h] = what]
                 /\ pc' = [pc EXCEPT ![h] = "done"]
                 /\ staged' = [staged EXCEPT ![h] = Nothing]

Answer(h, what) == Send(h, [status |-> "OK", body |-> <<what>>])
Page(h, status, page) == Send(h, Written(status, page))

\* What a handler makes of an error of the service: a code, or, on a page,
\* "not found" and everything else.
Fails(h, err) ==
    IF req[h].surface = "api" THEN Send(h, [status |-> connectError(err), body |-> <<"error">>])
    ELSE IF err = "notfound" THEN Page(h, "404", "job not found")
    ELSE Page(h, "500", "failed")

\* The form's page comes back with the error over it, once List has run.
RenderIndex(h, status, msg) ==
    /\ pc' = [pc EXCEPT ![h] = "index"]
    /\ staged' = [staged EXCEPT ![h] = [Nothing EXCEPT !.status = status, !.msg = msg]]
    /\ reply' = reply

StoreFails == faults < MaxFaults /\ faults' = faults + 1
StoreWorks == faults' = faults

-----------------------------------------------------------------------------
(* Arrival: protectUI, the mux and the checks a handler makes on its own *)

CrossOrigin(r) == r.method # "GET" /\ r.origin = "foreign"

routes == [index |-> "GET", submit |-> "POST", detail |-> "GET", cancel |-> "POST", answer |-> "POST"]

Malformed(r) == r.op \in {"detail", "cancel", "answer", "perms"} /\ r.id \notin Handlers

Blank(p) == p.prompt \in {"", "blank"} /\ (p.json = << >> \/ p.json[1].blank)

Accept(h, r) == pc' = [pc EXCEPT ![h] = r.op] /\ UNCHANGED <<staged, reply>>

Web(h, r) ==
    IF CrossOrigin(r) THEN Send(h, [status |-> "403", body |-> <<"cross-origin">>])
    ELSE IF r.op \notin DOMAIN routes THEN Page(h, "404", "default")
    ELSE IF routes[r.op] # r.method THEN Page(h, "405", "default")
    ELSE IF Malformed(r) THEN Page(h, "400", "invalid id")
    ELSE IF r.op = "answer" /\ ~r.form THEN Page(h, "400", "invalid form")
    ELSE IF r.op = "submit" /\ ~r.form THEN RenderIndex(h, "400", "invalid form")
    ELSE IF r.op = "submit" /\ Blank(r.p) THEN RenderIndex(h, "400", "prompt required")
    ELSE IF r.op = "index" THEN RenderIndex(h, "200", "")
    ELSE Accept(h, r)

\* The generated handler's dispatch, and checkID, which the API leaves to the service.
procedures == {"submit", "index", "detail", "cancel", "answer", "perms"}

Rpc(h, r) ==
    IF r.op \notin procedures THEN Send(h, [status |-> "404", body |-> <<"default">>])
    ELSE IF Malformed(r) THEN Send(h, [status |-> connectError("invalid"), body |-> <<"error">>])
    ELSE Accept(h, r)

Receive(h) ==
    /\ pc[h] = "idle"
    /\ \E r \in Requests :
         /\ req' = [req EXCEPT ![h] = r]
         /\ before' = [before EXCEPT ![h] = DOMAIN jobs]
         /\ IF r.surface = "web" THEN Web(h, r) ELSE Rpc(h, r)
    /\ StoreWorks /\ UNCHANGED world

-----------------------------------------------------------------------------
(* Submit *)

\* A submission as the service sees it: the form has no repo scope.
Params(h) == IF req[h].surface = "api" THEN req[h].p ELSE [req[h].p EXCEPT !.scope = << >>]

Count(h, profile, outcome) ==
    counted' = [counted EXCEPT ![h] = Append(@, [profile |-> profile, outcome |-> outcome])]

\* The error of a Submit: InvalidArgument for the API, always 400 on the page.
SubmitFails(h, err) ==
    IF req[h].surface = "api" THEN Fails(h, err) ELSE RenderIndex(h, "400", err)

\* fail: every way out of Submit but one is counted.
FailUncounted(h, profile, outcome, err) == SubmitFails(h, err) /\ counted' = counted
Fail(h, profile, outcome, err) == Count(h, profile, outcome) /\ SubmitFails(h, err)

\* Get hands out a copy; a template handed out itself would keep what Submit writes.
TemplatesAliased(profile, cfg) == IF profile = "" THEN templates ELSE [templates EXCEPT ![profile] = cfg]
TemplatesAfter(profile, cfg) == templates

Resolve(h) ==
    LET p == Params(h)
        got == resolveConfig(p, templates, server.def)
    IN  /\ pc[h] = "submit"
        /\ IF ~got.ok
           THEN Fail(h, "", "rejected", "invalid") /\ UNCHANGED templates
           ELSE IF ~validateRepoScope(p.scope)
           THEN SubmitFails(h, "invalid") /\ UNCHANGED <<templates, counted>>
           ELSE /\ templates' = TemplatesAfter(got.profile, Filled(got.cfg, h, p, server.sv))
                /\ IF Preflight(got.cfg, h, p, server.sv)
                   THEN /\ pc' = [pc EXCEPT ![h] = "create"]
                        /\ staged' = [staged EXCEPT ![h] = [Nothing EXCEPT !.profile = got.profile,
                                        !.cfg = <<Filled(got.cfg, h, p, server.sv)>>]]
                        /\ UNCHANGED <<reply, counted>>
                   ELSE Fail(h, got.profile, "rejected", "invalid")
        /\ StoreWorks /\ UNCHANGED <<server, jobs, gone, launched, handling>>

Record(h) == [status |-> "queued", cfg |-> staged[h].cfg[1], profile |-> staged[h].profile,
              scope |-> Params(h).scope, cancel |-> FALSE]

Put(h) == jobs' = [id \in DOMAIN jobs \cup {h} |-> IF id = h THEN Record(h) ELSE jobs[id]]

\* Durable, counted, announced and launched: the caller hears of it.
Submitted(h) ==
    /\ pc[h] = "create"
    /\ Put(h) /\ StoreWorks
    /\ Count(h, staged[h].profile, "accepted")
    /\ launched' = launched \cup {h}
    /\ IF req[h].surface = "api"
       THEN Answer(h, jobToProto(h, Record(h)))
       ELSE Page(h, "303", h)
    /\ UNCHANGED <<server, templates, gone, handling>>

\* CreateJob reports an error, with nothing written or with its reply lost; a
\* config that protojson cannot encode ends as the former does.
CreateFails(h) ==
    /\ pc[h] = "create"
    /\ StoreFails
    /\ Put(h) \/ jobs' = jobs
    /\ Fail(h, staged[h].profile, "failed", "internal")
    /\ UNCHANGED <<server, templates, gone, launched, handling>>

-----------------------------------------------------------------------------
(* The other operations *)

Found(h) == req[h].id \in DOMAIN jobs

\* ListJobs, and renderIndex when List has answered (JobStore has List itself).
ShowIndex(h) ==
    /\ pc[h] = "index"
    /\ \/ /\ StoreWorks
          /\ IF req[h].surface = "api" THEN Answer(h, "jobs")
             ELSE Page(h, staged[h].status, IF staged[h].msg = "" THEN "jobs" ELSE staged[h].msg)
       \/ StoreFails /\ Fails(h, "internal")
    /\ UNCHANGED <<world, handling>>

\* Get: the whole RPC, or the first read of the detail page.
GetJob(h) ==
    /\ pc[h] = "detail"
    /\ \/ /\ StoreWorks /\ Found(h)
          /\ IF req[h].surface = "api" THEN Answer(h, jobToProto(req[h].id, jobs[req[h].id]))
             ELSE /\ pc' = [pc EXCEPT ![h] = "perms"]
                  /\ staged' = [staged EXCEPT ![h] = [Nothing EXCEPT !.view = <<newJobDetail(req[h].id, jobs[req[h].id])>>]]
                  /\ reply' = reply
       \/ StoreWorks /\ ~Found(h) /\ Fails(h, "notfound")
       \/ StoreFails /\ Fails(h, "internal")
    /\ UNCHANGED <<world, handling>>

\* ListPermissionRequests, and the second read of the detail page, which shows
\* the record it read before, whatever became of the job since.  A job that is
\* gone has no permission requests, and that is no error.
ShowDetail(h) ==
    /\ pc[h] = "perms"
    /\ \/ /\ StoreWorks
          /\ IF req[h].surface = "api" THEN Answer(h, "permissions") ELSE Page(h, "200", staged[h].view[1])
       \/ StoreFails /\ Fails(h, "internal")
    /\ UNCHANGED <<world, handling>>

Confirmed(h) == IF req[h].surface = "api" THEN Answer(h, req[h].id) ELSE Page(h, "303", req[h].id)

\* Cancel asks the harness, or ends a job that has none; a terminal job is left alone.
Cancelled(j) ==
    IF Terminal(j.status) THEN {j}
    ELSE {[j EXCEPT !.cancel = TRUE], [j EXCEPT !.cancel = TRUE, !.status = "cancelled"]}

Cancel(h) ==
    LET id == req[h].id
    IN  /\ pc[h] = "cancel"
        /\ \/ /\ StoreWorks /\ Found(h)
              /\ \E j \in Cancelled(jobs[id]) : jobs' = [jobs EXCEPT ![id] = j]
              /\ Confirmed(h)
           \/ StoreWorks /\ ~Found(h) /\ jobs' = jobs /\ Fails(h, "notfound")
           \/ /\ StoreFails
              /\ IF id \in DOMAIN jobs
                 THEN \E j \in Cancelled(jobs[id]) \cup {jobs[id]} : jobs' = [jobs EXCEPT ![id] = j]
                 ELSE jobs' = jobs
              /\ Fails(h, "internal")
        /\ UNCHANGED <<server, templates, gone, launched, counted, handling>>

\* AnswerPermission: any of its errors, or a confirmation.
AnswerPermission(h) ==
    /\ pc[h] = "answer"
    /\ \/ StoreWorks /\ Found(h) /\ Confirmed(h)
       \/ StoreWorks /\ \E err \in {"notfound", "invalid", "notconnected"} :
                           /\ ~Found(h) => err = "notfound"
                           /\ Fails(h, err)
       \/ StoreFails /\ Fails(h, "internal")
    /\ UNCHANGED <<world, handling>>

-----------------------------------------------------------------------------
(* What else happens to a job *)

\* The launch, the harness and the reaper move a job on, to the end in any order.
Advance(id) ==
    /\ id \in DOMAIN jobs /\ ~Terminal(jobs[id].status)
    /\ \E status \in Statuses \ {"queued", "launching"} :
         /\ status # jobs[id].status
         /\ jobs[id].status = "running" => Terminal(status)
         /\ jobs' = [jobs EXCEPT ![id].status = status]
    /\ UNCHANGED <<server, templates, gone, launched, handling, pc, staged, reply, counted, faults>>

DeleteJob(id) ==
    /\ id \in DOMAIN jobs /\ Terminal(jobs[id].status)
    /\ jobs' = Restrict(jobs, DOMAIN jobs \ {id})
    /\ gone' = gone \cup {id}
    /\ UNCHANGED <<server, templates, launched, handling, pc, staged, reply, counted, faults>>

Init ==
    /\ server \in Servers /\ templates = server.templates
    /\ jobs = << >> /\ gone = {} /\ launched = {}
    /\ req = [h \in Handlers |-> << >>] /\ before = [h \in Handlers |-> {}]
    /\ pc = [h \in Handlers |-> "idle"] /\ staged = [h \in Handlers |-> Nothing]
    /\ reply = [h \in Handlers |-> NoReply] /\ counted = [h \in Handlers |-> << >>]
    /\ faults = 0

Next ==
    \/ \E h \in Handlers :
         \/ Receive(h) \/ Resolve(h) \/ Submitted(h) \/ CreateFails(h)
         \/ ShowIndex(h) \/ GetJob(h) \/ ShowDetail(h) \/ Cancel(h) \/ AnswerPermission(h)
    \/ \E id \in Handlers : Advance(id) \/ DeleteJob(id)

Spec == Init /\ [][Next]_vars

-----------------------------------------------------------------------------
(* Properties *)

Done(h) == pc[h] = "done"
Submits(h) == Done(h) /\ req[h].op = "submit"

\* The handlers whose request reached Service.Submit.
Reached(h) == Submits(h) /\ (req[h].surface = "web" =>
                 ~CrossOrigin(req[h]) /\ req[h].method = "POST" /\ req[h].form /\ ~Blank(req[h].p))

\* What Submit was to make of the request of h, had it been alone on this server.
Alone(h) == resolveConfig(Params(h), server.templates, server.def)

\* However many submissions share the profiles, the config a job is stored
\* with is its own request's over the profile as the file has it and the
\* server's defaults: nothing another submission wrote into its copy of the
\* template (a prompt, a run id, a namespace) shows (profiles.go, Get).
OwnConfig ==
    \A h \in DOMAIN jobs :
        LET own == resolveConfig(Params(h), server.templates, server.def)
        IN  /\ own.ok
            /\ jobs[h].cfg = Filled(own.cfg, h, Params(h), server.sv)
            /\ jobs[h].profile = own.profile
            /\ jobs[h].scope = Params(h).scope

\* A sandbox of which only the isolation is named.
Bare(ex) == [NoExecutor EXCEPT !.type = ex.type, !.network = ex.network]

\* A caller names only the isolation it wants (executor.go:24): on a server
\* with an image and a namespace of its own, a config whose sandbox gives a
\* type and a network and nothing else is not refused for what it leaves out.
\* The one exception is the code's: a server whose default runtime is not
\* gvisor refuses the k8s-sandbox that names no runtime.
IsolationSuffices ==
    \A h \in Handlers :
        LET c == [Alone(h).cfg EXCEPT !.executor = [NoExecutor EXCEPT !.type = "local"]]
            ex == Alone(h).cfg.executor
        IN  /\ Reached(h) /\ Alone(h).ok /\ validateRepoScope(Params(h).scope)
            /\ isK8sExecutor(ex.type) /\ ex = Bare(ex) /\ ex.network = "none"
            /\ server.sv.executor.image # "" /\ server.sv.executor.namespace # ""
            /\ Preflight(c, h, Params(h), server.sv)      \* the rest of the config is sound
            /\ ex.type = "k8s-sandbox" => server.sv.executor.runtime \in {"", "gvisor"}
            => \A i \in DOMAIN counted[h] : counted[h][i].outcome # "rejected"

\* hairpin.job.submissions has each submission once, under the outcome it had
\* and under a profile that exists: accepted when and only when its launch was
\* started, failed when the store did not answer.  The exception is the
\* code's: a submission refused for its repo scope is not counted (submit.go:52).
SubmissionsCounted ==
    \A h \in Handlers : Submits(h) =>
        IF ~Reached(h) \/ (Alone(h).ok /\ ~validateRepoScope(Params(h).scope))
        THEN counted[h] = << >>
        ELSE /\ Len(counted[h]) = 1
             /\ counted[h][1].profile \in DOMAIN server.templates \cup {""}
             /\ counted[h][1].outcome = "accepted" <=> h \in launched
             /\ counted[h][1].outcome = "rejected" => h \notin DOMAIN jobs \cup gone

\* The terminal status a client is shown, if it is one.
ShownOver(body) ==
    {s \in Statuses : Terminal(s) /\ body.status \in {s, statusToProto(s)}}

\* What a client was told holds of the store.  It reads one page, never the
\* handler's after the generic one; a job it was given exists or was deleted
\* since, and is launched; InvalidArgument means that nothing was stored (the
\* form's 400 does not: it also stands for a store that failed); "not found"
\* that the job was missing at some time during the request; a job shown
\* as over is over for good, in the same way.
RepliesAreTrue ==
    \A h \in Handlers : Done(h) =>
        LET status == reply[h].status
            body == reply[h].body
            id == req[h].id
        IN  /\ Len(body) = 1
            /\ req[h].op = "submit" /\ status \in {"OK", "303"} => h \in launched \cap (DOMAIN jobs \cup gone)
            /\ req[h].op = "submit" /\ status = "InvalidArgument" => h \notin DOMAIN jobs \cup gone
            /\ req[h].op \in {"detail", "cancel"} /\ status \in {"404", "NotFound"} =>
                 id \notin before[h] \/ id \in gone
            /\ req[h].op = "detail" /\ status \in {"OK", "200"} =>
                 /\ body[1].id = id /\ id \in DOMAIN jobs \cup gone
                 /\ \A s \in ShownOver(body[1]) : id \in DOMAIN jobs => jobs[id].status = s
            /\ req[h].op = "cancel" /\ status \in {"OK", "303"} /\ id \in DOMAIN jobs =>
                 jobs[id].cancel \/ Terminal(jobs[id].status)

=============================================================================
