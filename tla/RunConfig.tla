----------------------------- MODULE RunConfig -----------------------------
(***************************************************************************)
(* What Submit makes of a request before a job exists: the RunConfig it    *)
(* starts from, the defaults of the server, and the checks that refuse it  *)
(* (internal/service: submit.go, executor.go, profiles.go, tools.go,       *)
(* traceemitter.go).                                                       *)
(*                                                                         *)
(* A config is a record of the fields these look at; "" is a field that is *)
(* not set, an absent executor is NoExecutor, an optional number a         *)
(* sequence of at most one.                                                *)
(*                                                                         *)
(* A definition directly above another one with the same parameters is a   *)
(* faulty variant of it: PROJECT.json names the property that tells the    *)
(* two apart.                                                              *)
(***************************************************************************)
EXTENDS Integers, Sequences

CONSTANTS
    MaxTurns, MaxTimeout,   \* 100 turns, 3600 seconds
    CallTimeout,            \* seconds hairpin gives a memory call
    MaxScope,               \* maxRepoScopeEntries
    MaxEntry                \* maxRepoScopeEntryBytes

NoExecutor == [type |-> "", image |-> "", namespace |-> "", account |-> "", runtime |-> "",
               workspace |-> "", network |-> "", proxy |-> ""]

\* A config has the fields the code looks at, set or not.
IsConfig(c) ==
    c = [runId |-> c.runId, prompt |-> c.prompt, mode |-> c.mode, provider |-> c.provider,
         maxTurns |-> c.maxTurns, timeout |-> c.timeout, executor |-> c.executor,
         tools |-> c.tools, trace |-> c.trace]

\* What a caller submits.
IsSubmission(p) ==
    /\ p = [prompt |-> p.prompt, profile |-> p.profile, json |-> p.json, scope |-> p.scope]
    /\ p.json # << >> => IsConfig(p.json[1].cfg)

MemoryTools == {"search_memory", "save_memory"}

-----------------------------------------------------------------------------
(* Where the config comes from *)

Refused == [ok |-> FALSE]

\* p.json is << >> when absent, <<"garbage">> when it does not parse, else the config.
\* Get hands out a copy of the template.
resolveConfig(p, templates, def) ==
    LET name == IF p.profile = "" THEN def ELSE p.profile
    IN  IF p.json # << >>
        THEN IF p.profile = "" /\ p.json[1].parses
             THEN [ok |-> TRUE, cfg |-> p.json[1].cfg, profile |-> ""]
             ELSE Refused
        ELSE IF name \in DOMAIN templates      \* and so not ""
             THEN [ok |-> TRUE, cfg |-> templates[name], profile |-> name]
             ELSE Refused

\* A scope is a sequence of entries: their length, and whether they are printable.
validateRepoScope(scope) ==
    /\ Len(scope) <= MaxScope
    /\ \A i \in DOMAIN scope : scope[i].bytes \in 1..MaxEntry /\ scope[i].printable

-----------------------------------------------------------------------------
(* Defaults of the server *)

Or(own, default) == IF own = "" THEN default ELSE own

isK8sExecutor(t) == t \in {"k8s", "k8s-sandbox"}
validK8sRuntime(r) == r \in {"runc", "gvisor", "kata-qemu", "kata-fc", "kata-clh"}

Defaulted(ex, d) == [ex EXCEPT !.image = Or(@, d.image), !.namespace = Or(@, d.namespace),
                               !.account = Or(@, d.account), !.runtime = Or(@, d.runtime)]

applyExecutorDefaults(c, d) ==
    IF isK8sExecutor(c.executor.type) THEN [c EXCEPT !.executor = Defaulted(@, d)] ELSE c

applyTraceEmitterDefault(c, endpoint) == [c EXCEPT !.trace = Or(@, endpoint)]

-----------------------------------------------------------------------------
(* Preflight *)

validateExecutor(ex) ==
    \/ ~isK8sExecutor(ex.type)
    \/ /\ ex.image # "" /\ ex.namespace # "" /\ ex.workspace = ""
       /\ IF ex.type = "k8s-sandbox" THEN ex.runtime \in {"", "gvisor"}
                                     ELSE ex.runtime = "" \/ validK8sRuntime(ex.runtime)
       /\ \/ ex.network = "allowlist" /\ ex.proxy # ""
          \/ ex.network = "none" /\ ex.proxy = ""

validateRunConfig(c) ==
    /\ c.prompt # "" /\ c.mode # "" /\ c.provider # ""
    /\ c.maxTurns \in 1..MaxTurns
    /\ c.timeout # << >> /\ c.timeout[1] \in 1..MaxTimeout
    /\ c.executor.type # ""
    /\ validateExecutor(c.executor)

validateControlPlaneTools(tools, memoryEnabled) ==
    \A t \in tools : /\ t.name \in MemoryTools
                     /\ memoryEnabled
                     /\ t.seconds = 0 \/ t.seconds >= CallTimeout

\* The config of job id: what Submit does to its copy, in its order.
Filled(c, id, p, sv) ==
    applyTraceEmitterDefault(
        applyExecutorDefaults([c EXCEPT !.runId = id, !.prompt = IF p.prompt = "" THEN @ ELSE p.prompt],
                              sv.executor),
        sv.trace)

\* Mutant: the preflight looks at the config before the defaults are in it.
PreflightEarly(c, id, p, sv) ==
    /\ validateRunConfig([c EXCEPT !.prompt = IF p.prompt = "" THEN @ ELSE p.prompt])
    /\ validateControlPlaneTools(c.tools, sv.memory)
Preflight(c, id, p, sv) ==
    /\ validateRunConfig(Filled(c, id, p, sv))
    /\ validateControlPlaneTools(c.tools, sv.memory)

=============================================================================
