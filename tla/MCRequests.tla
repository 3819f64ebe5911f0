----------------------------- MODULE MCRequests -----------------------------
(* Model checking of Requests. *)
EXTENDS Requests, TLC

Whole == [runId |-> "", prompt |-> "", mode |-> "execution", provider |-> "anthropic",
          maxTurns |-> MaxTurns, timeout |-> <<MaxTimeout>>,
          executor |-> [NoExecutor EXCEPT !.type = "k8s", !.network = "none"],
          tools |-> {}, trace |-> ""]

Sandbox(ex) == [Whole EXCEPT !.prompt = "own", !.executor = ex]
K8s == Whole.executor
Own == [K8s EXCEPT !.image = "mine", !.namespace = "mine", !.runtime = "runc"]

\* Configs that differ from a sound one in one respect.
Configs ==
    {Sandbox(ex) : ex \in
        {NoExecutor, [NoExecutor EXCEPT !.type = "local"], K8s, Own, [K8s EXCEPT !.type = "k8s-sandbox"],
         [K8s EXCEPT !.workspace = "/w"], [K8s EXCEPT !.runtime = "crun"], [K8s EXCEPT !.network = ""],
         [K8s EXCEPT !.network = "allowlist"], [K8s EXCEPT !.network = "allowlist", !.proxy = "url"],
         [K8s EXCEPT !.proxy = "url"]}}
    \cup {Whole, [Sandbox(K8s) EXCEPT !.mode = ""], [Sandbox(K8s) EXCEPT !.provider = ""],
          [Sandbox(K8s) EXCEPT !.trace = "mine"]}
    \cup {[Sandbox(K8s) EXCEPT !.maxTurns = n] : n \in {0, MaxTurns + 1}}
    \cup {[Sandbox(K8s) EXCEPT !.timeout = t] : t \in {<< >>, <<0>>, <<MaxTimeout + 1>>}}
    \cup {[Sandbox(K8s) EXCEPT !.tools = {[name |-> t[1], seconds |-> t[2]]}] :
            t \in {<<"search_memory", 0>>, <<"save_memory", CallTimeout - 1>>,
                   <<"save_memory", CallTimeout>>, <<"shell", 0>>}}

Json(c) == <<[parses |-> TRUE, blank |-> FALSE, cfg |-> c]>>
Entry(n, ok) == [bytes |-> n, printable |-> ok]
Simple == [prompt |-> "hi", profile |-> "", json |-> << >>, scope |-> << >>]

Submissions ==
    {[Simple EXCEPT !.prompt = pr, !.profile = name] :
        pr \in {"", "blank", "hi"}, name \in {"", "p", "q", "nobody"}}
    \cup {[Simple EXCEPT !.json = <<[parses |-> FALSE, blank |-> b, cfg |-> Whole]>>] : b \in BOOLEAN}
    \cup {[Simple EXCEPT !.prompt = "", !.json = Json(c)] : c \in Configs}
    \cup {[Simple EXCEPT !.prompt = "blank", !.json = Json(Sandbox(K8s))],
          [Simple EXCEPT !.profile = "p", !.json = Json(Sandbox(K8s))]}
    \cup {[Simple EXCEPT !.profile = "p", !.scope = sc] :
            sc \in {<<Entry(MaxEntry, TRUE)>>, <<Entry(0, TRUE)>>, <<Entry(MaxEntry + 1, TRUE)>>,
                    <<Entry(1, FALSE)>>, [i \in 1..(MaxScope + 1) |-> Entry(1, TRUE)]}}

Ask(surface, method, origin, op, id, form, p) ==
    [surface |-> surface, method |-> method, origin |-> origin, op |-> op, id |-> id,
     form |-> form, p |-> p]

OnJob == {"detail", "cancel", "answer"}
MCRequests ==
    {Ask("api", "POST", "", "submit", "", TRUE, p) : p \in Submissions}
    \cup {Ask("web", "POST", "", "submit", "", TRUE, [p EXCEPT !.scope = << >>]) : p \in Submissions}
    \cup {Ask("api", "POST", "", op, id, TRUE, Simple) : op \in OnJob \cup {"perms"}, id \in Handlers \cup {"bad"}}
    \cup {Ask("api", "POST", "", op, "", TRUE, Simple) : op \in {"index", "nowhere"}}
    \cup {Ask("web", routes[op], "same", op, id, TRUE, Simple) : op \in OnJob, id \in Handlers \cup {"bad"}}
    \cup {Ask("web", m, "foreign", op, "bad", FALSE, Simple) :
            m \in {"GET", "POST"}, op \in DOMAIN routes \cup {"nowhere"}}
    \cup {Ask("web", "POST", "", op, h, FALSE, Simple) : op \in {"submit", "answer"}, h \in Handlers}

Symmetry == Permutations(Handlers)

Defaults(image, runtime) == [image |-> image, namespace |-> "sandboxes", account |-> "agent",
                             runtime |-> runtime]
Profile == [p |-> Whole, q |-> [Whole EXCEPT !.executor = [@ EXCEPT !.type = "k8s-sandbox"]]]

MCServers ==
    {[templates |-> Profile, def |-> "p",
      sv |-> [executor |-> Defaults("image", rt), trace |-> "otlp", memory |-> TRUE]] :
        rt \in {"gvisor", "kata-qemu"}}
    \cup {[templates |-> << >>, def |-> "",
           sv |-> [executor |-> Defaults("", ""), trace |-> "", memory |-> FALSE]]}

=============================================================================
