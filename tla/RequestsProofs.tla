--------------------------- MODULE RequestsProofs ---------------------------
(***************************************************************************)
(* Proofs about Requests, for any number of handlers, any requests, any    *)
(* profiles and settings of the server, and any number of failing calls.   *)
(***************************************************************************)
EXTENDS Requests, TLAPS, SequenceTheorems

-----------------------------------------------------------------------------
(***************************************************************************)
(* The inductive invariant                                                 *)
(***************************************************************************)

Places == {"idle", "submit", "create", "index", "detail", "perms", "cancel", "answer", "done"}

\* The store has, or had, the job that h makes, or its launch was started.
Made(h) == h \in DOMAIN jobs \cup gone \cup launched

\* The request of h, a submission, gets as far as Service.Submit.
Admitted(h) ==
    req[h].surface = "web" =>
        ~CrossOrigin(req[h]) /\ req[h].method = "POST" /\ req[h].form /\ ~Blank(req[h].p)

\* The config with which the job of h is to be stored.
OwnFilled(h) == Filled(Alone(h).cfg, h, Params(h), server.sv)

\* A record of the store has its five fields and a status.
Recorded(j) ==
    /\ j = [status |-> j.status, cfg |-> j.cfg, profile |-> j.profile, scope |-> j.scope, cancel |-> j.cancel]
    /\ j.status \in Statuses /\ j.cancel \in BOOLEAN

\* The store's record of the job of h is what the request of h asked for.
OwnJob(h) ==
    /\ Alone(h).ok
    /\ jobs[h].cfg = OwnFilled(h) /\ jobs[h].profile = Alone(h).profile
    /\ jobs[h].scope = Params(h).scope

StoreInv ==
    /\ server \in Servers /\ templates = server.templates
    /\ DOMAIN jobs \subseteq Handlers
    /\ \A id \in DOMAIN jobs : Recorded(jobs[id]) /\ OwnJob(id)
    /\ DOMAIN req = Handlers /\ DOMAIN before = Handlers /\ DOMAIN pc = Handlers
    /\ DOMAIN staged = Handlers /\ DOMAIN reply = Handlers /\ DOMAIN counted = Handlers

\* What the counter has of a submission that is over, or will be once the page
\* is rendered: a refusal is counted as one only if the config deserves it.
Tallied(h) ==
    IF ~Admitted(h) \/ (Alone(h).ok /\ ~validateRepoScope(Params(h).scope))
    THEN counted[h] = << >>
    ELSE /\ Len(counted[h]) = 1 /\ DOMAIN counted[h] = {1}
         /\ counted[h][1].profile \in DOMAIN server.templates \cup {""}
         /\ counted[h][1].outcome = "accepted" <=> h \in launched
         /\ counted[h][1].outcome = "rejected" =>
              /\ h \notin DOMAIN jobs \cup gone
              /\ ~Alone(h).ok \/ ~Preflight(Alone(h).cfg, h, Params(h), server.sv)

\* The view b of the job id is still true where it has to be.
Shows(id, b) ==
    /\ b.id = id /\ id \in DOMAIN jobs \cup gone
    /\ \A s \in ShownOver(b) : id \in DOMAIN jobs => jobs[id].status = s

\* What h told its client holds.
Told(h) ==
    LET status == reply[h].status
        body == reply[h].body
        id == req[h].id
    IN  /\ Len(body) = 1
        /\ req[h].op = "submit" /\ status \in {"OK", "303"} => h \in launched \cap (DOMAIN jobs \cup gone)
        /\ req[h].op = "submit" /\ status = "InvalidArgument" => h \notin DOMAIN jobs \cup gone
        /\ req[h].op \in {"detail", "cancel"} /\ status \in {"404", "NotFound"} => id \notin before[h] \/ id \in gone
        /\ req[h].op = "detail" /\ status \in {"OK", "200"} => Shows(id, body[1])
        /\ req[h].op = "cancel" /\ status \in {"OK", "303"} =>
             /\ id \in DOMAIN jobs \cup gone
             /\ id \in DOMAIN jobs => jobs[id].cancel = TRUE \/ Terminal(jobs[id].status)

\* Where a handler stands.
Stage(h) ==
    /\ pc[h] \in Places
    /\ pc[h] # "idle" => req[h] \in Requests /\ before[h] \subseteq DOMAIN jobs \cup gone
    /\ Made(h) => pc[h] \in {"index", "done"}
    /\ pc[h] \in {"idle", "submit", "create"} => counted[h] = << >>
    /\ pc[h] \in {"submit", "create"} => req[h].op = "submit" /\ Admitted(h)
    /\ pc[h] = "create" => /\ Alone(h).ok /\ validateRepoScope(Params(h).scope)
                           /\ staged[h].cfg = <<OwnFilled(h)>> /\ staged[h].profile = Alone(h).profile
    /\ pc[h] \in {"detail", "cancel", "answer"} => req[h].op = pc[h]
    /\ pc[h] = "perms" => /\ req[h].op \in {"detail", "perms"}
                          /\ req[h].op = "detail" => req[h].surface = "web" /\ Shows(req[h].id, staged[h].view[1])
    /\ pc[h] = "index" => /\ req[h].op \in {"submit", "index"}
                          /\ req[h].op = "submit" => req[h].surface = "web" /\ staged[h].status = "400"
    /\ pc[h] \in {"index", "done"} /\ req[h].op = "submit" => Tallied(h)
    /\ pc[h] = "done" => Told(h)

HandlersInv == \A h \in Handlers : Stage(h)

-----------------------------------------------------------------------------
(***************************************************************************)
(* How the store moves on                                                  *)
(***************************************************************************)

\* What may become of a record: its status, until it is over, and the flag
\* that asks for its end.
Kept(j, k) ==
    /\ Recorded(k) /\ k.cfg = j.cfg /\ k.profile = j.profile /\ k.scope = j.scope
    /\ Terminal(j.status) => k.status = j.status
    /\ k.cancel = j.cancel \/ k.cancel = TRUE

\* A step that creates, or launches, at most the jobs of N, which were never
\* there, and brings none back.
Onward(N) ==
    /\ server' = server /\ templates' = templates
    /\ \A g \in N : ~Made(g)
    /\ gone \subseteq gone' /\ gone' \subseteq gone \cup DOMAIN jobs
    /\ launched \subseteq launched' /\ launched' \subseteq launched \cup N
    /\ DOMAIN jobs' \subseteq DOMAIN jobs \cup N /\ DOMAIN jobs \subseteq DOMAIN jobs' \cup gone'
    /\ \A id \in DOMAIN jobs : id \in DOMAIN jobs' => Kept(jobs[id], jobs'[id])

\* A handler of which a step touches nothing.
Still(g) ==
    /\ req'[g] = req[g] /\ before'[g] = before[g] /\ pc'[g] = pc[g]
    /\ staged'[g] = staged[g] /\ reply'[g] = reply[g] /\ counted'[g] = counted[g]

\* A request means the same as long as it is served.
LEMMA SameRequest ==
    ASSUME NEW h \in Handlers, req'[h] = req[h], server' = server
    PROVE  Params(h)' = Params(h) /\ Alone(h)' = Alone(h) /\ Admitted(h)' = Admitted(h) /\ OwnFilled(h)' = OwnFilled(h)
  <1>1. Params(h)' = Params(h)
    BY DEF Params
  <1>2. Alone(h)' = Alone(h)
    BY <1>1 DEF Alone
  <1>3. Admitted(h)' = Admitted(h)
    BY DEF Admitted
  <1>4. OwnFilled(h)' = OwnFilled(h)
    BY <1>1, <1>2 DEF OwnFilled
  <1> QED  BY <1>1, <1>2, <1>3, <1>4

\* A record is kept when nothing happens to it.
LEMMA KeptSame ==
    ASSUME NEW j, Recorded(j)
    PROVE  Kept(j, j)
  BY DEF Kept

LEMMA OnwardSame ==
    ASSUME StoreInv, UNCHANGED <<server, templates, jobs, gone, launched>>
    PROVE  Onward({})
  BY KeptSame DEF StoreInv, Onward

\* A new status, or the flag, is all that changes of a record.
LEMMA KeptStatus ==
    ASSUME NEW j, Recorded(j), ~Terminal(j.status), NEW s \in Statuses
    PROVE  /\ Kept(j, [j EXCEPT !.status = s])
           /\ Kept(j, [j EXCEPT !.cancel = TRUE]) /\ [j EXCEPT !.cancel = TRUE].cancel = TRUE
           /\ Kept(j, [j EXCEPT !.cancel = TRUE, !.status = s]) /\ [j EXCEPT !.cancel = TRUE, !.status = s].cancel = TRUE
  <1> DEFINE c == j.cfg
             p == j.profile
             o == j.scope
             f == j.cancel
             t == j.status
  <1>1. j = [status |-> t, cfg |-> c, profile |-> p, scope |-> o, cancel |-> f] /\ f \in BOOLEAN /\ ~Terminal(t)
    BY DEF Recorded
  <1> HIDE DEF c, p, o, f, t
  <1>2. [j EXCEPT !.status = s] = [status |-> s, cfg |-> c, profile |-> p, scope |-> o, cancel |-> f]
    BY <1>1
  <1>3. ASSUME NEW b
        PROVE  /\ [j EXCEPT !.cancel = b] = [status |-> t, cfg |-> c, profile |-> p, scope |-> o, cancel |-> b]
               /\ [j EXCEPT !.cancel = b, !.status = s]
                    = [status |-> s, cfg |-> c, profile |-> p, scope |-> o, cancel |-> b]
    <2>1. j = [status |-> t, cfg |-> c, profile |-> p, scope |-> o, cancel |-> f]
      BY <1>1
    <2>2. [j EXCEPT !.cancel = b] = [status |-> t, cfg |-> c, profile |-> p, scope |-> o, cancel |-> b]
      BY ONLY <2>1
    <2>3. [j EXCEPT !.cancel = b, !.status = s]
            = [status |-> s, cfg |-> c, profile |-> p, scope |-> o, cancel |-> b]
      <3> DEFINE k == [j EXCEPT !.cancel = b]
      <3>1. [j EXCEPT !.cancel = b, !.status = s] = [k EXCEPT !.status = s]
        OBVIOUS
      <3>2. k = [status |-> t, cfg |-> c, profile |-> p, scope |-> o, cancel |-> b]
        BY <2>2
      <3> HIDE DEF k
      <3>3. [k EXCEPT !.status = s] = [status |-> s, cfg |-> c, profile |-> p, scope |-> o, cancel |-> b]
        BY ONLY <3>2
      <3> QED  BY <3>1, <3>3
    <2> QED  BY <2>2, <2>3
  <1>5. t \in Statuses
    BY DEF Recorded, t
  <1>6. ASSUME NEW u \in Statuses, NEW b \in BOOLEAN, b = f \/ b = TRUE
        PROVE  Kept(j, [status |-> u, cfg |-> c, profile |-> p, scope |-> o, cancel |-> b])
    <2> DEFINE k == [status |-> u, cfg |-> c, profile |-> p, scope |-> o, cancel |-> b]
    <2>1. k.status = u /\ k.cfg = c /\ k.profile = p /\ k.scope = o /\ k.cancel = b
      OBVIOUS
    <2>2. Recorded(k)
      BY <1>6, <2>1 DEF Recorded
    <2> HIDE DEF k
    <2>3. Kept(j, k)
      BY <1>1, <1>6, <2>1, <2>2 DEF Kept, c, p, o, f, t
    <2> QED  BY <2>3 DEF k
  <1>7. Kept(j, [j EXCEPT !.status = s])
    <2>1. Kept(j, [status |-> s, cfg |-> c, profile |-> p, scope |-> o, cancel |-> f])
      BY <1>1, <1>6
    <2> QED  BY ONLY <1>2, <2>1
  <1>8. ASSUME NEW b \in BOOLEAN, b = TRUE
        PROVE  /\ Kept(j, [j EXCEPT !.cancel = b]) /\ [j EXCEPT !.cancel = b].cancel = b
               /\ Kept(j, [j EXCEPT !.cancel = b, !.status = s]) /\ [j EXCEPT !.cancel = b, !.status = s].cancel = b
    BY <1>3, <1>5, <1>6, <1>8
  <1> QED  BY <1>7, <1>8, Zenon

\* The view b of the job id is still true after the step.
ShowsNext(id, b) ==
    /\ b.id = id /\ id \in DOMAIN jobs' \cup gone'
    /\ \A s \in ShownOver(b) : id \in DOMAIN jobs' => jobs'[id].status = s

\* A true view stays true.
LEMMA StillShows ==
    ASSUME StoreInv, NEW N, Onward(N)
    PROVE  \A id, b : Shows(id, b) => ShowsNext(id, b)
  <1> SUFFICES ASSUME NEW id, NEW b, Shows(id, b) PROVE ShowsNext(id, b)
    OBVIOUS
  <1>1. id \in DOMAIN jobs' => id \in DOMAIN jobs
    BY DEF Onward, Shows, Made
  <1>2. id \in DOMAIN jobs' \cup gone'
    BY DEF Onward, Shows
  <1>3. ASSUME NEW s \in ShownOver(b), id \in DOMAIN jobs' PROVE jobs'[id].status = s
    <2>1. jobs[id].status = s /\ Terminal(s) /\ Kept(jobs[id], jobs'[id])
      BY <1>1, <1>3 DEF Shows, Onward, ShownOver
    <2> QED  BY <2>1 DEF Kept
  <1> QED  BY <1>2, <1>3 DEF Shows, ShowsNext

\* The handlers that a step does not touch stand where they stood.
LEMMA OthersStay ==
    ASSUME StoreInv, NEW N, Onward(N), NEW g \in Handlers, g \notin N, Stage(g), Still(g)
    PROVE  Stage(g)'
  <1>1. /\ req'[g] = req[g] /\ before'[g] = before[g] /\ pc'[g] = pc[g]
        /\ staged'[g] = staged[g] /\ reply'[g] = reply[g] /\ counted'[g] = counted[g] /\ server' = server
    BY DEF Still, Onward
  <1>2. Params(g)' = Params(g) /\ Alone(g)' = Alone(g) /\ Admitted(g)' = Admitted(g) /\ OwnFilled(g)' = OwnFilled(g)
    BY <1>1, SameRequest
  <1>3. /\ Made(g)' => Made(g)
        /\ g \in launched' <=> g \in launched
        /\ g \in DOMAIN jobs' \cup gone' <=> g \in DOMAIN jobs \cup gone
        /\ DOMAIN jobs \cup gone \subseteq DOMAIN jobs' \cup gone'
    BY DEF Onward, Made
  <1>4. Tallied(g) => Tallied(g)'
    BY <1>1, <1>2, <1>3 DEF Tallied
  <1>5. Told(g) => Told(g)'
    <2> SUFFICES ASSUME Told(g) PROVE Told(g)'
      OBVIOUS
    <2> DEFINE status == reply[g].status
               body == reply[g].body
               id == req[g].id
    <2>1. req[g].op = "detail" /\ status \in {"OK", "200"} => ShowsNext(id, body[1])
      BY StillShows DEF Told
    <2>2. ASSUME req[g].op = "cancel" /\ status \in {"OK", "303"}
          PROVE  /\ id \in DOMAIN jobs' \cup gone'
                 /\ id \in DOMAIN jobs' => jobs'[id].cancel = TRUE \/ Terminal(jobs'[id].status)
      <3>1. /\ id \in DOMAIN jobs \cup gone
            /\ id \in DOMAIN jobs => jobs[id].cancel = TRUE \/ Terminal(jobs[id].status)
        BY <2>2 DEF Told
      <3>2. id \in DOMAIN jobs' => id \in DOMAIN jobs /\ Kept(jobs[id], jobs'[id])
        BY <3>1 DEF Onward, Made
      <3>3. id \in DOMAIN jobs' => jobs'[id].cancel = TRUE \/ Terminal(jobs'[id].status)
        BY <3>1, <3>2 DEF Kept
      <3> QED  BY <1>3, <3>1, <3>3
    <2>3. gone \subseteq gone'
      BY DEF Onward
    <2> QED  BY <1>1, <1>3, <2>1, <2>2, <2>3 DEF Told, Shows, ShowsNext
  <1>6. Shows(req[g].id, staged[g].view[1]) => ShowsNext(req[g].id, staged[g].view[1])
    BY StillShows
  <1>7. /\ pc'[g] \in Places
        /\ pc'[g] # "idle" => req'[g] \in Requests /\ before'[g] \subseteq DOMAIN jobs' \cup gone'
        /\ Made(g)' => pc'[g] \in {"index", "done"}
        /\ pc'[g] \in {"idle", "submit", "create"} => counted'[g] = << >>
        /\ pc'[g] \in {"detail", "cancel", "answer"} => req'[g].op = pc'[g]
    BY <1>1, <1>3 DEF Stage
  <1>8. /\ pc'[g] \in {"submit", "create"} => req'[g].op = "submit" /\ Admitted(g)'
        /\ pc'[g] = "create" => /\ Alone(g)'.ok /\ validateRepoScope(Params(g)'.scope)
                                /\ staged'[g].cfg = <<OwnFilled(g)'>> /\ staged'[g].profile = Alone(g)'.profile
    BY <1>1, <1>2 DEF Stage
  <1>9. /\ pc'[g] = "perms" => /\ req'[g].op \in {"detail", "perms"}
                               /\ req'[g].op = "detail" =>
                                    req'[g].surface = "web" /\ ShowsNext(req'[g].id, staged'[g].view[1])
        /\ pc'[g] = "index" => /\ req'[g].op \in {"submit", "index"}
                               /\ req'[g].op = "submit" => req'[g].surface = "web" /\ staged'[g].status = "400"
        /\ pc'[g] \in {"index", "done"} /\ req'[g].op = "submit" => Tallied(g)'
        /\ pc'[g] = "done" => Told(g)'
    BY <1>1, <1>4, <1>5, <1>6 DEF Stage
  <1> QED  BY <1>7, <1>8, <1>9 DEF Stage, Shows, ShowsNext

-----------------------------------------------------------------------------
(***************************************************************************)
(* A step of one handler                                                   *)
(***************************************************************************)

\* All of a step of h but what it does to h itself.  N is empty, or h when
\* its job comes to be.
Steps(h, N) ==
    /\ Onward(N) /\ N \subseteq {h}
    /\ DOMAIN req' = Handlers /\ DOMAIN before' = Handlers /\ DOMAIN pc' = Handlers
    /\ DOMAIN staged' = Handlers /\ DOMAIN reply' = Handlers /\ DOMAIN counted' = Handlers
    /\ \A g \in Handlers : g # h => Still(g)
    /\ req'[h] = req[h] \/ pc[h] = "idle"
    /\ \A g \in N : g \in DOMAIN jobs' => Recorded(jobs'[g]) /\ OwnJob(g)'

LEMMA HandlerKeeps ==
    ASSUME StoreInv, HandlersInv, NEW h \in Handlers, NEW N, Steps(h, N), Stage(h)'
    PROVE  StoreInv' /\ HandlersInv'
  <1>1. \A g \in Handlers : Stage(g)'
    <2> SUFFICES ASSUME NEW g \in Handlers, g # h PROVE Stage(g)'
      OBVIOUS
    <2>1. Stage(g) /\ Still(g) /\ g \notin N
      BY DEF HandlersInv, Steps
    <2> QED  BY <2>1, OthersStay DEF Steps
  <1>2. ASSUME NEW id \in DOMAIN jobs' PROVE id \in Handlers /\ Recorded(jobs'[id]) /\ OwnJob(id)'
    <2>1. CASE id \in N
      BY <1>2, <2>1 DEF Steps
    <2>2. CASE id \notin N
      <3>1. id \in DOMAIN jobs /\ id \in Handlers /\ Kept(jobs[id], jobs'[id])
        BY <1>2, <2>2 DEF Steps, Onward, StoreInv
      <3>2. OwnJob(id) /\ pc[id] # "idle"
        BY <3>1 DEF StoreInv, HandlersInv, Stage, Made
      <3>3. req'[id] = req[id] /\ server' = server
        BY <3>1, <3>2 DEF Steps, Still, Onward
      <3>4. Params(id)' = Params(id) /\ Alone(id)' = Alone(id) /\ OwnFilled(id)' = OwnFilled(id)
        BY <3>1, <3>3, SameRequest
      <3>5. OwnJob(id)'
        BY <3>1, <3>2, <3>4 DEF OwnJob, Kept
      <3> QED  BY <3>1, <3>5 DEF Kept
    <2> QED  BY <2>1, <2>2
  <1>3. server' \in Servers /\ templates' = server'.templates
    BY DEF Steps, Onward, StoreInv
  <1> QED  BY <1>1, <1>2, <1>3 DEF StoreInv, HandlersInv, Steps

\* The reply h sends, with which it is done.
Ends(h, status, what) ==
    /\ pc'[h] = "done"
    /\ reply'[h].status = status /\ Len(reply'[h].body) = 1 /\ reply'[h].body[1] = what

\* A step of h in its own part of pc, staged and reply.
Local(h) ==
    /\ DOMAIN pc' = Handlers /\ DOMAIN staged' = Handlers /\ DOMAIN reply' = Handlers
    /\ \A g \in Handlers : g # h => pc'[g] = pc[g] /\ staged'[g] = staged[g] /\ reply'[g] = reply[g]

LEMMA SendEnds ==
    ASSUME StoreInv, NEW h \in Handlers, NEW status, NEW what, Send(h, [status |-> status, body |-> <<what>>])
    PROVE  Ends(h, status, what) /\ Local(h)
  <1> DEFINE r == [status |-> status, body |-> <<what>>]
  <1>1. r.status = status /\ Len(r.body) = 1 /\ r.body[1] = what
    OBVIOUS
  <1> HIDE DEF r
  <1>2. /\ reply' = [reply EXCEPT ![h] = r] /\ pc' = [pc EXCEPT ![h] = "done"]
        /\ staged' = [staged EXCEPT ![h] = Nothing]
    BY DEF Send, r
  <1> QED  BY <1>1, <1>2 DEF Ends, Local, StoreInv

LEMMA PageEnds ==
    ASSUME StoreInv, NEW h \in Handlers, NEW status, NEW what, Page(h, status, what)
    PROVE  /\ Ends(h, status, IF status \in {"404", "405"} THEN "generic" ELSE what)
           /\ Local(h)
  <1> DEFINE shown == IF status \in {"404", "405"} THEN "generic" ELSE what
  <1>1. Send(h, [status |-> status, body |-> <<shown>>])
    BY DEF Page, Written
  <1> HIDE DEF shown
  <1>2. Ends(h, status, shown) /\ Local(h)
    BY <1>1, SendEnds
  <1> QED  BY <1>2 DEF shown

\* The codes of the API.
LEMMA Codes ==
    /\ connectError("notfound") = "NotFound" /\ connectError("invalid") = "InvalidArgument"
    /\ connectError("notconnected") = "FailedPrecondition" /\ connectError("internal") = "Internal"
  BY DEF connectError

\* What an error of the service is told as.
LEMMA FailsEnds ==
    ASSUME StoreInv, NEW h \in Handlers, NEW err \in {"notfound", "invalid", "notconnected", "internal"}, Fails(h, err)
    PROVE  /\ Local(h)
           /\ \E status, what :
                /\ Ends(h, status, what)
                /\ status \notin {"OK", "200", "303"}
                /\ status \in {"404", "NotFound"} => err = "notfound"
                /\ status = "InvalidArgument" => err = "invalid"
  <1>1. CASE req[h].surface = "api"
    <2>1. Send(h, [status |-> connectError(err), body |-> <<"error">>])
      BY <1>1 DEF Fails
    <2>2. Ends(h, connectError(err), "error") /\ Local(h)
      BY <2>1, SendEnds
    <2>3. /\ connectError(err) \notin {"OK", "200", "303"}
          /\ connectError(err) \in {"404", "NotFound"} => err = "notfound"
          /\ connectError(err) = "InvalidArgument" => err = "invalid"
      BY Codes
    <2> QED  BY <2>2, <2>3
  <1>2. CASE req[h].surface # "api" /\ err = "notfound"
    <2>1. Page(h, "404", "job not found")
      BY <1>2 DEF Fails
    <2>2. Ends(h, "404", "generic") /\ Local(h)
      BY <2>1, PageEnds
    <2> QED  BY <1>2, <2>2
  <1>3. CASE req[h].surface # "api" /\ err # "notfound"
    <2>1. Page(h, "500", "failed")
      BY <1>3 DEF Fails
    <2>2. Ends(h, "500", "failed") /\ Local(h)
      BY <2>1, PageEnds
    <2> QED  BY <2>2
  <1> QED  BY <1>1, <1>2, <1>3

\* The form's page is to be rendered.
LEMMA RenderStages ==
    ASSUME StoreInv, NEW h \in Handlers, NEW status, NEW msg, RenderIndex(h, status, msg)
    PROVE  pc'[h] = "index" /\ staged'[h].status = status /\ Local(h)
  <1> DEFINE s == [Nothing EXCEPT !.status = status, !.msg = msg]
  <1>1. s.status = status
    BY DEF Nothing
  <1> HIDE DEF s
  <1>2. pc' = [pc EXCEPT ![h] = "index"] /\ staged' = [staged EXCEPT ![h] = s] /\ reply' = reply
    BY DEF RenderIndex, s
  <1> QED  BY <1>1, <1>2 DEF Local, StoreInv

\* A step of h that touches neither the store, nor the counter, nor requests.
LEMMA LocalSteps ==
    ASSUME StoreInv, NEW h \in Handlers, Local(h),
           UNCHANGED <<server, templates, jobs, gone, launched, req, before, counted>>
    PROVE  Steps(h, {}) /\ (Made(h)' = Made(h))
  <1>1. Onward({})
    BY OnwardSame
  <1>2. Made(h)' = Made(h)
    BY DEF Made
  <1> QED  BY <1>1, <1>2 DEF Steps, Local, Still, StoreInv

\* A reply that promises nothing.
LEMMA ToldPlainly ==
    ASSUME NEW h \in Handlers, NEW status, NEW what, Ends(h, status, what),
           req'[h].op \in {"submit", "detail", "cancel"} => status \notin {"OK", "200", "303", "404", "NotFound"},
           req'[h].op = "submit" /\ status = "InvalidArgument" => h \notin DOMAIN jobs' \cup gone'
    PROVE  Told(h)'
  BY DEF Told, Ends

\* A handler that is done.
LEMMA DoneStage ==
    ASSUME NEW h \in Handlers, pc'[h] = "done", req'[h] \in Requests, before'[h] \subseteq DOMAIN jobs' \cup gone',
           req'[h].op = "submit" => Tallied(h)', Told(h)'
    PROVE  Stage(h)'
  BY DEF Stage, Places

\* A handler that is about to render the list of jobs.
LEMMA IndexStage ==
    ASSUME NEW h \in Handlers, pc'[h] = "index", req'[h] \in Requests, before'[h] \subseteq DOMAIN jobs' \cup gone',
           req'[h].op \in {"submit", "index"},
           req'[h].op = "submit" => Tallied(h)' /\ req'[h].surface = "web" /\ staged'[h].status = "400"
    PROVE  Stage(h)'
  BY DEF Stage, Places

\* Which path takes which method.
LEMMA Routes ==
    DOMAIN routes = {"index", "submit", "detail", "cancel", "answer"} /\ routes["submit"] = "POST"
  BY DEF routes

-----------------------------------------------------------------------------
(***************************************************************************)
(* The operations                                                          *)
(***************************************************************************)

LEMMA ReceiveOK ==
    ASSUME StoreInv, HandlersInv, NEW h \in Handlers, Receive(h)
    PROVE  Steps(h, {}) /\ Stage(h)'
  <1>1. PICK r \in Requests : /\ req' = [req EXCEPT ![h] = r] /\ before' = [before EXCEPT ![h] = DOMAIN jobs]
                              /\ IF r.surface = "web" THEN Web(h, r) ELSE Rpc(h, r)
    BY DEF Receive
  <1>2. /\ pc[h] = "idle" /\ UNCHANGED <<server, templates, jobs, gone, launched, counted>>
        /\ Stage(h)
    BY DEF Receive, world, HandlersInv
  <1>3. ~Made(h) /\ counted'[h] = << >> /\ ~Made(h)'
    BY <1>2 DEF Stage, Made
  <1>4. /\ req'[h] = r /\ before'[h] = DOMAIN jobs /\ DOMAIN req' = Handlers /\ DOMAIN before' = Handlers
        /\ \A g \in Handlers : g # h => req'[g] = req[g] /\ before'[g] = before[g]
    BY <1>1 DEF StoreInv
  <1>5. /\ req'[h] \in Requests /\ before'[h] \subseteq DOMAIN jobs' \cup gone' /\ h \notin DOMAIN jobs' \cup gone'
    BY <1>2, <1>3, <1>4 DEF Made
  <1>6. ASSUME Local(h) PROVE Steps(h, {})
    <2>1. Onward({})
      BY <1>2, OnwardSame
    <2> QED  BY <1>2, <1>4, <1>6, <2>1 DEF Steps, Local, Still, StoreInv
  <1>7. ASSUME ~Admitted(h)' PROVE Tallied(h)'
    BY <1>3, <1>7 DEF Tallied
  <1>8. ASSUME NEW status, NEW what, Ends(h, status, what), Local(h),
               r.op \in {"submit", "detail", "cancel"} => status \notin {"OK", "200", "303", "404", "NotFound"},
               r.op = "submit" => ~Admitted(h)'
        PROVE  Steps(h, {}) /\ Stage(h)'
    <2>1. Told(h)'
      BY <1>4, <1>5, <1>8, ToldPlainly
    <2> QED  BY <1>4, <1>5, <1>6, <1>7, <1>8, <2>1, DoneStage DEF Ends
  <1>9. ASSUME NEW msg, NEW status, RenderIndex(h, status, msg), r.op \in {"submit", "index"},
               r.op = "submit" => ~Admitted(h)' /\ status = "400" /\ r.surface = "web"
        PROVE  Steps(h, {}) /\ Stage(h)'
    <2>1. pc'[h] = "index" /\ staged'[h].status = status /\ Local(h)
      BY <1>9, RenderStages
    <2> QED  BY <1>4, <1>5, <1>6, <1>7, <1>9, <2>1, IndexStage
  <1>10. ASSUME Accept(h, r), r.op \in Places \ {"idle", "create", "done"}, r.op = "submit" => Admitted(h)'
         PROVE  Steps(h, {}) /\ Stage(h)'
    <2>1. pc'[h] = r.op /\ Local(h)
      BY <1>10 DEF Accept, Local, StoreInv
    <2>2. Stage(h)'
      BY <1>3, <1>4, <1>5, <1>10, <2>1 DEF Stage, Places
    <2> QED  BY <1>6, <2>1, <2>2
  <1>11. CASE r.surface = "web"
    <2>1. CASE CrossOrigin(r)
      <3>1. Ends(h, "403", "cross-origin") /\ Local(h)
        BY <1>1, <1>11, <2>1, SendEnds DEF Web
      <3> QED  BY <1>4, <1>8, <1>11, <2>1, <3>1 DEF Admitted
    <2>2. CASE ~CrossOrigin(r) /\ r.op \notin DOMAIN routes
      <3>1. \E what : Ends(h, "404", what) /\ Local(h)
        BY <1>1, <1>11, <2>2, PageEnds DEF Web
      <3> QED  BY <1>8, <2>2, <3>1, Routes
    <2>3. CASE ~CrossOrigin(r) /\ r.op \in DOMAIN routes /\ routes[r.op] # r.method
      <3>1. \E what : Ends(h, "405", what) /\ Local(h)
        BY <1>1, <1>11, <2>3, PageEnds DEF Web
      <3>2. r.op = "submit" => ~Admitted(h)'
        BY <1>4, <1>11, <2>3, Routes DEF Admitted
      <3> QED  BY <1>8, <3>1, <3>2
    <2>4. CASE ~CrossOrigin(r) /\ r.op \in DOMAIN routes /\ routes[r.op] = r.method
      <3>1. CASE Malformed(r)
        <4>1. \E what : Ends(h, "400", what) /\ Local(h)
          BY <1>1, <1>11, <2>4, <3>1, PageEnds DEF Web
        <4>2. r.op # "submit"
          BY <3>1 DEF Malformed
        <4> QED  BY <1>8, <4>1, <4>2
      <3>2. CASE ~Malformed(r) /\ r.op = "answer" /\ ~r.form
        <4>1. \E what : Ends(h, "400", what) /\ Local(h)
          BY <1>1, <1>11, <2>4, <3>2, PageEnds DEF Web
        <4> QED  BY <1>8, <3>2, <4>1
      <3>3. CASE ~Malformed(r) /\ r.op = "submit" /\ (~r.form \/ Blank(r.p))
        <4>1. \E msg : RenderIndex(h, "400", msg)
          BY <1>1, <1>11, <2>4, <3>3 DEF Web
        <4>2. ~Admitted(h)'
          BY <1>4, <1>11, <3>3 DEF Admitted
        <4> QED  BY <1>9, <1>11, <3>3, <4>1, <4>2
      <3>4. CASE ~Malformed(r) /\ r.op = "index"
        <4>1. RenderIndex(h, "200", "")
          BY <1>1, <1>11, <2>4, <3>4 DEF Web
        <4> QED  BY <1>9, <3>4, <4>1
      <3>5. CASE /\ ~Malformed(r) /\ r.op # "index" /\ (r.op = "answer" => r.form)
                 /\ r.op = "submit" => r.form /\ ~Blank(r.p)
        <4>1. Accept(h, r)
          BY <1>1, <1>11, <2>4, <3>5 DEF Web
        <4>2. r.op \in Places \ {"idle", "create", "done"}
          BY <2>4, Routes DEF Places
        <4>3. r.op = "submit" => Admitted(h)'
          BY <1>4, <1>11, <2>4, <3>5, Routes DEF Admitted
        <4> QED  BY <1>10, <4>1, <4>2, <4>3
      <3> QED  BY <3>1, <3>2, <3>3, <3>4, <3>5
    <2> QED  BY <2>1, <2>2, <2>3, <2>4
  <1>12. CASE r.surface # "web"
    <2>1. CASE r.op \notin procedures
      <3>1. Ends(h, "404", "default") /\ Local(h)
        BY <1>1, <1>12, <2>1, SendEnds DEF Rpc
      <3> QED  BY <1>8, <2>1, <3>1 DEF procedures
    <2>2. CASE r.op \in procedures /\ Malformed(r)
      <3>1. Ends(h, "InvalidArgument", "error") /\ Local(h)
        BY <1>1, <1>12, <2>2, SendEnds, Codes DEF Rpc
      <3>2. r.op # "submit"
        BY <2>2 DEF Malformed
      <3> QED  BY <1>8, <3>1, <3>2
    <2>3. CASE r.op \in procedures /\ ~Malformed(r)
      <3>1. Accept(h, r)
        BY <1>1, <1>12, <2>3 DEF Rpc
      <3>2. r.op \in Places \ {"idle", "create", "done"}
        BY <2>3 DEF Places, procedures
      <3>3. Admitted(h)'
        BY <1>4, <1>12 DEF Admitted
      <3> QED  BY <1>10, <3>1, <3>2, <3>3
    <2> QED  BY <2>1, <2>2, <2>3
  <1> QED  BY <1>11, <1>12

\* What a submission that failed leaves: its client is told, or will be.
LEMMA SubmitFailsStage ==
    ASSUME StoreInv, NEW h \in Handlers, NEW err \in {"invalid", "internal"}, SubmitFails(h, err),
           req'[h] = req[h], req[h] \in Requests, req[h].op = "submit",
           before'[h] \subseteq DOMAIN jobs' \cup gone', Tallied(h)',
           err = "invalid" => h \notin DOMAIN jobs' \cup gone'
    PROVE  Stage(h)' /\ Local(h)
  <1>1. CASE req[h].surface = "api"
    <2>1. Fails(h, err)
      BY <1>1 DEF SubmitFails
    <2>2. Local(h)
      BY <2>1, FailsEnds
    <2>3. PICK status, what : /\ Ends(h, status, what)
                              /\ status \notin {"OK", "200", "303"}
                              /\ status \in {"404", "NotFound"} => err = "notfound"
                              /\ status = "InvalidArgument" => err = "invalid"
      BY <2>1, FailsEnds
    <2>4. Told(h)'
      BY <2>3, ToldPlainly
    <2> QED  BY <2>2, <2>3, <2>4, DoneStage DEF Ends
  <1>2. CASE req[h].surface # "api"
    <2>1. RenderIndex(h, "400", err) /\ req[h].surface = "web"
      BY <1>2, RequestsAssumption DEF SubmitFails
    <2>2. pc'[h] = "index" /\ staged'[h].status = "400" /\ Local(h)
      BY <2>1, RenderStages
    <2> QED  BY <2>1, <2>2, IndexStage
  <1> QED  BY <1>1, <1>2

\* The counter after h has added to it.
LEMMA CountOnce ==
    ASSUME StoreInv, NEW h \in Handlers, counted[h] = << >>, NEW profile, NEW outcome, Count(h, profile, outcome)
    PROVE  /\ Len(counted'[h]) = 1 /\ DOMAIN counted'[h] = {1}
           /\ counted'[h][1].profile = profile /\ counted'[h][1].outcome = outcome
           /\ DOMAIN counted' = Handlers /\ \A g \in Handlers : g # h => counted'[g] = counted[g]
  <1> DEFINE e == [profile |-> profile, outcome |-> outcome]
  <1>1. e.profile = profile /\ e.outcome = outcome
    OBVIOUS
  <1> HIDE DEF e
  <1>2. counted' = [counted EXCEPT ![h] = Append(counted[h], e)]
    BY DEF Count, StoreInv, e
  <1>3. counted'[h] = Append(<< >>, e)
    BY <1>2 DEF StoreInv
  <1>4. Append(<< >>, e) = <<e>>
    OBVIOUS
  <1>5. Len(<<e>>) = 1 /\ <<e>>[1] = e /\ DOMAIN <<e>> = {1}
    OBVIOUS
  <1> QED  BY <1>1, <1>2, <1>3, <1>4, <1>5 DEF StoreInv

\* A config comes from a request or from a profile there is.
LEMMA ProfileExists ==
    ASSUME NEW h \in Handlers, Alone(h).ok
    PROVE  Alone(h).profile \in DOMAIN server.templates \cup {""}
  BY DEF Alone, resolveConfig, Refused

LEMMA ResolveOK ==
    ASSUME StoreInv, HandlersInv, NEW h \in Handlers, Resolve(h)
    PROVE  Steps(h, {}) /\ Stage(h)'
  <1> DEFINE p == Params(h)
             got == Alone(h)
  <1>1. got = resolveConfig(Params(h), templates, server.def)
    BY DEF Alone, StoreInv
  <1>2. /\ pc[h] = "submit" /\ UNCHANGED <<server, jobs, gone, launched, req, before>>
        /\ \/ ~got.ok /\ Fail(h, "", "rejected", "invalid") /\ UNCHANGED templates
           \/ /\ got.ok /\ ~validateRepoScope(p.scope)
              /\ SubmitFails(h, "invalid") /\ UNCHANGED <<templates, counted>>
           \/ /\ got.ok /\ validateRepoScope(p.scope)
              /\ templates' = TemplatesAfter(got.profile, Filled(got.cfg, h, p, server.sv))
              /\ IF Preflight(got.cfg, h, p, server.sv)
                 THEN /\ pc' = [pc EXCEPT ![h] = "create"]
                      /\ staged' = [staged EXCEPT ![h] = [Nothing EXCEPT !.profile = got.profile,
                                      !.cfg = <<Filled(got.cfg, h, p, server.sv)>>]]
                      /\ UNCHANGED <<reply, counted>>
                 ELSE Fail(h, got.profile, "rejected", "invalid")
    BY <1>1 DEF Resolve, handling
  <1>3. templates' = templates
    BY <1>2 DEF TemplatesAfter
  <1>4. Onward({})
    BY <1>2, <1>3, OnwardSame
  <1>5. Stage(h) /\ req'[h] = req[h] /\ server' = server
    BY <1>2 DEF HandlersInv
  <1>6. /\ counted[h] = << >> /\ req[h] \in Requests /\ req[h].op = "submit" /\ Admitted(h)
        /\ before'[h] \subseteq DOMAIN jobs' \cup gone' /\ ~Made(h) /\ ~Made(h)'
    BY <1>2, <1>5 DEF Stage, Made
  <1>7. h \notin DOMAIN jobs' \cup gone' /\ h \notin launched'
    BY <1>6 DEF Made
  <1>8. Params(h)' = p /\ Alone(h)' = got /\ Admitted(h)' = Admitted(h) /\ OwnFilled(h)' = OwnFilled(h)
    BY <1>5, SameRequest
  <1>9. ASSUME Local(h), DOMAIN counted' = Handlers, \A g \in Handlers : g # h => counted'[g] = counted[g]
        PROVE  Steps(h, {})
    BY <1>2, <1>4, <1>9 DEF Steps, Local, Still, StoreInv
  <1> HIDE DEF p, got
  <1>10. ASSUME NEW profile \in DOMAIN server.templates \cup {""}, Fail(h, profile, "rejected", "invalid"),
                ~got.ok \/ (validateRepoScope(p.scope) /\ ~Preflight(got.cfg, h, p, server.sv))
         PROVE  Steps(h, {}) /\ Stage(h)'
    <2>1. Count(h, profile, "rejected") /\ SubmitFails(h, "invalid")
      BY <1>10 DEF Fail
    <2>2. /\ Len(counted'[h]) = 1 /\ DOMAIN counted'[h] = {1}
          /\ counted'[h][1].profile = profile /\ counted'[h][1].outcome = "rejected"
          /\ DOMAIN counted' = Handlers /\ \A g \in Handlers : g # h => counted'[g] = counted[g]
      BY <1>6, <2>1, CountOnce
    <2>3. Tallied(h)'
      BY <1>5, <1>6, <1>7, <1>8, <1>10, <2>2 DEF Tallied
    <2>4. Stage(h)' /\ Local(h)
      BY <1>5, <1>6, <1>7, <2>1, <2>3, SubmitFailsStage
    <2> QED  BY <1>9, <2>2, <2>4
  <1>11. CASE ~got.ok /\ Fail(h, "", "rejected", "invalid")
    BY <1>10, <1>11
  <1>12. CASE got.ok /\ ~validateRepoScope(p.scope) /\ SubmitFails(h, "invalid") /\ UNCHANGED counted
    <2>1. Tallied(h)'
      BY <1>6, <1>8, <1>12 DEF Tallied
    <2>2. Stage(h)' /\ Local(h)
      BY <1>5, <1>6, <1>7, <1>12, <2>1, SubmitFailsStage
    <2> QED  BY <1>9, <1>12, <2>2 DEF StoreInv
  <1>13. CASE /\ got.ok /\ validateRepoScope(p.scope)
              /\ ~Preflight(got.cfg, h, p, server.sv) /\ Fail(h, got.profile, "rejected", "invalid")
    <2>1. got.profile \in DOMAIN server.templates \cup {""}
      BY <1>13, ProfileExists DEF got
    <2> QED  BY <1>10, <1>13, <2>1
  <1>14. CASE /\ got.ok /\ validateRepoScope(p.scope)
              /\ pc' = [pc EXCEPT ![h] = "create"]
              /\ staged' = [staged EXCEPT ![h] = [Nothing EXCEPT !.profile = got.profile,
                              !.cfg = <<Filled(got.cfg, h, p, server.sv)>>]]
              /\ UNCHANGED <<reply, counted>>
    <2> DEFINE c == Filled(got.cfg, h, p, server.sv)
               n == [Nothing EXCEPT !.profile = got.profile, !.cfg = <<c>>]
    <2>1. c = OwnFilled(h)
      BY DEF OwnFilled, got, p
    <2> HIDE DEF c
    <2>2. n.profile = got.profile /\ n.cfg = <<c>>
      BY DEF Nothing
    <2> HIDE DEF n
    <2>3. staged' = [staged EXCEPT ![h] = n]
      BY <1>14 DEF n, c
    <2>4. pc'[h] = "create" /\ staged'[h] = n /\ Local(h) /\ counted' = counted
      BY <1>14, <2>3 DEF StoreInv, Local
    <2>5. Stage(h)'
      BY <1>5, <1>6, <1>8, <1>14, <2>1, <2>2, <2>4 DEF Stage, Places, p, got
    <2> QED  BY <1>9, <2>4, <2>5 DEF StoreInv
  <1> QED  BY <1>2, <1>11, <1>12, <1>13, <1>14

\* The record is written: the job of h comes to be, as the request asks.
LEMMA PutOnward ==
    ASSUME StoreInv, NEW h \in Handlers, Stage(h), pc[h] = "create", Put(h),
           UNCHANGED <<server, templates, gone, req>>, launched' = launched \/ launched' = launched \cup {h}
    PROVE  /\ Onward({h}) /\ h \in DOMAIN jobs' /\ DOMAIN jobs \subseteq DOMAIN jobs'
           /\ jobs'[h] = Record(h) /\ Recorded(jobs'[h]) /\ OwnJob(h)'
  <1>1. ~Made(h)
    BY DEF Stage
  <1>2. /\ DOMAIN jobs' = DOMAIN jobs \cup {h} /\ jobs'[h] = Record(h)
        /\ \A id \in DOMAIN jobs : id # h => jobs'[id] = jobs[id]
    BY DEF Put
  <1>3. h \notin DOMAIN jobs
    BY <1>1 DEF Made
  <1>4. \A id \in DOMAIN jobs : Kept(jobs[id], jobs'[id])
    BY <1>2, <1>3, KeptSame DEF StoreInv
  <1>5. Onward({h})
    BY <1>1, <1>2, <1>4 DEF Onward
  <1>6. /\ Alone(h).ok /\ staged[h].cfg = <<OwnFilled(h)>> /\ staged[h].profile = Alone(h).profile
    BY DEF Stage
  <1> DEFINE c == staged[h].cfg[1]
             p == staged[h].profile
             o == Params(h).scope
  <1>7. c = OwnFilled(h) /\ p = Alone(h).profile
    BY <1>6
  <1>8. Record(h) = [status |-> "queued", cfg |-> c, profile |-> p, scope |-> o, cancel |-> FALSE]
    BY DEF Record
  <1> HIDE DEF c, p, o
  <1>9. /\ Record(h).status = "queued" /\ Record(h).cfg = c /\ Record(h).profile = p
        /\ Record(h).scope = o /\ Record(h).cancel = FALSE
    BY <1>8
  <1>10. Recorded(Record(h))
    BY <1>8, <1>9 DEF Recorded, Statuses
  <1>11. Params(h)' = Params(h) /\ Alone(h)' = Alone(h) /\ OwnFilled(h)' = OwnFilled(h)
    BY SameRequest
  <1>12. OwnJob(h)'
    BY <1>2, <1>6, <1>7, <1>9, <1>11 DEF OwnJob, o
  <1> QED  BY <1>2, <1>5, <1>10, <1>12

LEMMA SubmittedOK ==
    ASSUME StoreInv, HandlersInv, NEW h \in Handlers, Submitted(h)
    PROVE  Steps(h, {h}) /\ Stage(h)'
  <1>1. /\ pc[h] = "create" /\ Put(h) /\ Count(h, staged[h].profile, "accepted")
        /\ launched' = launched \cup {h} /\ UNCHANGED <<server, templates, gone, req, before>>
        /\ Stage(h)
    BY DEF Submitted, handling, HandlersInv
  <1>2. /\ Onward({h}) /\ h \in DOMAIN jobs' /\ DOMAIN jobs \subseteq DOMAIN jobs'
        /\ Recorded(jobs'[h]) /\ OwnJob(h)'
    BY <1>1, PutOnward
  <1>3. /\ counted[h] = << >> /\ req[h] \in Requests /\ req[h].op = "submit" /\ Admitted(h)
        /\ before[h] \subseteq DOMAIN jobs \cup gone
        /\ Alone(h).ok /\ validateRepoScope(Params(h).scope) /\ staged[h].profile = Alone(h).profile
    BY <1>1 DEF Stage
  <1>4. /\ Len(counted'[h]) = 1 /\ DOMAIN counted'[h] = {1}
        /\ counted'[h][1].profile = staged[h].profile /\ counted'[h][1].outcome = "accepted"
        /\ DOMAIN counted' = Handlers /\ \A g \in Handlers : g # h => counted'[g] = counted[g]
    BY <1>1, <1>3, CountOnce
  <1>5. Params(h)' = Params(h) /\ Alone(h)' = Alone(h) /\ Admitted(h)' = Admitted(h)
    BY <1>1, SameRequest
  <1>6. Tallied(h)'
    BY <1>1, <1>3, <1>4, <1>5, ProfileExists DEF Tallied
  <1>7. PICK status, what : Ends(h, status, what) /\ Local(h) /\ status \in {"OK", "303"}
    <2>1. CASE req[h].surface = "api"
      <3>1. Send(h, [status |-> "OK", body |-> <<jobToProto(h, Record(h))>>])
        BY <2>1 DEF Submitted, Answer
      <3>2. Ends(h, "OK", jobToProto(h, Record(h))) /\ Local(h)
        BY <3>1, SendEnds
      <3> QED  BY <3>2
    <2>2. CASE req[h].surface # "api"
      <3>1. Page(h, "303", h)
        BY <2>2 DEF Submitted
      <3> QED  BY <3>1, PageEnds
    <2> QED  BY <2>1, <2>2
  <1>8. Told(h)'
    BY <1>1, <1>2, <1>3, <1>7 DEF Told, Ends
  <1>9. Stage(h)'
    BY <1>1, <1>2, <1>3, <1>6, <1>7, <1>8, DoneStage DEF Ends
  <1> QED  BY <1>1, <1>2, <1>4, <1>7, <1>9 DEF Steps, Local, Still, StoreInv

LEMMA CreateFailsOK ==
    ASSUME StoreInv, HandlersInv, NEW h \in Handlers, CreateFails(h)
    PROVE  (\E N : Steps(h, N)) /\ Stage(h)'
  <1>1. /\ pc[h] = "create" /\ UNCHANGED <<server, templates, gone, launched, req, before>>
        /\ Put(h) \/ jobs' = jobs
        /\ Fail(h, staged[h].profile, "failed", "internal") /\ Stage(h)
    BY DEF CreateFails, handling, HandlersInv
  <1>2. /\ counted[h] = << >> /\ req[h] \in Requests /\ req[h].op = "submit" /\ Admitted(h)
        /\ before[h] \subseteq DOMAIN jobs \cup gone
        /\ Alone(h).ok /\ validateRepoScope(Params(h).scope) /\ staged[h].profile = Alone(h).profile
        /\ h \notin launched
    BY <1>1 DEF Stage, Made
  <1>3. PICK N : /\ Onward(N) /\ N \subseteq {h} /\ DOMAIN jobs \subseteq DOMAIN jobs'
                 /\ \A g \in N : g \in DOMAIN jobs' => Recorded(jobs'[g]) /\ OwnJob(g)'
    <2>1. CASE Put(h)
      <3>1. Onward({h}) /\ DOMAIN jobs \subseteq DOMAIN jobs' /\ Recorded(jobs'[h]) /\ OwnJob(h)'
        BY <1>1, <2>1, PutOnward
      <3> QED  BY <3>1
    <2>2. CASE jobs' = jobs
      <3>1. Onward({})
        BY <1>1, <2>2, OnwardSame
      <3> QED  BY <2>2, <3>1
    <2> QED  BY <1>1, <2>1, <2>2
  <1>4. Count(h, staged[h].profile, "failed") /\ SubmitFails(h, "internal")
    BY <1>1 DEF Fail
  <1>5. /\ Len(counted'[h]) = 1 /\ DOMAIN counted'[h] = {1}
        /\ counted'[h][1].profile = staged[h].profile /\ counted'[h][1].outcome = "failed"
        /\ DOMAIN counted' = Handlers /\ \A g \in Handlers : g # h => counted'[g] = counted[g]
    BY <1>2, <1>4, CountOnce
  <1>6. Params(h)' = Params(h) /\ Alone(h)' = Alone(h) /\ Admitted(h)' = Admitted(h)
    BY <1>1, SameRequest
  <1>7. Tallied(h)'
    BY <1>1, <1>2, <1>5, <1>6, ProfileExists DEF Tallied
  <1>8. Stage(h)' /\ Local(h)
    BY <1>1, <1>2, <1>3, <1>4, <1>7, SubmitFailsStage
  <1> QED  BY <1>1, <1>3, <1>5, <1>8 DEF Steps, Local, Still, StoreInv

-----------------------------------------------------------------------------
\* The statuses on the wire.
LEMMA WireStatuses ==
    /\ statusToProto("queued") = "QUEUED" /\ statusToProto("launching") = "LAUNCHING"
    /\ statusToProto("awaiting_harness") = "AWAITING_HARNESS" /\ statusToProto("running") = "RUNNING"
    /\ statusToProto("succeeded") = "SUCCEEDED" /\ statusToProto("failed") = "FAILED"
    /\ statusToProto("cancelled") = "CANCELLED"
  BY DEF statusToProto

\* A view shows no status but its job's.
LEMMA OneStatusShown ==
    ASSUME NEW st \in Statuses, NEW b, b.status \in {st, statusToProto(st)}, NEW s \in ShownOver(b)
    PROVE  s = st
  <1>1. s \in {"succeeded", "failed", "cancelled"} /\ b.status \in {s, statusToProto(s)}
    BY DEF ShownOver, Terminal
  <1>2. st \in {"queued", "launching", "awaiting_harness", "running", "succeeded", "failed", "cancelled"}
    BY DEF Statuses
  <1>3. CASE s = "succeeded"
    BY <1>1, <1>2, <1>3, WireStatuses
  <1>4. CASE s = "failed"
    BY <1>1, <1>2, <1>4, WireStatuses
  <1>5. CASE s = "cancelled"
    BY <1>1, <1>2, <1>5, WireStatuses
  <1> QED  BY <1>1, <1>3, <1>4, <1>5

\* What a client is shown of a job that is there is true.
LEMMA ViewsAreTrue ==
    ASSUME StoreInv, NEW id \in DOMAIN jobs
    PROVE  Shows(id, jobToProto(id, jobs[id])) /\ Shows(id, newJobDetail(id, jobs[id]))
  <1> DEFINE a == jobToProto(id, jobs[id])
             w == newJobDetail(id, jobs[id])
             st == jobs[id].status
  <1>1. st \in Statuses
    BY DEF StoreInv, Recorded
  <1>2. a.id = id /\ a.status = statusToProto(st) /\ w.id = id /\ w.status = st
    BY DEF jobToProto, newJobDetail
  <1> HIDE DEF a, w
  <1>3. (\A s \in ShownOver(a) : st = s) /\ (\A s \in ShownOver(w) : st = s)
    BY <1>1, <1>2, OneStatusShown
  <1>4. Shows(id, a) /\ Shows(id, w)
    BY <1>2, <1>3 DEF Shows
  <1> QED  BY <1>4 DEF a, w

\* A step that reads: nothing changes but the handler.
Reads(h) == UNCHANGED <<server, templates, jobs, gone, launched, counted, req, before>>

\* How a read that fails leaves its handler.
LEMMA ReadFails ==
    ASSUME StoreInv, NEW h \in Handlers, Stage(h), pc[h] \in {"index", "detail", "perms", "answer"}, Reads(h),
           NEW err \in {"notfound", "invalid", "notconnected", "internal"}, Fails(h, err),
           err = "notfound" => pc[h] = "answer" \/ req[h].id \notin DOMAIN jobs,
           err = "invalid" => pc[h] = "answer"
    PROVE  Steps(h, {}) /\ Stage(h)'
  <1>1. Local(h)
    BY FailsEnds
  <1>2. PICK status, what : /\ Ends(h, status, what)
                            /\ status \notin {"OK", "200", "303"}
                            /\ status \in {"404", "NotFound"} => err = "notfound"
                            /\ status = "InvalidArgument" => err = "invalid"
    BY FailsEnds
  <1>3. Steps(h, {})
    BY <1>1, LocalSteps DEF Reads
  <1>4. /\ req'[h] = req[h] /\ before'[h] = before[h] /\ req[h] \in Requests /\ before[h] \subseteq DOMAIN jobs \cup gone
        /\ pc[h] \in {"detail", "answer"} => req[h].op = pc[h]
        /\ pc[h] = "perms" => req[h].op \in {"detail", "perms"}
        /\ pc[h] = "index" => req[h].op \in {"submit", "index"}
        /\ pc[h] = "index" /\ req[h].op = "submit" => Tallied(h)
    BY DEF Stage, Reads
  <1>5. req[h].op = "submit" => Tallied(h)'
    <2>1. Params(h)' = Params(h) /\ Alone(h)' = Alone(h) /\ Admitted(h)' = Admitted(h)
      BY <1>4, SameRequest DEF Reads
    <2> QED  BY <1>4, <2>1 DEF Tallied, Reads
  <1>6. Told(h)'
    <2>1. status \in {"404", "NotFound"} /\ req[h].op \in {"detail", "cancel"} =>
            req[h].id \notin before[h] \/ req[h].id \in gone
      BY <1>2, <1>4
    <2>2. req[h].op = "submit" => status \notin {"InvalidArgument"}
      BY <1>2, <1>4
    <2> QED  BY <1>2, <1>4, <2>1, <2>2 DEF Told, Ends, Reads
  <1>7. Stage(h)'
    BY <1>2, <1>4, <1>5, <1>6, DoneStage DEF Ends, Reads
  <1> QED  BY <1>3, <1>7

\* How a read that succeeds leaves its handler.
LEMMA ReadEnds ==
    ASSUME StoreInv, NEW h \in Handlers, Stage(h), Reads(h), Local(h), pc[h] # "idle",
           NEW status, NEW what, Ends(h, status, what),
           req[h].op \in {"submit", "cancel"} => status \notin {"OK", "303", "404", "NotFound", "InvalidArgument"},
           req[h].op = "detail" => status \notin {"404", "NotFound"} /\ Shows(req[h].id, what),
           req[h].op = "submit" => Tallied(h)
    PROVE  Steps(h, {}) /\ Stage(h)'
  <1>1. Steps(h, {})
    BY LocalSteps DEF Reads
  <1>2. /\ req'[h] = req[h] /\ before'[h] = before[h] /\ req[h] \in Requests /\ before[h] \subseteq DOMAIN jobs \cup gone
    BY DEF Stage, Reads
  <1>3. req[h].op = "submit" => Tallied(h)'
    <2>1. Params(h)' = Params(h) /\ Alone(h)' = Alone(h) /\ Admitted(h)' = Admitted(h)
      BY <1>2, SameRequest DEF Reads
    <2> QED  BY <2>1 DEF Tallied, Reads
  <1>4. Told(h)'
    BY <1>2 DEF Told, Ends, Reads, Shows
  <1>5. Stage(h)'
    BY <1>2, <1>3, <1>4, DoneStage DEF Ends, Reads
  <1> QED  BY <1>1, <1>5

LEMMA ShowIndexOK ==
    ASSUME StoreInv, HandlersInv, NEW h \in Handlers, ShowIndex(h)
    PROVE  Steps(h, {}) /\ Stage(h)'
  <1>1. pc[h] = "index" /\ Reads(h) /\ Stage(h)
    BY DEF ShowIndex, Reads, world, handling, HandlersInv
  <1>2. /\ req[h].op \in {"submit", "index"}
        /\ req[h].op = "submit" => req[h].surface = "web" /\ staged[h].status = "400" /\ Tallied(h)
    BY <1>1 DEF Stage
  <1>3. CASE Fails(h, "internal")
    BY <1>1, <1>3, ReadFails
  <1>4. CASE req[h].surface = "api" /\ Answer(h, "jobs")
    <2>1. Ends(h, "OK", "jobs") /\ Local(h)
      BY <1>4, SendEnds DEF Answer
    <2> QED  BY <1>1, <1>2, <1>4, <2>1, ReadEnds
  <1>5. ASSUME NEW page, Page(h, staged[h].status, page)
        PROVE  Steps(h, {}) /\ Stage(h)'
    <2>1. PICK what : Ends(h, staged[h].status, what) /\ Local(h)
      BY <1>5, PageEnds
    <2> QED  BY <1>1, <1>2, <2>1, ReadEnds
  <1> QED  BY <1>3, <1>4, <1>5 DEF ShowIndex

LEMMA GetJobOK ==
    ASSUME StoreInv, HandlersInv, NEW h \in Handlers, GetJob(h)
    PROVE  Steps(h, {}) /\ Stage(h)'
  <1>1. pc[h] = "detail" /\ Reads(h) /\ Stage(h)
    BY DEF GetJob, Reads, world, handling, HandlersInv
  <1> DEFINE id == req[h].id
             a == jobToProto(id, jobs[id])
             w == newJobDetail(id, jobs[id])
  <1>2. req[h].op = "detail"
    BY <1>1 DEF Stage
  <1>3. \/ Fails(h, "internal")
        \/ id \notin DOMAIN jobs /\ Fails(h, "notfound")
        \/ id \in DOMAIN jobs /\ req[h].surface = "api" /\ Answer(h, a)
        \/ /\ id \in DOMAIN jobs /\ req[h].surface # "api"
           /\ pc' = [pc EXCEPT ![h] = "perms"]
           /\ staged' = [staged EXCEPT ![h] = [Nothing EXCEPT !.view = <<w>>]]
           /\ reply' = reply
    BY DEF GetJob, Found
  <1>4. id \in DOMAIN jobs => Shows(id, a) /\ Shows(id, w)
    BY ViewsAreTrue
  <1> HIDE DEF a, w
  <1>5. CASE Fails(h, "internal")
    BY <1>1, <1>5, ReadFails
  <1>6. CASE id \notin DOMAIN jobs /\ Fails(h, "notfound")
    BY <1>1, <1>6, ReadFails
  <1>7. CASE id \in DOMAIN jobs /\ Answer(h, a)
    <2>1. Ends(h, "OK", a) /\ Local(h)
      BY <1>7, SendEnds DEF Answer
    <2> QED  BY <1>1, <1>2, <1>4, <1>7, <2>1, ReadEnds
  <1>8. CASE /\ id \in DOMAIN jobs /\ req[h].surface # "api"
             /\ pc' = [pc EXCEPT ![h] = "perms"]
             /\ staged' = [staged EXCEPT ![h] = [Nothing EXCEPT !.view = <<w>>]]
             /\ reply' = reply
    <2> DEFINE n == [Nothing EXCEPT !.view = <<w>>]
    <2>1. n.view[1] = w
      BY DEF Nothing
    <2> HIDE DEF n
    <2>2. staged' = [staged EXCEPT ![h] = n]
      BY <1>8 DEF n
    <2>3. pc'[h] = "perms" /\ staged'[h].view[1] = w /\ Local(h)
      BY <1>8, <2>1, <2>2 DEF StoreInv, Local
    <2>4. Steps(h, {}) /\ Made(h)' = Made(h)
      BY <1>1, <2>3, LocalSteps DEF Reads
    <2>5. req[h].surface = "web" /\ req[h] \in Requests
      BY <1>1, <1>8, RequestsAssumption DEF Stage
    <2>6. ~Made(h)'
      BY <1>1, <2>4 DEF Stage
    <2>7. ShowsNext(id, w)
      BY <1>1, <1>4, <1>8 DEF Shows, ShowsNext, Reads
    <2>8. Stage(h)'
      BY <1>1, <1>2, <2>3, <2>5, <2>6, <2>7 DEF Stage, Places, Reads, Shows, ShowsNext
    <2> QED  BY <2>4, <2>8
  <1> QED  BY <1>3, <1>5, <1>6, <1>7, <1>8

LEMMA ShowDetailOK ==
    ASSUME StoreInv, HandlersInv, NEW h \in Handlers, ShowDetail(h)
    PROVE  Steps(h, {}) /\ Stage(h)'
  <1>1. pc[h] = "perms" /\ Reads(h) /\ Stage(h)
    BY DEF ShowDetail, Reads, world, handling, HandlersInv
  <1>2. /\ req[h].op \in {"detail", "perms"}
        /\ req[h].op = "detail" => req[h].surface = "web" /\ Shows(req[h].id, staged[h].view[1])
    BY <1>1 DEF Stage
  <1>3. CASE Fails(h, "internal")
    BY <1>1, <1>3, ReadFails
  <1>4. CASE req[h].surface = "api" /\ Answer(h, "permissions")
    <2>1. Ends(h, "OK", "permissions") /\ Local(h)
      BY <1>4, SendEnds DEF Answer
    <2> QED  BY <1>1, <1>2, <1>4, <2>1, ReadEnds
  <1>5. CASE Page(h, "200", staged[h].view[1])
    <2>1. Ends(h, "200", staged[h].view[1]) /\ Local(h)
      BY <1>5, PageEnds
    <2> QED  BY <1>1, <1>2, <2>1, ReadEnds
  <1> QED  BY <1>3, <1>4, <1>5 DEF ShowDetail

-----------------------------------------------------------------------------
\* A record that is replaced by one it may become.
LEMMA ReplaceOnward ==
    ASSUME StoreInv, NEW id \in DOMAIN jobs, NEW j, Kept(jobs[id], j), jobs' = [jobs EXCEPT ![id] = j],
           UNCHANGED <<server, templates, gone, launched>>
    PROVE  Onward({}) /\ DOMAIN jobs' = DOMAIN jobs /\ jobs'[id] = j
  <1>1. DOMAIN jobs' = DOMAIN jobs /\ jobs'[id] = j /\ \A g \in DOMAIN jobs : g # id => jobs'[g] = jobs[g]
    OBVIOUS
  <1>2. \A g \in DOMAIN jobs : Kept(jobs[g], jobs'[g])
    BY <1>1, KeptSame DEF StoreInv
  <1> QED  BY <1>1, <1>2 DEF Onward

\* What Cancel makes of a record.
LEMMA CancelledKept ==
    ASSUME NEW j, Recorded(j), NEW k \in Cancelled(j)
    PROVE  Kept(j, k) /\ (k.cancel = TRUE \/ Terminal(k.status))
  <1>1. CASE Terminal(j.status)
    <2>1. k = j
      BY <1>1 DEF Cancelled
    <2> QED  BY <1>1, <2>1, KeptSame
  <1>2. CASE ~Terminal(j.status)
    <2>1. k \in {[j EXCEPT !.cancel = TRUE], [j EXCEPT !.cancel = TRUE, !.status = "cancelled"]}
      BY <1>2, Zenon DEF Cancelled
    <2>2. /\ Kept(j, [j EXCEPT !.cancel = TRUE]) /\ [j EXCEPT !.cancel = TRUE].cancel = TRUE
          /\ Kept(j, [j EXCEPT !.cancel = TRUE, !.status = "cancelled"])
          /\ [j EXCEPT !.cancel = TRUE, !.status = "cancelled"].cancel = TRUE
      <3>1. "cancelled" \in Statuses
        BY DEF Statuses
      <3> QED  BY <1>2, <3>1, KeptStatus, Zenon
    <2> QED  BY <2>1, <2>2, Zenon
  <1> QED  BY <1>1, <1>2

\* A confirmation is the id, or a redirect to its page.
LEMMA ConfirmedEnds ==
    ASSUME StoreInv, NEW h \in Handlers, Confirmed(h)
    PROVE  Local(h) /\ \E status, what : Ends(h, status, what) /\ status \in {"OK", "303"}
  <1>1. CASE req[h].surface = "api"
    <2>1. Send(h, [status |-> "OK", body |-> <<req[h].id>>])
      BY <1>1 DEF Confirmed, Answer
    <2>2. Ends(h, "OK", req[h].id) /\ Local(h)
      BY <2>1, SendEnds
    <2> QED  BY <2>2
  <1>2. CASE req[h].surface # "api"
    <2>1. Page(h, "303", req[h].id)
      BY <1>2 DEF Confirmed
    <2> QED  BY <2>1, PageEnds
  <1> QED  BY <1>1, <1>2

LEMMA CancelOK ==
    ASSUME StoreInv, HandlersInv, NEW h \in Handlers, Cancel(h)
    PROVE  Steps(h, {}) /\ Stage(h)'
  <1> DEFINE id == req[h].id
  <1>1. /\ pc[h] = "cancel" /\ Stage(h)
        /\ UNCHANGED <<server, templates, gone, launched, counted, req, before>>
    BY DEF Cancel, handling, HandlersInv
  <1>2. /\ req[h].op = "cancel" /\ req[h] \in Requests /\ before[h] \subseteq DOMAIN jobs \cup gone
        /\ req'[h] = req[h] /\ before'[h] = before[h]
    BY <1>1 DEF Stage
  <1>3. \/ id \in DOMAIN jobs /\ (\E j \in Cancelled(jobs[id]) : jobs' = [jobs EXCEPT ![id] = j]) /\ Confirmed(h)
        \/ id \notin DOMAIN jobs /\ jobs' = jobs /\ Fails(h, "notfound")
        \/ /\ id \in DOMAIN jobs /\ (\E j \in Cancelled(jobs[id]) \cup {jobs[id]} : jobs' = [jobs EXCEPT ![id] = j])
           /\ Fails(h, "internal")
        \/ id \notin DOMAIN jobs /\ jobs' = jobs /\ Fails(h, "internal")
    BY DEF Cancel, Found
  <1> HIDE DEF id
  <1>4. id \in DOMAIN jobs => Recorded(jobs[id])
    BY DEF StoreInv
  <1>5. ASSUME Onward({}), Local(h) PROVE Steps(h, {})
    BY <1>1, <1>5 DEF Steps, Local, Still, StoreInv
  <1>6. ASSUME Onward({}), Local(h), Told(h)', pc'[h] = "done" PROVE Steps(h, {}) /\ Stage(h)'
    <2>1. before'[h] \subseteq DOMAIN jobs' \cup gone'
      BY <1>1, <1>2, <1>6 DEF Onward
    <2> QED  BY <1>2, <1>5, <1>6, <2>1, DoneStage
  <1>7. ASSUME Onward({}), NEW err \in {"notfound", "internal"}, Fails(h, err), err = "notfound" => id \notin DOMAIN jobs
        PROVE  Steps(h, {}) /\ Stage(h)'
    <2>1. Local(h)
      BY <1>7, FailsEnds
    <2>2. PICK status, what : /\ Ends(h, status, what)
                              /\ status \notin {"OK", "200", "303"}
                              /\ status \in {"404", "NotFound"} => err = "notfound"
      BY <1>7, FailsEnds
    <2>3. Told(h)'
      BY <1>1, <1>2, <1>7, <2>2 DEF Told, Ends, id
    <2> QED  BY <1>6, <1>7, <2>1, <2>2, <2>3 DEF Ends
  <1>8. CASE id \in DOMAIN jobs /\ (\E j \in Cancelled(jobs[id]) : jobs' = [jobs EXCEPT ![id] = j]) /\ Confirmed(h)
    <2>1. PICK j \in Cancelled(jobs[id]) : jobs' = [jobs EXCEPT ![id] = j]
      BY <1>8
    <2>2. Kept(jobs[id], j) /\ (j.cancel = TRUE \/ Terminal(j.status))
      BY <1>4, <1>8, CancelledKept
    <2>3. Onward({}) /\ DOMAIN jobs' = DOMAIN jobs /\ jobs'[id] = j
      BY <1>1, <1>8, <2>1, <2>2, ReplaceOnward
    <2>4. PICK status, what : Ends(h, status, what) /\ status \in {"OK", "303"}
      BY <1>8, ConfirmedEnds
    <2>5. Told(h)'
      BY <1>2, <1>8, <2>2, <2>3, <2>4 DEF Told, Ends, id
    <2> QED  BY <1>6, <1>8, <2>3, <2>4, <2>5, ConfirmedEnds DEF Ends
  <1>9. CASE id \notin DOMAIN jobs /\ jobs' = jobs /\ Fails(h, "notfound")
    <2>1. Onward({})
      BY <1>1, <1>9, OnwardSame
    <2> QED  BY <1>7, <1>9, <2>1
  <1>10. CASE /\ id \in DOMAIN jobs /\ (\E j \in Cancelled(jobs[id]) \cup {jobs[id]} : jobs' = [jobs EXCEPT ![id] = j])
              /\ Fails(h, "internal")
    <2>1. PICK j \in Cancelled(jobs[id]) \cup {jobs[id]} : jobs' = [jobs EXCEPT ![id] = j]
      BY <1>10
    <2>2. Kept(jobs[id], j)
      BY <1>4, <1>10, CancelledKept, KeptSame
    <2>3. Onward({})
      BY <1>1, <1>10, <2>1, <2>2, ReplaceOnward
    <2> QED  BY <1>7, <1>10, <2>3
  <1>11. CASE id \notin DOMAIN jobs /\ jobs' = jobs /\ Fails(h, "internal")
    <2>1. Onward({})
      BY <1>1, <1>11, OnwardSame
    <2> QED  BY <1>7, <1>11, <2>1
  <1> QED  BY <1>3, <1>8, <1>9, <1>10, <1>11

LEMMA AnswerPermissionOK ==
    ASSUME StoreInv, HandlersInv, NEW h \in Handlers, AnswerPermission(h)
    PROVE  Steps(h, {}) /\ Stage(h)'
  <1>1. pc[h] = "answer" /\ Reads(h) /\ Stage(h)
    BY DEF AnswerPermission, Reads, world, handling, HandlersInv
  <1>2. req[h].op = "answer"
    BY <1>1 DEF Stage
  <1>3. CASE Confirmed(h)
    <2>1. PICK status, what : Ends(h, status, what)
      BY <1>3, ConfirmedEnds
    <2>2. Local(h)
      BY <1>3, ConfirmedEnds
    <2> QED  BY <1>1, <1>2, <2>1, <2>2, ReadEnds
  <1>4. ASSUME NEW err \in {"notfound", "invalid", "notconnected", "internal"}, Fails(h, err)
        PROVE  Steps(h, {}) /\ Stage(h)'
    BY <1>1, <1>4, ReadFails
  <1> QED  BY <1>3, <1>4 DEF AnswerPermission

\* A step of nobody who serves a request.
LEMMA NobodySteps ==
    ASSUME StoreInv, HandlersInv, Onward({}), UNCHANGED <<req, before, pc, staged, reply, counted>>
    PROVE  StoreInv' /\ HandlersInv'
  <1>1. ASSUME NEW h \in Handlers PROVE Stage(h)'
    BY OthersStay DEF HandlersInv, Still
  <1>2. ASSUME NEW id \in DOMAIN jobs' PROVE id \in Handlers /\ Recorded(jobs'[id]) /\ OwnJob(id)'
    <2>1. id \in DOMAIN jobs /\ id \in Handlers /\ Kept(jobs[id], jobs'[id]) /\ OwnJob(id)
      BY <1>2 DEF Onward, StoreInv
    <2>2. Params(id)' = Params(id) /\ Alone(id)' = Alone(id) /\ OwnFilled(id)' = OwnFilled(id)
      BY <2>1, SameRequest DEF Onward
    <2>3. OwnJob(id)'
      BY <2>1, <2>2 DEF OwnJob, Kept
    <2> QED  BY <2>1, <2>3 DEF Kept
  <1> QED  BY <1>1, <1>2 DEF StoreInv, HandlersInv, Onward

LEMMA AdvanceOK ==
    ASSUME StoreInv, HandlersInv, NEW id \in Handlers, Advance(id)
    PROVE  StoreInv' /\ HandlersInv'
  <1>1. PICK status \in Statuses : jobs' = [jobs EXCEPT ![id].status = status]
    BY DEF Advance
  <1>2. /\ id \in DOMAIN jobs /\ ~Terminal(jobs[id].status) /\ Recorded(jobs[id])
        /\ UNCHANGED <<server, templates, gone, launched, req, before, pc, staged, reply, counted>>
    BY DEF Advance, handling, StoreInv
  <1> DEFINE j == [jobs[id] EXCEPT !.status = status]
  <1>3. Kept(jobs[id], j)
    BY <1>2, KeptStatus
  <1>4. jobs' = [jobs EXCEPT ![id] = j]
    BY <1>1
  <1> HIDE DEF j
  <1>5. Onward({})
    BY <1>2, <1>3, <1>4, ReplaceOnward
  <1> QED  BY <1>2, <1>5, NobodySteps

LEMMA DeleteJobOK ==
    ASSUME StoreInv, HandlersInv, NEW id \in Handlers, DeleteJob(id)
    PROVE  StoreInv' /\ HandlersInv'
  <1>1. /\ DOMAIN jobs' = DOMAIN jobs \ {id} /\ \A g \in DOMAIN jobs' : jobs'[g] = jobs[g]
    BY DEF DeleteJob, Restrict
  <1>2. /\ id \in DOMAIN jobs /\ gone' = gone \cup {id}
        /\ UNCHANGED <<server, templates, launched, req, before, pc, staged, reply, counted>>
    BY DEF DeleteJob, handling
  <1>3. \A g \in DOMAIN jobs' : Kept(jobs[g], jobs'[g])
    BY <1>1, KeptSame DEF StoreInv
  <1>4. Onward({})
    BY <1>1, <1>2, <1>3 DEF Onward
  <1> QED  BY <1>2, <1>4, NobodySteps

-----------------------------------------------------------------------------
(***************************************************************************)
(* The invariant holds throughout                                          *)
(***************************************************************************)

LEMMA RequestsInit ==
    ASSUME Init
    PROVE  StoreInv /\ HandlersInv
  <1>1. DOMAIN jobs = {} /\ gone = {} /\ launched = {}
    BY DEF Init
  <1>2. StoreInv
    BY <1>1 DEF Init, StoreInv
  <1>3. ASSUME NEW h \in Handlers PROVE Stage(h)
    <2>1. pc[h] = "idle" /\ counted[h] = << >> /\ ~Made(h)
      BY <1>1 DEF Init, Made
    <2> QED  BY <2>1 DEF Stage, Places
  <1> QED  BY <1>2, <1>3 DEF HandlersInv

LEMMA RequestsStep ==
    ASSUME StoreInv, HandlersInv, [Next]_vars
    PROVE  StoreInv' /\ HandlersInv'
  <1>1. ASSUME NEW h \in Handlers, Receive(h) PROVE StoreInv' /\ HandlersInv'
    BY <1>1, ReceiveOK, HandlerKeeps
  <1>2. ASSUME NEW h \in Handlers, Resolve(h) PROVE StoreInv' /\ HandlersInv'
    BY <1>2, ResolveOK, HandlerKeeps
  <1>3. ASSUME NEW h \in Handlers, Submitted(h) PROVE StoreInv' /\ HandlersInv'
    BY <1>3, SubmittedOK, HandlerKeeps
  <1>4. ASSUME NEW h \in Handlers, CreateFails(h) PROVE StoreInv' /\ HandlersInv'
    BY <1>4, CreateFailsOK, HandlerKeeps
  <1>5. ASSUME NEW h \in Handlers, ShowIndex(h) PROVE StoreInv' /\ HandlersInv'
    BY <1>5, ShowIndexOK, HandlerKeeps
  <1>6. ASSUME NEW h \in Handlers, GetJob(h) PROVE StoreInv' /\ HandlersInv'
    BY <1>6, GetJobOK, HandlerKeeps
  <1>7. ASSUME NEW h \in Handlers, ShowDetail(h) PROVE StoreInv' /\ HandlersInv'
    BY <1>7, ShowDetailOK, HandlerKeeps
  <1>8. ASSUME NEW h \in Handlers, Cancel(h) PROVE StoreInv' /\ HandlersInv'
    BY <1>8, CancelOK, HandlerKeeps
  <1>9. ASSUME NEW h \in Handlers, AnswerPermission(h) PROVE StoreInv' /\ HandlersInv'
    BY <1>9, AnswerPermissionOK, HandlerKeeps
  <1>10. CASE UNCHANGED vars
    <2>1. Onward({})
      BY <1>10, OnwardSame DEF vars
    <2> QED  BY <1>10, <2>1, NobodySteps DEF vars
  <1> QED  BY <1>1, <1>2, <1>3, <1>4, <1>5, <1>6, <1>7, <1>8, <1>9, <1>10, AdvanceOK, DeleteJobOK DEF Next

LEMMA RequestsInv == Spec => [](StoreInv /\ HandlersInv)
  <1>1. Init => StoreInv /\ HandlersInv
    BY RequestsInit
  <1>2. StoreInv /\ HandlersInv /\ [Next]_vars => (StoreInv /\ HandlersInv)'
    BY RequestsStep
  <1> QED  BY <1>1, <1>2, PTL DEF Spec

-----------------------------------------------------------------------------
(***************************************************************************)
(* The sandbox that names only its isolation                               *)
(***************************************************************************)

\* What the defaults leave of a config, and what they put into it.
FilledFrom(f, c, p, sv) ==
    /\ f.prompt = IF p.prompt = "" THEN c.prompt ELSE p.prompt
    /\ f.mode = c.mode /\ f.provider = c.provider /\ f.maxTurns = c.maxTurns /\ f.timeout = c.timeout
    /\ ~isK8sExecutor(c.executor.type) => f.executor = c.executor
    /\ isK8sExecutor(c.executor.type) => f.executor = Defaulted(c.executor, sv.executor)

LEMMA FilledFields ==
    ASSUME NEW c, IsConfig(c), NEW id, NEW p, NEW sv, NEW f, f = Filled(c, id, p, sv)
    PROVE  FilledFrom(f, c, p, sv)
  <1> DEFINE pr == IF p.prompt = "" THEN c.prompt ELSE p.prompt
             m == c.mode
             pv == c.provider
             mt == c.maxTurns
             to == c.timeout
             ex == c.executor
             tl == c.tools
             tr == c.trace
             own == [c EXCEPT !.runId = id, !.prompt = IF p.prompt = "" THEN @ ELSE p.prompt]
             d == sv.executor
             dx == Defaulted(ex, d)
             Cf(r, q, e, t) == [runId |-> r, prompt |-> q, mode |-> m, provider |-> pv, maxTurns |-> mt,
                                timeout |-> to, executor |-> e, tools |-> tl, trace |-> t]
  <1>1. c = Cf(c.runId, c.prompt, ex, tr)
    BY DEF IsConfig
  <1> HIDE DEF m, pv, mt, to, ex, tl, tr, d
  <1>2. own = Cf(id, pr, ex, tr)
    <2> DEFINE k == [c EXCEPT !.runId = id]
    <2>1. k = Cf(id, c.prompt, ex, tr)
      BY <1>1
    <2>2. own = [k EXCEPT !.prompt = pr]
      BY <2>1
    <2> HIDE DEF k, pr
    <2>3. [k EXCEPT !.prompt = pr] = Cf(id, pr, ex, tr)
      BY ONLY <2>1
    <2> QED  BY <2>2, <2>3
  <1>3. applyExecutorDefaults(own, d) = Cf(id, pr, IF isK8sExecutor(ex.type) THEN dx ELSE ex, tr)
    <2>1. own.executor = ex
      BY <1>2
    <2>2. CASE ~isK8sExecutor(ex.type)
      BY <1>2, <2>1, <2>2 DEF applyExecutorDefaults
    <2>3. CASE isK8sExecutor(ex.type)
      <3>1. applyExecutorDefaults(own, d) = [own EXCEPT !.executor = dx]
        BY <2>1, <2>3 DEF applyExecutorDefaults
      <3> HIDE DEF dx, own, pr
      <3>2. [own EXCEPT !.executor = dx] = Cf(id, pr, dx, tr)
        BY ONLY <1>2
      <3> QED  BY <2>3, <3>1, <3>2
    <2> QED  BY <2>2, <2>3
  <1> HIDE DEF own, dx
  <1> DEFINE e == IF isK8sExecutor(ex.type) THEN dx ELSE ex
             t == Or(tr, sv.trace)
  <1>4. Filled(c, id, p, sv) = applyTraceEmitterDefault(Cf(id, pr, e, tr), sv.trace)
    BY <1>3 DEF Filled, own, d, e
  <1> HIDE DEF e, pr
  <1>5. applyTraceEmitterDefault(Cf(id, pr, e, tr), sv.trace) = Cf(id, pr, e, t)
    BY DEF applyTraceEmitterDefault
  <1> HIDE DEF t
  <1>6. f.prompt = pr /\ f.mode = m /\ f.provider = pv /\ f.maxTurns = mt /\ f.timeout = to /\ f.executor = e
    BY <1>4, <1>5
  <1> QED  BY <1>6 DEF e, dx, pr, m, pv, mt, to, ex, d, FilledFrom

\* A sandbox of which only the isolation is named passes once the server has
\* put its own image, namespace, account and runtime into it.
Suffices(ex, d) ==
    /\ ex = Bare(ex) /\ isK8sExecutor(ex.type) /\ ex.network = "none"
    /\ d.image # "" /\ d.namespace # "" /\ (d.runtime = "" \/ validK8sRuntime(d.runtime))
    /\ ex.type = "k8s-sandbox" => d.runtime \in {"", "gvisor"}

Runs(x) == validateExecutor(x) /\ x.type # ""

LEMMA BareSandbox ==
    ASSUME NEW ex, NEW d, Suffices(ex, d)
    PROVE  Runs(Defaulted(ex, d))
  <1> DEFINE t == ex.type
             n == ex.network
             no == ""
             Sb(i, s, a, r) == [type |-> t, image |-> i, namespace |-> s, account |-> a, runtime |-> r,
                                workspace |-> no, network |-> n, proxy |-> no]
  <1>1. ex = Sb(no, no, no, no)
    <2> DEFINE k == [NoExecutor EXCEPT !.type = t]
    <2>1. ex = [k EXCEPT !.network = n]
      BY DEF Bare, Suffices
    <2>2. NoExecutor = [type |-> no, image |-> no, namespace |-> no, account |-> no,
                        runtime |-> no, workspace |-> no, network |-> no, proxy |-> no]
      BY DEF NoExecutor
    <2> HIDE DEF t, n, no
    <2>3. k = [type |-> t, image |-> no, namespace |-> no, account |-> no,
               runtime |-> no, workspace |-> no, network |-> no, proxy |-> no]
      BY ONLY <2>2
    <2> HIDE DEF k
    <2>4. [k EXCEPT !.network = n] = Sb(no, no, no, no)
      BY ONLY <2>3
    <2> QED  BY <2>1, <2>4
  <1> DEFINE i == d.image
             s == d.namespace
             a == d.account
             r == d.runtime
  <1>2. n = "none" /\ isK8sExecutor(t) /\ i # "" /\ s # "" /\ (r = "" \/ validK8sRuntime(r))
        /\ (t = "k8s-sandbox" => r \in {"", "gvisor"})
    BY DEF Suffices
  <1>3. Defaulted(ex, d) = [[[[ex EXCEPT !.image = Or(ex.image, i)] EXCEPT !.namespace = Or(ex.namespace, s)]
                               EXCEPT !.account = Or(ex.account, a)] EXCEPT !.runtime = Or(ex.runtime, r)]
    BY <1>1 DEF Defaulted
  <1> HIDE DEF t, n, i, s, a, r
  <1>4. /\ Or(ex.image, i) = i /\ Or(ex.namespace, s) = s /\ Or(ex.account, a) = a /\ Or(ex.runtime, r) = r
    BY <1>1 DEF Or
  <1> HIDE DEF no
  <1>5. Defaulted(ex, d) = [[[[ex EXCEPT !.image = i] EXCEPT !.namespace = s] EXCEPT !.account = a] EXCEPT !.runtime = r]
    BY <1>3, <1>4
  <1>6. [[[[ex EXCEPT !.image = i] EXCEPT !.namespace = s] EXCEPT !.account = a] EXCEPT !.runtime = r] = Sb(i, s, a, r)
    <2>1. [ex EXCEPT !.image = i] = Sb(i, no, no, no)
      BY ONLY <1>1
    <2>2. ASSUME NEW k, k = Sb(i, no, no, no) PROVE [k EXCEPT !.namespace = s] = Sb(i, s, no, no)
      BY ONLY <2>2
    <2>3. ASSUME NEW k, k = Sb(i, s, no, no) PROVE [k EXCEPT !.account = a] = Sb(i, s, a, no)
      BY ONLY <2>3
    <2>4. ASSUME NEW k, k = Sb(i, s, a, no) PROVE [k EXCEPT !.runtime = r] = Sb(i, s, a, r)
      BY ONLY <2>4
    <2> QED  BY <2>1, <2>2, <2>3, <2>4
  <1>7. LET x == Sb(i, s, a, r)
        IN  /\ x.type = t /\ x.image = i /\ x.namespace = s /\ x.runtime = r
            /\ x.workspace = no /\ x.network = n /\ x.proxy = no
    OBVIOUS
  <1>8. Defaulted(ex, d) = Sb(i, s, a, r)
    BY <1>5, <1>6
  <1>9. validateExecutor(Sb(i, s, a, r))
    BY <1>2, <1>7 DEF validateExecutor, no
  <1>10. Sb(i, s, a, r).type # ""
    BY <1>2, <1>7 DEF isK8sExecutor
  <1> QED  BY <1>8, <1>9, <1>10 DEF Runs

\* A config that is found is a config.
LEMMA AloneIsConfig ==
    ASSUME StoreInv, NEW h \in Handlers, req[h] \in Requests, Alone(h).ok
    PROVE  IsConfig(Alone(h).cfg)
  <1>1. IsSubmission(req[h].p) /\ \A name \in DOMAIN server.templates : IsConfig(server.templates[name])
    BY RequestsAssumption DEF StoreInv
  <1>2. Params(h).json = req[h].p.json
    BY <1>1 DEF Params, IsSubmission
  <1>3. Params(h).json # << >> => IsConfig(Params(h).json[1].cfg)
    BY <1>1, <1>2 DEF IsSubmission
  <1>4. \/ Params(h).json # << >> /\ Alone(h).cfg = Params(h).json[1].cfg
        \/ \E name \in DOMAIN server.templates : Alone(h).cfg = server.templates[name]
    BY DEF Alone, resolveConfig, Refused
  <1> QED  BY <1>1, <1>3, <1>4

\* If the rest of a config is sound, so is the whole with a sandbox of which
\* only the isolation is named.
LEMMA BarePreflight ==
    ASSUME NEW c, IsConfig(c), NEW id, NEW p, NEW sv, Suffices(c.executor, sv.executor),
           Preflight([c EXCEPT !.executor = [NoExecutor EXCEPT !.type = "local"]], id, p, sv)
    PROVE  Preflight(c, id, p, sv)
  <1> DEFINE loc == [NoExecutor EXCEPT !.type = "local"]
             l == [c EXCEPT !.executor = loc]
             f == Filled(c, id, p, sv)
             g == Filled(l, id, p, sv)
  <1>1. loc.type = "local" /\ ~isK8sExecutor(loc.type)
    BY DEF NoExecutor, isK8sExecutor
  <1> HIDE DEF loc
  <1>2. /\ l.prompt = c.prompt /\ l.mode = c.mode /\ l.provider = c.provider /\ l.maxTurns = c.maxTurns
        /\ l.timeout = c.timeout /\ l.executor = loc /\ l.tools = c.tools
    BY DEF IsConfig
  <1>3. IsConfig(l)
    <2> DEFINE r == c.runId
               q == c.prompt
               m == c.mode
               pv == c.provider
               mt == c.maxTurns
               to == c.timeout
               ex == c.executor
               tl == c.tools
               tr == c.trace
               Cf(e) == [runId |-> r, prompt |-> q, mode |-> m, provider |-> pv, maxTurns |-> mt,
                         timeout |-> to, executor |-> e, tools |-> tl, trace |-> tr]
    <2>1. c = Cf(ex)
      BY DEF IsConfig
    <2> HIDE DEF r, q, m, pv, mt, to, ex, tl, tr
    <2>2. [c EXCEPT !.executor = loc] = Cf(loc)
      BY ONLY <2>1
    <2>3. IsConfig(Cf(loc))
      BY DEF IsConfig
    <2> QED  BY <2>2, <2>3
  <1>4. validateRunConfig(g) /\ validateControlPlaneTools(l.tools, sv.memory)
    BY DEF Preflight, loc
  <1> HIDE DEF l, f, g
  <1>5. FilledFrom(g, l, p, sv) /\ FilledFrom(f, c, p, sv)
    <2>1. g = Filled(l, id, p, sv) /\ f = Filled(c, id, p, sv)
      BY DEF f, g
    <2> QED  BY <1>3, <2>1, FilledFields
  <1>6. f.executor = Defaulted(c.executor, sv.executor)
    BY <1>5 DEF FilledFrom, Suffices
  <1>7. Runs(Defaulted(c.executor, sv.executor))
    BY BareSandbox
  <1>8. validateExecutor(f.executor) /\ f.executor.type # ""
    BY <1>6, <1>7 DEF Runs
  <1>9. /\ f.prompt = g.prompt /\ f.mode = g.mode /\ f.provider = g.provider
        /\ f.maxTurns = g.maxTurns /\ f.timeout = g.timeout
    BY <1>2, <1>5 DEF FilledFrom
  <1>10. validateRunConfig(f)
    BY <1>4, <1>8, <1>9 DEF validateRunConfig
  <1> QED  BY <1>2, <1>4, <1>10 DEF Preflight, f

-----------------------------------------------------------------------------
(***************************************************************************)
(* The theorems                                                            *)
(***************************************************************************)

\* However many submissions are under way at once, and whatever becomes of the
\* jobs, the store has every job with the config its own request asks for:
\* no Submit writes into the template that another one copies (profiles.go, Get).
THEOREM ConfigsAreOwn == Spec => []OwnConfig
  <1>1. StoreInv => OwnConfig
    BY DEF StoreInv, OwnJob, OwnConfig, Alone, OwnFilled
  <1> QED  BY <1>1, RequestsInv, PTL

\* Every submission that reaches Service.Submit is counted exactly once, under
\* a profile there is and the outcome it had (submit.go, fail).
THEOREM SubmissionsAreCounted == Spec => []SubmissionsCounted
  <1>1. StoreInv /\ HandlersInv => SubmissionsCounted
    <2> SUFFICES ASSUME HandlersInv, NEW h \in Handlers, Submits(h)
                 PROVE  IF ~Reached(h) \/ (Alone(h).ok /\ ~validateRepoScope(Params(h).scope))
                        THEN counted[h] = << >>
                        ELSE /\ Len(counted[h]) = 1
                             /\ counted[h][1].profile \in DOMAIN server.templates \cup {""}
                             /\ counted[h][1].outcome = "accepted" <=> h \in launched
                             /\ counted[h][1].outcome = "rejected" => h \notin DOMAIN jobs \cup gone
      BY DEF SubmissionsCounted
    <2>1. Tallied(h) /\ (Reached(h) <=> Admitted(h))
      BY DEF HandlersInv, Stage, Submits, Done, Reached, Admitted
    <2> QED  BY <2>1 DEF Tallied
  <1> QED  BY <1>1, RequestsInv, PTL

\* What a client of the API or of the pages was told stays true of the store,
\* however its request was interleaved with others and with the job's own life.
THEOREM ClientsAreToldTheTruth == Spec => []RepliesAreTrue
  <1>1. StoreInv /\ HandlersInv => RepliesAreTrue
    <2> SUFFICES ASSUME HandlersInv PROVE RepliesAreTrue
      OBVIOUS
    <2>1. ASSUME NEW h \in Handlers, Done(h) PROVE Told(h)
      BY <2>1 DEF HandlersInv, Stage, Done
    <2>2. ASSUME NEW h \in Handlers, Done(h),
                 req[h].op = "detail", reply[h].status \in {"OK", "200"}
          PROVE  /\ reply[h].body[1].id = req[h].id /\ req[h].id \in DOMAIN jobs \cup gone
                 /\ \A s \in ShownOver(reply[h].body[1]) : req[h].id \in DOMAIN jobs => jobs[req[h].id].status = s
      BY <2>1, <2>2 DEF Told, Shows
    <2>3. ASSUME NEW h \in Handlers, Done(h),
                 req[h].op = "cancel", reply[h].status \in {"OK", "303"}, req[h].id \in DOMAIN jobs
          PROVE  jobs[req[h].id].cancel \/ Terminal(jobs[req[h].id].status)
      BY <2>1, <2>3 DEF Told
    <2>4. ASSUME NEW h \in Handlers, Done(h)
          PROVE  /\ Len(reply[h].body) = 1
                 /\ req[h].op = "submit" /\ reply[h].status \in {"OK", "303"} =>
                      h \in launched \cap (DOMAIN jobs \cup gone)
                 /\ req[h].op = "submit" /\ reply[h].status = "InvalidArgument" => h \notin DOMAIN jobs \cup gone
                 /\ req[h].op \in {"detail", "cancel"} /\ reply[h].status \in {"404", "NotFound"} =>
                      req[h].id \notin before[h] \/ req[h].id \in gone
      BY <2>1, <2>4 DEF Told
    <2> QED  BY <2>2, <2>3, <2>4, Zenon DEF RepliesAreTrue
  <1> QED  BY <1>1, RequestsInv, PTL

\* On a server with an image and a namespace of its own, whatever its profiles
\* and settings, a submission that names only the isolation of its sandbox is
\* never refused for what it leaves out (executor.go, applyExecutorDefaults
\* before validateExecutor).
THEOREM IsolationIsEnough == Spec => []IsolationSuffices
  <1>1. StoreInv /\ HandlersInv => IsolationSuffices
    <2> SUFFICES ASSUME StoreInv, HandlersInv, NEW h \in Handlers,
                        Reached(h), Alone(h).ok, validateRepoScope(Params(h).scope),
                        isK8sExecutor(Alone(h).cfg.executor.type),
                        Alone(h).cfg.executor = Bare(Alone(h).cfg.executor),
                        Alone(h).cfg.executor.network = "none",
                        server.sv.executor.image # "", server.sv.executor.namespace # "",
                        Preflight([Alone(h).cfg EXCEPT !.executor = [NoExecutor EXCEPT !.type = "local"]],
                                  h, Params(h), server.sv),
                        Alone(h).cfg.executor.type = "k8s-sandbox" =>
                            server.sv.executor.runtime \in {"", "gvisor"},
                        NEW i \in DOMAIN counted[h], counted[h][i].outcome = "rejected"
                 PROVE  FALSE
      BY Zenon DEF IsolationSuffices
    <2> DEFINE c == Alone(h).cfg
    <2>1. Tallied(h) /\ Admitted(h) /\ req[h] \in Requests
      BY DEF HandlersInv, Stage, Submits, Done, Reached, Admitted
    <2>2. ~Preflight(c, h, Params(h), server.sv)
      BY <2>1 DEF Tallied
    <2>3. IsConfig(c)
      BY <2>1, AloneIsConfig
    <2>4. server.sv.executor.runtime = "" \/ validK8sRuntime(server.sv.executor.runtime)
      BY RequestsAssumption DEF StoreInv
    <2>5. Suffices(c.executor, server.sv.executor)
      BY <2>4 DEF Suffices
    <2> HIDE DEF c
    <2>6. Preflight([c EXCEPT !.executor = [NoExecutor EXCEPT !.type = "local"]], h, Params(h), server.sv)
      BY Zenon DEF c
    <2>7. Preflight(c, h, Params(h), server.sv)
      BY ONLY <2>3, <2>5, <2>6, BarePreflight, Zenon
    <2> QED  BY <2>2, <2>7
  <1> QED  BY <1>1, RequestsInv, PTL

=============================================================================
