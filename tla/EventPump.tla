----------------------------- MODULE EventPump -----------------------------
(***************************************************************************)
(* The event pump of one harness stream (internal/controlplane/pump.go),   *)
(* and the goroutines that serve its memory calls.  The shutdown that      *)
(* waits for them is in Server.                                            *)
(*                                                                         *)
(* Event n of the stream is received[n]; it is one of                      *)
(*                                                                         *)
(*   text     text_delta, buffered and recorded with its neighbours        *)
(*   plain    recorded as it is: heartbeat, tool_call, warning, ...        *)
(*   ready    a second ready, ignored                                      *)
(*   token    sandbox_token_request                                        *)
(*   call     tool_result_request for a memory tool the run declared       *)
(*   foreign  tool_result_request for any other tool                       *)
(*                                                                         *)
(* The pump handles an event in one step: its appends and sends are in the *)
(* order of the code, and a memory call in flight can only add its own     *)
(* answer between them.  A text is its event number, not its bytes.        *)
(*                                                                         *)
(* A definition directly above another one with the same parameters is a   *)
(* faulty variant of it: PROJECT.json names the property that tells the    *)
(* two apart.                                                              *)
(***************************************************************************)
EXTENDS Naturals, Sequences, FiniteSets

CONSTANTS
    Ids,            \* request ids of memory calls
    Other,          \* the id of a request that is no memory call
    Oversized,      \* a request id longer than maxRequestIDBytes
    MaxEvents,      \* bound on the events of the stream
    MaxInFlight,    \* maxInFlightMemory (4 in the code)
    MaxCalls,       \* maxMemoryCalls (1000), 0 without a memory backend
    MaxTokens,      \* maxSandboxTokenRequests (8), 0 if the run may not have tokens
    MaxFaults       \* bound on failed appends

ASSUME PumpAssumption ==
    /\ Oversized \notin Ids \cup {Other}
    /\ {MaxEvents, MaxInFlight, MaxCalls, MaxTokens, MaxFaults} \subseteq Nat

VARIABLES
    received,   \* the events handled so far
    deltas,     \* buffered texts
    timeline,   \* what was appended: [kind, evs], kind "event" or "answer"
    lost,       \* events, and answers, whose append failed
    slots,      \* memoryInFlight
    seen,       \* memoryRequests
    calls,      \* memoryCalls
    tokens,     \* sandboxTokens: tokens minted
    gpc,        \* goroutine of a memory call: event number -> "backend", "answer", "release"
    backend,    \* events whose call reached the backend
    answers,    \* answers given to each event, delivered or not
    live,       \* the pump is receiving; when it is not, the session is closed
    faults

pumpVars == <<received, deltas, slots, seen, calls, tokens, live>>
callVars == <<gpc, backend>>
vars == <<pumpVars, timeline, lost, callVars, answers, faults>>

Init ==
    /\ received = <<>> /\ deltas = <<>> /\ timeline = <<>>
    /\ lost = {}
    /\ slots = 0 /\ seen = {} /\ calls = 0 /\ tokens = 0
    /\ gpc = <<>> /\ backend = {}
    /\ answers = [n \in 1 .. MaxEvents |-> 0]
    /\ live = TRUE
    /\ faults = 0

\* The number of the event that is being handled.
Now == Len(received) + 1

-----------------------------------------------------------------------------
(***************************************************************************)
(* Appending                                                               *)
(***************************************************************************)

\* What flushDeltas appends.
FlushDeltas(buffer) == IF buffer = <<>> THEN <<>> ELSE <<[kind |-> "event", evs |-> buffer]>>

Recorded(kind, n) == <<[kind |-> kind, evs |-> <<n>>]>>

\* A request that is refused at once, and its refusal.
RequestThenAnswer(n) == Recorded("event", n) \o Recorded("answer", n)

\* The appends of one step, in order.  Each is best-effort: one that fails
\* is logged and the entry is missing.
AppendAll(entries) ==
    \/ timeline' = timeline \o entries /\ UNCHANGED <<lost, faults>>
    \/ \E i \in DOMAIN entries :
          /\ faults < MaxFaults /\ faults' = faults + 1
          /\ timeline' = timeline \o SubSeq(entries, 1, i - 1)
                                  \o SubSeq(entries, i + 1, Len(entries))
          /\ lost' = lost \cup {entries[i]}

-----------------------------------------------------------------------------
(***************************************************************************)
(* eventPump.handle                                                        *)
(***************************************************************************)

Receiving == live /\ Now <= MaxEvents

Receive(kind, id) == received' = Append(received, [kind |-> kind, id |-> id])

Answered(n) == answers' = [answers EXCEPT ![n] = @ + 1]

\* text_delta: buffered, and flushed when the buffer is large or old.
TextDelta ==
    /\ Receiving
    /\ Receive("text", Oversized)
    /\ \/ deltas' = Append(deltas, Now) /\ UNCHANGED <<timeline, lost, faults>>
       \/ deltas' = <<>> /\ AppendAll(FlushDeltas(Append(deltas, Now)))
    /\ UNCHANGED <<slots, seen, calls, tokens, live, callVars, answers>>

\* An event that is recorded and needs no answer; a second ready is neither.
PlainEventUnflushed(kind) ==
    /\ Receiving
    /\ Receive(kind, Oversized)
    /\ AppendAll(IF kind = "ready" THEN <<>> ELSE Recorded("event", Now))
    /\ UNCHANGED <<deltas, slots, seen, calls, tokens, live, callVars, answers>>
PlainEvent(kind) ==
    /\ Receiving
    /\ Receive(kind, Oversized)
    /\ deltas' = <<>>
    /\ AppendAll(FlushDeltas(deltas) \o IF kind = "ready" THEN <<>> ELSE Recorded("event", Now))
    /\ UNCHANGED <<slots, seen, calls, tokens, live, callVars, answers>>

\* The run has not used up its tokens.
MayMint == tokens < MaxTokens

\* sandbox_token_request: a token while the run is below its limit, which
\* Mint may still fail to make, a refusal otherwise.  An oversized id is not
\* answered.
TokenRequest(id) ==
    /\ Receiving
    /\ Receive("token", id)
    /\ deltas' = <<>>
    /\ AppendAll(FlushDeltas(deltas) \o Recorded("event", Now))
    /\ IF id = Oversized THEN UNCHANGED answers ELSE Answered(Now)
    /\ tokens' = IF id # Oversized /\ MayMint THEN tokens + 1 ELSE tokens
    /\ UNCHANGED <<slots, seen, calls, live, callVars>>

\* admitMemoryCall
AdmitRepeated(kind, id) == kind = "call" /\ calls < MaxCalls /\ slots < MaxInFlight
AdmitMemoryCall(kind, id) ==
    /\ kind = "call"
    /\ id \notin seen
    /\ calls < MaxCalls
    /\ slots < MaxInFlight

\* tool_result_request: an admitted call gets a goroutine, any other is
\* refused at once, and the refusal recorded.
ToolResultRequest(kind, id) ==
    /\ Receiving
    /\ Receive(kind, id)
    /\ deltas' = <<>>
    /\ \/ /\ id = Oversized
          /\ AppendAll(FlushDeltas(deltas) \o Recorded("event", Now))
          /\ UNCHANGED <<slots, seen, calls, callVars, answers>>
       \/ /\ id # Oversized /\ ~AdmitMemoryCall(kind, id)
          /\ AppendAll(FlushDeltas(deltas) \o RequestThenAnswer(Now))
          /\ Answered(Now)
          /\ UNCHANGED <<slots, seen, calls, callVars>>
       \/ /\ id # Oversized /\ AdmitMemoryCall(kind, id)
          /\ AppendAll(FlushDeltas(deltas) \o Recorded("event", Now))
          /\ slots' = slots + 1
          /\ seen' = seen \cup {id}
          /\ calls' = calls + 1
          /\ gpc' = [n \in DOMAIN gpc \cup {Now} |-> IF n = Now THEN "backend" ELSE gpc[n]]
          /\ UNCHANGED <<backend, answers>>
    /\ UNCHANGED <<tokens, live>>

\* done, or the end of the stream: the buffer is flushed, the job settled
\* (JobLifecycle), the session closed.
StreamEnds ==
    /\ live
    /\ live' = FALSE
    /\ deltas' = <<>>
    /\ AppendAll(FlushDeltas(deltas))
    /\ UNCHANGED <<received, slots, seen, calls, tokens, callVars, answers>>

-----------------------------------------------------------------------------
(***************************************************************************)
(* The goroutine of a memory call.  CallTimeout ends the backend's part;   *)
(* a panic there is recovered and answered like a failure.                 *)
(***************************************************************************)

GoroutineAt(n, site) == n \in DOMAIN gpc /\ gpc[n] = site

\* The client's Search or Save, if the input is valid: what fails or exceeds
\* CallTimeout may or may not have reached the backend.
CallBackend(n) == backend' \in {backend, backend \cup {n}}

\* memory.Fulfil.  Whatever happens, there is an answer for the harness.
FulfilSilently(n) ==
    /\ GoroutineAt(n, "backend")
    /\ \E site \in {"answer", "release"} : gpc' = [gpc EXCEPT ![n] = site]
    /\ UNCHANGED <<pumpVars, timeline, lost, backend, answers, faults>>
Fulfil(n) ==
    /\ GoroutineAt(n, "backend")
    /\ CallBackend(n)
    /\ gpc' = [gpc EXCEPT ![n] = "answer"]
    /\ UNCHANGED <<pumpVars, timeline, lost, answers, faults>>

\* sendToolResult: the answer is recorded also when the session is closed.
SendToolResultLive(n) ==
    /\ live /\ GoroutineAt(n, "answer")
    /\ Answered(n)
    /\ AppendAll(Recorded("answer", n))
    /\ gpc' = [gpc EXCEPT ![n] = "release"]
    /\ UNCHANGED <<pumpVars, backend>>
SendToolResult(n) ==
    /\ GoroutineAt(n, "answer")
    /\ Answered(n)
    /\ AppendAll(Recorded("answer", n))
    /\ gpc' = [gpc EXCEPT ![n] = "release"]
    /\ UNCHANGED <<pumpVars, backend>>

\* The deferred release of the slot.
ReleaseForgotten(n) == slots' = slots
Release(n) == slots' = slots - 1

Finish(n) ==
    /\ GoroutineAt(n, "release")
    /\ Release(n)
    /\ gpc' = [m \in DOMAIN gpc \ {n} |-> gpc[m]]
    /\ UNCHANGED <<received, deltas, seen, calls, tokens, live, timeline, lost,
                   backend, answers, faults>>

-----------------------------------------------------------------------------
CallStep == \E n \in 1 .. MaxEvents : Fulfil(n) \/ SendToolResult(n) \/ Finish(n)

Next ==
    \/ TextDelta
    \/ \E kind \in {"plain", "ready"} : PlainEvent(kind)
    \/ \E id \in {Other, Oversized} : TokenRequest(id) \/ ToolResultRequest("foreign", id)
    \/ \E id \in Ids : ToolResultRequest("call", id)
    \/ StreamEnds
    \/ CallStep

Spec == Init /\ [][Next]_vars

(***************************************************************************)
(* Goroutines run, the backend answers within CallTimeout, and a harness   *)
(* that stays reads what it is sent.                                       *)
(***************************************************************************)
Fairness ==
    WF_vars(CallStep)

FairSpec == Spec /\ Fairness

-----------------------------------------------------------------------------
(***************************************************************************)
(* Properties                                                              *)
(***************************************************************************)

Entry == [kind : {"event", "answer"}, evs : Seq(1 .. MaxEvents)]

\* Every variable has its type; the counters respect the limits of a run.
TypeOK ==
    /\ received \in Seq([kind : {"text", "plain", "ready", "token", "call", "foreign"},
                         id   : Ids \cup {Other, Oversized}])
    /\ deltas \in Seq(1 .. MaxEvents)
    /\ timeline \in Seq(Entry) /\ \A e \in lost : e \in Entry
    /\ slots \in 0 .. MaxInFlight
    /\ seen \subseteq Ids
    /\ calls \in 0 .. MaxCalls /\ tokens \in 0 .. MaxTokens
    /\ DOMAIN gpc \subseteq 1 .. MaxEvents /\ backend \subseteq 1 .. MaxEvents
    /\ \A n \in DOMAIN gpc : gpc[n] \in {"backend", "answer", "release"}
    /\ answers \in [1 .. MaxEvents -> Nat]
    /\ live \in BOOLEAN
    /\ faults \in 0 .. MaxFaults

\* The numbers in a list of events, and a list in ascending order.
Numbers(evs) == {evs[k] : k \in DOMAIN evs}
Ascends(evs) == \A k, l \in DOMAIN evs : k < l => evs[k] < evs[l]

\* Harness event n is in an entry of tl; in an entry that was lost.
OnRecord(n, tl) == \E i \in DOMAIN tl : tl[i].kind = "event" /\ n \in Numbers(tl[i].evs)
Lost(n, gone) == \E e \in gone : e.kind = "event" /\ n \in Numbers(e.evs)

\* The entry of a request, given its answer's.
RequestOf(e) == [kind |-> "event", evs |-> e.evs]

\* The harness events of tl are in ascending order; its answers stand behind
\* their requests.
Ordered(tl) ==
    /\ \A i \in DOMAIN tl : Ascends(tl[i].evs)
    /\ \A h, i \in DOMAIN tl :
          h < i /\ tl[h].kind = "event" /\ tl[i].kind = "event" =>
             \A m \in Numbers(tl[h].evs), n \in Numbers(tl[i].evs) : m < n
Backed(tl, gone) ==
    \A i \in DOMAIN tl : tl[i].kind = "answer" =>
        RequestOf(tl[i]) \in gone \/ \E h \in 1 .. i - 1 : tl[h] = RequestOf(tl[i])

\* The timeline tl, followed by the buffer, is the stream rec without its
\* repeated readys and without what is in the entries gone.
Follows(tl, buffer, gone, rec) ==
    /\ Ordered(tl) /\ Ascends(buffer) /\ Backed(tl, gone)
    /\ \A m \in 1 .. MaxEvents, n \in Numbers(buffer) : OnRecord(m, tl) => m < n
    /\ \A n \in 1 .. MaxEvents :
          /\ Lost(n, gone) => n <= Len(rec)
          /\ OnRecord(n, tl) \/ n \in Numbers(buffer) <=>
                n <= Len(rec) /\ rec[n].kind # "ready" /\ ~Lost(n, gone)

\* The timeline holds each recorded event once and in stream order, also when
\* texts are coalesced and answers come in between, and an answer stands
\* behind its request.  An append that fails loses its own entry only.
TimelineFollowsStream == Follows(timeline, deltas, lost, received)

\* A tool_result_request is answered exactly once: by now, or by the
\* goroutine that is working on it.
OneAnswer ==
    \A n \in 1 .. Len(received) :
        LET request == received[n].kind \in {"call", "foreign", "token"}
                         /\ received[n].id # Oversized
            working == GoroutineAt(n, "backend") \/ GoroutineAt(n, "answer")
        IN  answers[n] = IF request /\ ~working THEN 1 ELSE 0

\* A slot is taken for each goroutine and given back when it ends: the run
\* never has more calls in flight than allowed, and can always use them all.
SlotPerCall == slots = Cardinality(DOMAIN gpc) /\ slots <= MaxInFlight

\* The backend is called at most once for a request id.
OncePerId ==
    \A m, n \in backend : received[m].id = received[n].id => m = n

\* Every request the pump has accepted is answered, also after the stream has
\* ended.
EveryCallAnswered == \A n \in 1 .. MaxEvents : n \in DOMAIN gpc ~> answers[n] = 1

=============================================================================
