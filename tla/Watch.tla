------------------------------- MODULE Watch -------------------------------
(***************************************************************************)
(* One job's timeline and the clients that watch it: AppendEvent,          *)
(* ReadEvents, WatchEvents and DeleteJob of both stores, Service.Watch,    *)
(* and the WatchJob RPC and SSE endpoint that relay it, with clients that  *)
(* lose their connection and resume after the last event they received.    *)
(*                                                                         *)
(* Writers are the goroutines that append one event each; Settler is the   *)
(* one that settles the record and then appends the terminal               *)
(* status_change.  Over Redis another writer may append one as well: a     *)
(* launcher or reaper whose closure ran in a transaction attempt that lost *)
(* the EXEC still believes it moved the job (JobLifecycle checks that).    *)
(* An event is its ID and whether it is a terminal status_change           *)
(* (isTerminalStatusEvent); types, payloads and heartbeats are left out.   *)
(*                                                                         *)
(* An ID is <<millis, seq>>.  The in-memory store takes the millis from    *)
(* the event's own timestamp, which its writer read before the append;     *)
(* Redis assigns increasing IDs, so there they are <<0, seq>>.             *)
(*                                                                         *)
(* A definition directly above another one with the same parameters is a   *)
(* faulty variant of it: PROJECT.json names the property that tells the    *)
(* two apart.                                                              *)
(***************************************************************************)
EXTENDS Naturals, Sequences, FiniteSets

CONSTANTS
    Writers, Settler,
    Clients,
    MaxLen,         \* cap of the timeline
    Slack,          \* room of a watcher's buffer beyond MaxLen (64 in the code)
    PageSize,       \* events per ReadEvents (500 in a replay, 100 in a Redis poll)
    MaxClock,       \* bound on the clock
    MaxResumes,     \* bound on reconnections of a client
    MaxFaults,      \* bound on failed store calls
    Retention       \* whether the reaper deletes settled jobs

ASSUME WatchAssumption ==
    /\ Settler \in Writers
    /\ MaxLen \in Nat \ {0} /\ PageSize \in Nat \ {0}
    /\ Slack \in Nat /\ MaxClock \in Nat /\ MaxResumes \in Nat /\ MaxFaults \in Nat
    /\ Retention \in BOOLEAN

VARIABLES
    store,      \* "redis" or "mem", fixed when the server starts
    settled,    \* the record's status is terminal
    deleted,    \* DeleteJob has removed the job
    log,        \* the timeline
    seq,        \* last sequence number given out
    clock,
    wpc,        \* writer: "idle", "stamped", "checked" (job exists, Redis), "done"
    stamp,      \* the timestamp a writer read for its event
    misled,     \* writers that announce a terminal status they did not put on record
    pc,         \* client: "away", "open", "live", "replay", "eof", "error"
    cursor,     \* ID after which the watch, or its next resume, continues
    pend,       \* read from the store or queued by it, not yet sent to the client
    got,        \* what the client has received over all its connections
    watching,   \* clients with a watcher in the in-memory store
    found,      \* clients whose ReadEvents has seen that the job exists (Redis)
    resumes,
    faults,
    lapses      \* "backdated": an event was appended with an older time than one before it;
                \* "overflow": the full buffer of a watcher cost it an event;
                \* "trimmed": the cap took the terminal event off the timeline

recordVars == <<store, settled, deleted>>
logVars    == <<log, seq, lapses>>
writerVars == <<wpc, stamp, misled>>
clientVars == <<pc, cursor, pend, got, watching, found, resumes>>
vars       == <<recordVars, logVars, clock, writerVars, clientVars, faults>>

Init ==
    /\ store \in {"redis", "mem"}
    /\ settled = FALSE /\ deleted = FALSE
    /\ log = <<>> /\ seq = 0 /\ lapses = {}
    /\ clock = 0
    /\ wpc = [w \in Writers |-> "idle"] /\ stamp = [w \in Writers |-> 0]
    /\ misled = {}
    /\ pc = [c \in Clients |-> "away"]
    /\ cursor = [c \in Clients |-> <<0, 0>>]      \* the empty after_id
    /\ pend = [c \in Clients |-> <<>>]
    /\ got = [c \in Clients |-> <<>>]
    /\ watching = {} /\ found = {}
    /\ resumes = [c \in Clients |-> 0]
    /\ faults = 0

-----------------------------------------------------------------------------
(***************************************************************************)
(* The timeline                                                            *)
(***************************************************************************)

\* streamIDLess
IDLessOrEqual(a, b) == a[1] < b[1] \/ (a[1] = b[1] /\ a[2] <= b[2])
IDLess(a, b) == a[1] < b[1] \/ (a[1] = b[1] /\ a[2] < b[2])

\* The positions of the timeline whose events are strictly after id.
Later(id) == {i \in DOMAIN log : IDLess(id, log[i].id)}

\* How many of the positions P there are up to i.
Rank(P, i) == Cardinality({j \in P : j <= i})

\* The events strictly after id, in the order of the timeline.
EventsAfter(id) ==
    [k \in 1 .. Cardinality(Later(id)) |-> log[CHOOSE i \in Later(id) : Rank(Later(id), i) = k]]

\* ReadEvents
ReadEvents(id) ==
    LET evs == EventsAfter(id) IN SubSeq(evs, 1, IF PageSize < Len(evs) THEN PageSize ELSE Len(evs))

\* isTerminalStatusEvent
AnyStatusEvent(ev) == ev.terminal \in BOOLEAN
NoStatusEvent(ev) == ev.terminal /\ ev.id = <<0, 0>>
IsTerminalStatusEvent(ev) == ev.terminal

\* What the cap leaves of a timeline: memStore drops the oldest events above
\* it; Redis (MAXLEN ~) drops none, some or all of those.
Capped(evs) ==
    LET over == IF Len(evs) > MaxLen THEN Len(evs) - MaxLen ELSE 0 IN
    {SubSeq(evs, k + 1, Len(evs)) : k \in IF store = "mem" THEN {over} ELSE 0 .. over}

\* The event w appends.
NewEvent(w) == [id       |-> <<IF store = "mem" THEN stamp[w] ELSE 0, seq + 1>>,
                terminal |-> w = Settler \/ w \in misled]

\* The event joins the timeline.  blocked: watchers that have no room for it.
AppendEvent(w, blocked) ==
    /\ seq' = seq + 1
    /\ log' \in Capped(Append(log, NewEvent(w)))
    /\ LET evs == Append(log, NewEvent(w)) IN
       lapses' = lapses
           \cup {"backdated" : i \in {k \in DOMAIN evs : evs[k].id[1] > NewEvent(w).id[1]}}
           \cup {"overflow" : c \in blocked}
           \cup {"trimmed" : k \in {i \in DOMAIN evs : /\ evs[i].terminal /\ wpc[Settler] = "done"
                                                      /\ \A n \in DOMAIN log' : ~log'[n].terminal}}

WriterDone(w) == wpc' = [wpc EXCEPT ![w] = "done"] /\ UNCHANGED <<stamp, misled>>

\* memStore.AppendEvent: one critical section.  A watcher whose buffer is
\* full loses the event.
MemAppend(w) ==
    /\ store = "mem" /\ wpc[w] = "stamped"
    /\ IF deleted
       THEN UNCHANGED <<logVars, pend>>
       ELSE LET room == {c \in watching : Len(pend[c]) < MaxLen + Slack} IN
            /\ AppendEvent(w, watching \ room)
            /\ pend' = [c \in Clients |-> IF c \in room THEN Append(pend[c], NewEvent(w)) ELSE pend[c]]
    /\ WriterDone(w)
    /\ UNCHANGED <<recordVars, clock, pc, cursor, got, watching, found, resumes, faults>>

\* redisStore.AppendEvent: EXISTS, then XADD.
CheckExists(w) ==
    /\ store = "redis" /\ wpc[w] = "stamped"
    /\ wpc' = [wpc EXCEPT ![w] = IF deleted THEN "done" ELSE "checked"]
    /\ UNCHANGED <<recordVars, logVars, clock, stamp, misled, clientVars, faults>>

XAdd(w) ==
    /\ wpc[w] = "checked"
    /\ AppendEvent(w, {})
    /\ WriterDone(w)
    /\ UNCHANGED <<recordVars, clock, clientVars, faults>>

\* The append is best-effort: nobody retries it.
AppendFails(w) ==
    /\ store = "redis" /\ wpc[w] \in {"stamped", "checked"} /\ faults < MaxFaults
    /\ faults' = faults + 1
    /\ WriterDone(w)
    /\ UNCHANGED <<recordVars, logVars, clock, clientVars>>

-----------------------------------------------------------------------------
(***************************************************************************)
(* The writers                                                             *)
(***************************************************************************)

\* A writer other than Settler reads the time for its event.
Stamp(w) ==
    /\ w # Settler /\ wpc[w] = "idle"
    /\ wpc' = [wpc EXCEPT ![w] = "stamped"]
    /\ stamp' = [stamp EXCEPT ![w] = clock]
    /\ UNCHANGED <<recordVars, logVars, clock, misled, clientVars, faults>>

\* failStuckHarness or transition: the closure set moved in an attempt whose
\* EXEC lost to another update; the next attempt changes nothing, moved stays
\* set, and the writer goes on to announce a failure nobody recorded.
Mislead(w) ==
    /\ store = "redis" /\ w # Settler /\ wpc[w] = "idle"
    /\ wpc' = [wpc EXCEPT ![w] = "stamped"]
    /\ stamp' = [stamp EXCEPT ![w] = clock]
    /\ misled' = misled \cup {w}
    /\ UNCHANGED <<recordVars, logVars, clock, clientVars, faults>>

\* The record is settled (UpdateJob); the event that announces it comes later.
Settle ==
    /\ wpc[Settler] = "idle"
    /\ settled' = TRUE
    /\ wpc' = [wpc EXCEPT ![Settler] = "stamped"]
    /\ stamp' = [stamp EXCEPT ![Settler] = clock]
    /\ UNCHANGED <<store, deleted, logVars, clock, misled, clientVars, faults>>

Tick ==
    /\ clock < MaxClock /\ clock' = clock + 1
    /\ UNCHANGED <<recordVars, logVars, writerVars, clientVars, faults>>

\* reapRetention finds the job settled for longer than the retention window.
PastRetention == Retention /\ settled

\* memStore.DeleteJob closes the done channel of every watcher.
CutWatchers == watching' = {}

\* DeleteJob: record, timeline and permissions go in one step.
Delete ==
    /\ PastRetention /\ ~deleted
    /\ deleted' = TRUE
    /\ log' = <<>>
    /\ CutWatchers
    /\ UNCHANGED <<store, settled, seq, lapses, clock, writerVars, pc, cursor, pend, got, found, resumes, faults>>

-----------------------------------------------------------------------------
(***************************************************************************)
(* A client and the goroutines that serve it                               *)
(***************************************************************************)

\* The channel of the watch closes.  An error before the first event is
\* reported; afterwards the relays end the stream without one ("eof"),
\* whatever closed the channel.
Close(c, how) ==
    /\ pc' = [pc EXCEPT ![c] = how]
    /\ pend' = [pend EXCEPT ![c] = <<>>]
    /\ watching' = watching \ {c} /\ found' = found \ {c}
    /\ UNCHANGED <<cursor, got, resumes>>

\* Service.Watch: GetJob decides between replay and a live watch.
WatchJob(c) ==
    /\ pc[c] = "away"
    /\ pc' = [pc EXCEPT ![c] = IF deleted THEN "error" ELSE IF settled THEN "replay" ELSE "open"]
    /\ UNCHANGED <<recordVars, logVars, clock, writerVars, cursor, pend, got, watching, found,
                   resumes, faults>>

\* store.WatchEvents.  memStore queues the history and registers the watcher
\* in one critical section; Redis starts to poll.
NoHistory(c) == <<>>
History(c) == IF store = "mem" THEN EventsAfter(cursor[c]) ELSE <<>>

WatchEvents(c) ==
    /\ pc[c] = "open"
    /\ \/ /\ ~deleted
          /\ pc' = [pc EXCEPT ![c] = "live"]
          /\ pend' = [pend EXCEPT ![c] = History(c)]
          /\ watching' = IF store = "mem" THEN watching \cup {c} ELSE watching
          /\ UNCHANGED <<cursor, got, found, resumes>>
       \/ deleted /\ Close(c, "error")
    /\ UNCHANGED <<recordVars, logVars, clock, writerVars, faults>>

\* A watch that reads: a replay on either store, the poll on Redis.
Reading(c) ==
    /\ pc[c] = "replay" \/ (pc[c] = "live" /\ store = "redis")
    /\ pend[c] = <<>>

\* redisStore.ReadEvents is EXISTS, then XRANGE.
ReadCheck(c) ==
    /\ store = "redis" /\ Reading(c) /\ c \notin found
    /\ \/ deleted /\ Close(c, "eof")
       \/ ~deleted /\ found' = found \cup {c} /\ UNCHANGED <<pc, cursor, pend, got, watching, resumes>>
    /\ UNCHANGED <<recordVars, logVars, clock, writerVars, faults>>

\* The page that ReadEvents returns; a replay ends when it is empty.
ReadPage(c) ==
    /\ Reading(c) /\ (store = "redis" => c \in found)
    /\ \/ store = "mem" /\ deleted /\ Close(c, "eof")
       \/ /\ store = "mem" => ~deleted
          /\ ReadEvents(cursor[c]) = <<>> /\ pc[c] = "replay" /\ Close(c, "eof")
       \/ /\ store = "mem" => ~deleted
          /\ ReadEvents(cursor[c]) # <<>> \/ pc[c] = "live"
          /\ pend' = [pend EXCEPT ![c] = ReadEvents(cursor[c])]
          /\ found' = found \ {c}
          /\ UNCHANGED <<pc, cursor, got, watching, resumes>>
    /\ UNCHANGED <<recordVars, logVars, clock, writerVars, faults>>

\* GetJob, EXISTS or XRANGE fails: the watch is over.
ReadFails(c) ==
    /\ pc[c] \in {"away", "open"} \/ Reading(c)
    /\ store = "redis" /\ faults < MaxFaults
    /\ faults' = faults + 1
    /\ Close(c, IF pc[c] \in {"away", "open"} THEN "error" ELSE "eof")
    /\ UNCHANGED <<recordVars, logVars, clock, writerVars>>

\* DeleteJob closed the channel of the watcher, which may leave events behind.
WatcherCut(c) ==
    /\ store = "mem" /\ pc[c] = "live" /\ deleted
    /\ Close(c, "eof")
    /\ UNCHANGED <<recordVars, logVars, clock, writerVars, faults>>

\* An event reaches the client; the terminal status_change ends a live watch.
Deliver(c) ==
    /\ pc[c] \in {"live", "replay"} /\ pend[c] # <<>>
    /\ LET ev   == Head(pend[c])
           last == pc[c] = "live" /\ IsTerminalStatusEvent(ev)
       IN  /\ got' = [got EXCEPT ![c] = Append(@, ev)]
           /\ cursor' = [cursor EXCEPT ![c] = ev.id]
           /\ pend' = [pend EXCEPT ![c] = IF last THEN <<>> ELSE Tail(@)]
           /\ pc' = IF last THEN [pc EXCEPT ![c] = "eof"] ELSE pc
           /\ watching' = IF last THEN watching \ {c} ELSE watching
    /\ UNCHANGED <<recordVars, logVars, clock, writerVars, found, resumes, faults>>

\* The connection is lost; the client will resume after the last event it got.
Disconnect(c) ==
    /\ pc[c] \in {"open", "live", "replay"} /\ resumes[c] < MaxResumes
    /\ resumes' = [resumes EXCEPT ![c] = @ + 1]
    /\ pc' = [pc EXCEPT ![c] = "away"]
    /\ pend' = [pend EXCEPT ![c] = <<>>]
    /\ watching' = watching \ {c} /\ found' = found \ {c}
    /\ UNCHANGED <<recordVars, logVars, clock, writerVars, cursor, got, faults>>

WriterStep(w) == MemAppend(w) \/ CheckExists(w) \/ XAdd(w)

ClientStep(c) == WatchEvents(c) \/ ReadCheck(c) \/ ReadPage(c) \/ WatcherCut(c) \/ Deliver(c)

Next ==
    \/ \E w \in Writers : Stamp(w) \/ Mislead(w) \/ WriterStep(w) \/ AppendFails(w)
    \/ Settle \/ Tick \/ Delete
    \/ \E c \in Clients : WatchJob(c) \/ ClientStep(c) \/ ReadFails(c) \/ Disconnect(c)

Spec == Init /\ [][Next]_vars

(***************************************************************************)
(* A writer that has settled the record goes on to append; the goroutines  *)
(* of a watch run, the poll timer fires and a connected client keeps       *)
(* reading.                                                                *)
(***************************************************************************)
Fairness ==
    /\ \A w \in Writers : WF_vars(WriterStep(w))
    /\ \A c \in Clients : WF_vars(ClientStep(c))

FairSpec == Spec /\ Fairness

-----------------------------------------------------------------------------
(***************************************************************************)
(* Properties                                                              *)
(***************************************************************************)

Event == [id : (0 .. MaxClock) \X (0 .. seq), terminal : BOOLEAN]

\* Every variable has its type, and the timeline of the in-memory store and
\* the buffers of its watchers respect their caps.
TypeOK ==
    /\ store \in {"redis", "mem"} /\ lapses \subseteq {"backdated", "overflow", "trimmed"}
    /\ settled \in BOOLEAN /\ deleted \in BOOLEAN
    /\ log \in Seq(Event)
    /\ seq \in Nat
    /\ clock \in 0 .. MaxClock
    /\ wpc \in [Writers -> {"idle", "stamped", "checked", "done"}]
    /\ stamp \in [Writers -> 0 .. MaxClock] /\ misled \in SUBSET Writers
    /\ pc \in [Clients -> {"away", "open", "live", "replay", "eof", "error"}]
    /\ cursor \in [Clients -> (0 .. MaxClock) \X (0 .. seq)]
    /\ pend \in [Clients -> Seq(Event)] /\ got \in [Clients -> Seq(Event)]
    /\ watching \in SUBSET Clients /\ found \in SUBSET Clients
    /\ resumes \in [Clients -> 0 .. MaxResumes]
    /\ faults \in 0 .. MaxFaults
    /\ store = "mem" => Len(log) <= MaxLen /\ \A c \in Clients : Len(pend[c]) <= MaxLen + Slack

\* Over all its connections a client receives events in the order in which
\* they were appended, each at most once, unless the in-memory store was given
\* events whose own times are out of order.
InOrder ==
    "backdated" \notin lapses =>
        \A c \in Clients : \A i, j \in DOMAIN got[c] : i < j => got[c][i].id[2] < got[c][j].id[2]

\* A client has received every event that is still on the timeline and was
\* appended before the last one it received: the switch from history to live
\* delivery and the resumes leave no hole.  A full buffer, or times out of
\* order, may.
NoGap ==
    lapses \cap {"backdated", "overflow"} = {} =>
        \A c \in Clients : \A i \in DOMAIN log, j \in DOMAIN got[c] :
            log[i].id[2] < got[c][j].id[2] => \E k \in DOMAIN got[c] : got[c][k] = log[i]

\* Over Redis the client's stream ended on a misled writer's announcement.
EndedByMistake(c) ==
    /\ store = "redis" /\ misled # {}
    /\ got[c] # <<>> /\ got[c][Len(got[c])].terminal

\* No client is told that the stream is complete while the job is active,
\* with two exceptions: a store call failed, or over Redis the last event the
\* client received is the terminal status_change of a writer that lost its
\* EXEC.  The in-memory store has neither.
NoEarlyEof == \A c \in Clients : pc[c] = "eof" => settled \/ faults > 0 \/ EndedByMistake(c)

Watching(c) == pc[c] \in {"open", "live", "replay"}

\* The stream of a settled job ends for every client that stays connected,
\* unless the terminal event was lost: its append failed, the cap dropped it
\* unread, a full buffer did, or its time put it before the client's cursor.
WatchEnds ==
    \A c \in Clients : settled /\ Watching(c) ~> ~Watching(c) \/ faults > 0 \/ lapses # {}

=============================================================================
