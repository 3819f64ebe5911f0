------------------------------ MODULE JobStore ------------------------------
(***************************************************************************)
(* The jobs of a store, the Redis one or the in-memory one (backend, chosen *)
(* at start-up), and those who share them: updates of a record, writers of *)
(* a job's permissions and events, clients paging through ListJobs, and    *)
(* the reaper, which pages through it too and then deletes what is past    *)
(* the retention window.                                                   *)
(*                                                                         *)
(* A job id is a number; ULIDs sort by the time they were minted, and a    *)
(* job may be created after one whose id was minted later.  A Redis job is *)
(* a hash of encoded fields and a member of the index; the in-memory store *)
(* keeps the fields as they are and a list of ids in creation order.       *)
(*                                                                         *)
(* Time is a clock that any step may find advanced.  A job's finish time   *)
(* is read in the closure that settles it; a sweep reads the clock once,   *)
(* after its last page, and compares it with the finish times it has read. *)
(***************************************************************************)
EXTENDS Integers, Sequences, FiniteSets

CONSTANTS
    MaxJobs,            \* jobs submitted
    Clients,            \* callers of ListJobs
    Reaper,
    Updaters,           \* handlers that call UpdateJob
    Writers,            \* handlers that call PutPermission or AppendEvent
    Keys,               \* what the writers write: "events" or "perms"
    Requested,          \* values a caller may give limit
    DefaultListLimit, MaxListLimit,     \* 50 and 100 in the code
    PageSize,           \* page of the reaper's listing, 200 in the code
    MaxFaults,          \* failing calls of the Redis store
    MaxClock,           \* bound on the clock
    Retention           \* the retention window; the reaper deletes only when it is positive

ASSUME StoreAssumption ==
    /\ MaxClock \in Nat \ {0} /\ Retention \in Nat \ {0}
    /\ MaxJobs \in Nat /\ MaxFaults \in Nat /\ Requested \subseteq Int
    /\ DefaultListLimit \in Nat \ {0} /\ PageSize \in Nat \ {0}
    /\ MaxListLimit \in Nat /\ MaxListLimit >= DefaultListLimit
    /\ Reaper \notin Clients
    /\ Keys \subseteq {"events", "perms"}

Ids     == 1..MaxJobs
Listers == Clients \cup {Reaper}

VARIABLES
    backend,    \* "redis" or "mem"
    hash,       \* the stored fields of each job, NoHash when there is none
    index,      \* Redis: members of the sorted set of ids
    order,      \* in-memory: ids in creation order
    extra,      \* <<id, key>>: the job has events or permission requests
    tx,         \* an update between WATCH and EXEC
    put,        \* a write between its EXISTS check and its HSET or XADD
    at,         \* progress of each listing
    token,      \* page token of the next call, 0 when empty
    limit, todo, page,  \* a Redis call under way: its limit, ids to read, jobs read
    pages,      \* pages received
    first,      \* jobs that existed when the listing began
    seen,       \* the finish times in the sweep's snapshot, Zero where the job was not settled
    now,        \* the one reading of the clock reapRetention works with
    clock,
    created, gone,      \* jobs ever created, jobs deleted
    crossed,    \* writes whose job was deleted after their check
    faults

recVars  == <<hash, index, order, extra, created, gone>>
listVars == <<at, token, limit, todo, page, pages, first, seen>>
callVars == <<tx, put, crossed>>
timeVars == <<now, clock>>
vars     == <<backend, recVars, listVars, callVars, timeVars, faults>>

-----------------------------------------------------------------------------
(* Encoding *)

TimeFields == {"started_at", "finished_at"}

\* The zero time.Time; the clock starts after it.
Zero == 0

\* A record: its scalars, and times that may be zero.
NewRecord == [status |-> "queued", cancel_requested |-> FALSE,
              started_at |-> Zero, finished_at |-> Zero]

\* boolField, and the strings that are stored as they are.
Encode(j, f) == IF f = "cancel_requested" THEN (IF j[f] THEN "1" ELSE "0") ELSE j[f]

\* A time that is zero is left out: HSET cannot say "absent".
\* Mutant: the finish time is not among the fields.
jobSetFieldsShort(j) ==
    [f \in {g \in DOMAIN j \ {"finished_at"} : g \in TimeFields => j[g] # Zero} |-> Encode(j, f)]
jobSetFields(j) ==
    [f \in {g \in DOMAIN j : g \in TimeFields => j[g] # Zero} |-> Encode(j, f)]

jobClearFields(j) == {f \in TimeFields : j[f] = Zero}

\* fields[f] of a Go map: "" when the field is absent.
Field(h, f) == IF f \in DOMAIN h THEN h[f] ELSE ""

jobFromFields(h) ==
    [f \in DOMAIN NewRecord |->
        IF f = "cancel_requested" THEN Field(h, f) = "1"
        ELSE IF f \in TimeFields /\ f \notin DOMAIN h THEN Zero
        ELSE Field(h, f)]

NoHash == << >>

\* HSET and HDEL of one EXEC.
Written(h, j) ==
    [f \in (DOMAIN h \cup DOMAIN jobSetFields(j)) \ jobClearFields(j) |->
        IF f \in DOMAIN jobSetFields(j) THEN jobSetFields(j)[f] ELSE h[f]]

Exists(id) == hash[id] # NoHash
GetJob(id) == jobFromFields(hash[id])

-----------------------------------------------------------------------------
(* Records *)

Terminal(s) == s = "failed"

\* The closure of an UpdateJob that settles a job, a no-op on a settled one.
\* (Module Job has every closure; this is the one retention depends on.)
\* Mutant: it settles the job anew.
FinishAgain(j) == [j EXCEPT !.status = "failed", !.finished_at = clock]
Finish(j) ==
    IF Terminal(j.status) THEN j ELSE [j EXCEPT !.status = "failed", !.finished_at = clock]

NoCall == [id |-> 0]

\* CreateJob: a new id, refused as a conflict if the job exists.
Created(id) ==
    /\ id \notin created
    /\ hash' = [hash EXCEPT ![id] = Written(NoHash, NewRecord)]
    /\ created' = created \cup {id}

CreateJob(id) ==
    /\ backend = "redis" /\ Created(id)
    /\ index' = index \cup {id}
    /\ UNCHANGED <<backend, order, extra, gone, listVars, callVars, timeVars, faults>>

MemCreateJob(id) ==
    /\ backend = "mem" /\ Created(id)
    /\ order' = Append(order, id)
    /\ UNCHANGED <<backend, index, extra, gone, listVars, callVars, timeVars, faults>>

\* WATCH, HGETALL and the closure.
TxRead(u, id) ==
    /\ backend = "redis" /\ tx[u] = NoCall /\ Exists(id)
    /\ tx' = [tx EXCEPT ![u] = [id |-> id, new |-> Finish(GetJob(id)), fresh |-> TRUE]]
    /\ UNCHANGED <<backend, recVars, listVars, put, crossed, timeVars, faults>>

\* The transactions that watched a key lose when it is written.
Unwatched(id) ==
    [u \in Updaters |-> IF tx[u] # NoCall /\ tx[u].id = id
                        THEN [tx[u] EXCEPT !.fresh = FALSE] ELSE tx[u]]

\* Mutant: a plain HSET after the read, nothing watched.
UnwatchedHolds(u) == TRUE
WatchHolds(u) == tx[u].fresh

\* MULTI/EXEC.  A lost one is retried from TxRead, which no longer finds a
\* job that was deleted.
TxExec(u) ==
    /\ tx[u] # NoCall
    /\ hash' = IF WatchHolds(u)
               THEN [hash EXCEPT ![tx[u].id] = Written(@, tx[u].new)] ELSE hash
    /\ tx' = [IF WatchHolds(u) THEN Unwatched(tx[u].id) ELSE tx EXCEPT ![u] = NoCall]
    /\ UNCHANGED <<backend, index, order, extra, created, gone, listVars, put, crossed, timeVars, faults>>

MemUpdate(id) ==
    /\ backend = "mem" /\ Exists(id)
    /\ hash' = [hash EXCEPT ![id] = Written(@, Finish(GetJob(id)))]
    /\ UNCHANGED <<backend, index, order, extra, created, gone, listVars, callVars, timeVars, faults>>

\* PutPermission and AppendEvent on Redis: EXISTS, then the write.
PutCheck(w, id, key) ==
    /\ backend = "redis" /\ put[w] = NoCall /\ Exists(id)
    /\ put' = [put EXCEPT ![w] = [id |-> id, key |-> key]]
    /\ UNCHANGED <<backend, recVars, listVars, tx, crossed, timeVars, faults>>

PutWrite(w) ==
    /\ put[w] # NoCall
    /\ extra' = extra \cup {<<put[w].id, put[w].key>>}
    /\ put' = [put EXCEPT ![w] = NoCall]
    /\ UNCHANGED <<backend, hash, index, order, created, gone, listVars, tx, crossed, timeVars, faults>>

MemPut(id, key) ==
    /\ backend = "mem" /\ Exists(id)
    /\ extra' = extra \cup {<<id, key>>}
    /\ UNCHANGED <<backend, hash, index, order, created, gone, listVars, callVars, timeVars, faults>>

\* The in-memory list without the first entry that is id.
Cut(s, id) ==
    LET hits == {i \in DOMAIN s : s[i] = id}
        i == CHOOSE k \in hits : \A m \in hits : k <= m
    IN  IF hits = {} THEN s ELSE SubSeq(s, 1, i - 1) \o SubSeq(s, i + 1, Len(s))

\* Mutant: DEL names the job and its events, not its permissions.
DeletedKeysButPerms == {"events"}
DeletedKeys == {"events", "perms"}

\* DeleteJob: the hash, the events, the permissions and the index entry go in
\* one pipeline (Redis) or under the mutex (in-memory).
DeleteJob(id) ==
    /\ Exists(id)
    /\ hash' = [hash EXCEPT ![id] = NoHash]
    /\ index' = index \ {id}
    /\ order' = Cut(order, id)
    /\ extra' = {x \in extra : x[1] = id => x[2] \notin DeletedKeys}
    /\ gone' = gone \cup {id}
    /\ tx' = Unwatched(id)
    /\ crossed' = crossed \cup {<<id, put[w].key>> : w \in {v \in Writers : put[v] # NoCall /\ put[v].id = id}}

Tick ==
    /\ clock < MaxClock /\ clock' = clock + 1
    /\ UNCHANGED <<backend, recVars, listVars, callVars, now, faults>>

-----------------------------------------------------------------------------
(* Listing *)

\* The limit ListJobs of the API passes on.
ListLimit(n) ==
    IF n <= 0 THEN DefaultListLimit ELSE IF n > MaxListLimit THEN MaxListLimit ELSE n

\* The n newest of a set of ids: ZRANGE BYLEX REV LIMIT 0 n.
Newest(S, n) == {id \in S : Cardinality({k \in S : k > id}) < n}

\* Mutant: an inclusive cursor, "[" instead of "(".
AfterInclusive(cursor) == {id \in index : cursor # 0 => id <= cursor}
After(cursor) == {id \in index : cursor # 0 => id < cursor}

Oldest(S) == CHOOSE id \in S : \A k \in S : id <= k

\* The limits of the next call: a caller's own, or the reaper's page size.
Limits(l) == IF l = Reaper THEN {PageSize} ELSE {ListLimit(n) : n \in Requested}

\* A call of ListJobs, the first of a listing or the one for its next page.
Call(l) ==
    /\ at[l] \in {"idle", "more"}
    /\ first' = [first EXCEPT ![l] = IF at[l] = "idle" THEN created \ gone ELSE @]

\* Redis: one more id than the page is read, to know whether there is another
\* page.
PageIds(l, n) ==
    /\ backend = "redis" /\ Call(l)
    /\ LET ids == Newest(After(token[l]), n + 1)
           cut == Newest(ids, n)
       IN /\ todo' = [todo EXCEPT ![l] = cut]
          /\ token' = [token EXCEPT ![l] = IF ids # cut THEN Oldest(cut) ELSE 0]
    /\ limit' = [limit EXCEPT ![l] = n]
    /\ at' = [at EXCEPT ![l] = "reading"]
    /\ UNCHANGED <<backend, recVars, page, pages, seen, callVars, timeVars, faults>>

\* What a sweep keeps of the records it has just read: the finish times of
\* those that are settled.
SeenWith(l, found) ==
    [id \in Ids |-> IF l = Reaper /\ id \in found /\ Terminal(GetJob(id).status)
                    THEN GetJob(id).finished_at ELSE seen[id]]

\* Mutant: the last page is told by the jobs found rather than by the ids.
LastPageByJobs(l, found) == token[l] = 0 \/ Cardinality(found) < limit[l]
LastPage(l, found) == token[l] = 0

\* GetJob of the next id of the page; a job deleted since ZRANGE is skipped.
PageRead(l) ==
    /\ at[l] = "reading" /\ todo[l] # {}
    /\ LET id == CHOOSE i \in todo[l] : \A k \in todo[l] : k <= i
           found == {i \in {id} : Exists(i)}
       IN /\ todo' = [todo EXCEPT ![l] = @ \ {id}]
          /\ page' = [page EXCEPT ![l] = @ \cup found]
          /\ seen' = SeenWith(l, found)
    /\ UNCHANGED <<backend, recVars, at, token, limit, pages, first, callVars, timeVars, faults>>

\* The page is complete: the caller asks for the next one or is done.
PageDone(l) ==
    /\ at[l] = "reading" /\ todo[l] = {}
    /\ pages' = [pages EXCEPT ![l] = Append(@, page[l])]
    /\ page' = [page EXCEPT ![l] = {}]
    /\ at' = [at EXCEPT ![l] = IF LastPage(l, page[l]) THEN "done" ELSE "more"]
    /\ limit' = [limit EXCEPT ![l] = 0]
    /\ UNCHANGED <<backend, recVars, token, todo, first, seen, callVars, timeVars, faults>>

\* In-memory: the token is a position in order.  One past the end of a list
\* that has shrunk since makes the handler panic.
MemPage(l, n) ==
    /\ backend = "mem" /\ Call(l)
    /\ LET start == IF token[l] = 0 THEN Len(order) ELSE token[l]
           last  == IF start > n THEN start - n ELSE 0
           found == {order[i] : i \in (last + 1)..start}
       IN \/ /\ start > Len(order)
             /\ at' = [at EXCEPT ![l] = "panicked"]
             /\ UNCHANGED <<token, pages, seen>>
          \/ /\ start <= Len(order)
             /\ pages' = [pages EXCEPT ![l] = Append(@, found)]
             /\ token' = [token EXCEPT ![l] = last]
             /\ at' = [at EXCEPT ![l] = IF last = 0 THEN "done" ELSE "more"]
             /\ seen' = SeenWith(l, found)
    /\ UNCHANGED <<backend, recVars, limit, todo, page, callVars, timeVars, faults>>

NothingSeen == [id \in Ids |-> Zero]

\* A Redis call of the listing fails: a client gives up, the sweep is abandoned.
ListFails(l) ==
    /\ backend = "redis" /\ faults < MaxFaults /\ at[l] = "reading"
    /\ at' = [at EXCEPT ![l] = IF l = Reaper THEN "idle" ELSE "failed"]
    /\ limit' = [limit EXCEPT ![l] = 0]
    /\ token' = [token EXCEPT ![l] = 0]
    /\ pages' = [pages EXCEPT ![l] = << >>]
    /\ first' = [first EXCEPT ![l] = {}]
    /\ seen' = IF l = Reaper THEN NothingSeen ELSE seen
    /\ todo' = [todo EXCEPT ![l] = {}]
    /\ page' = [page EXCEPT ![l] = {}]
    /\ faults' = faults + 1
    /\ UNCHANGED <<backend, recVars, callVars, timeVars>>

\* The whole snapshot is in: reapRetention reads the clock.
StartReaping ==
    /\ at[Reaper] = "done"
    /\ at' = [at EXCEPT ![Reaper] = "reaping"]
    /\ now' = clock
    /\ UNCHANGED <<backend, recVars, token, limit, todo, page, pages, first, seen, callVars, clock, faults>>

\* The jobs of the snapshot still to be deleted: settled when they were read,
\* for longer than the window when the clock was read.
Expired == {id \in Ids : seen[id] # Zero /\ now - seen[id] > Retention}

\* One DeleteJob of the sweep, and a failing one, which the sweep skips.
Reap(id) ==
    /\ at[Reaper] = "reaping" /\ id \in Expired
    /\ \/ DeleteJob(id) /\ UNCHANGED faults
       \/ /\ backend = "redis" /\ faults < MaxFaults
          /\ faults' = faults + 1
          /\ UNCHANGED <<hash, index, order, extra, gone, tx, crossed>>
    /\ seen' = [seen EXCEPT ![id] = Zero]
    /\ UNCHANGED <<backend, created, at, token, limit, todo, page, pages, first, put, timeVars>>

\* The sweep is over; the timer runs again.
EndSweep ==
    /\ at[Reaper] = "reaping" /\ Expired = {}
    /\ at' = [at EXCEPT ![Reaper] = "idle"]
    /\ pages' = [pages EXCEPT ![Reaper] = << >>]
    /\ first' = [first EXCEPT ![Reaper] = {}]
    /\ seen' = NothingSeen
    /\ now' = Zero
    /\ UNCHANGED <<backend, recVars, token, limit, todo, page, callVars, clock, faults>>

-----------------------------------------------------------------------------

Init ==
    /\ backend \in {"redis", "mem"}
    /\ hash = [id \in Ids |-> NoHash]
    /\ index = {} /\ order = << >> /\ extra = {} /\ created = {} /\ gone = {}
    /\ clock = Zero + 1 /\ now = Zero
    /\ tx = [u \in Updaters |-> NoCall]
    /\ put = [w \in Writers |-> NoCall]
    /\ at = [l \in Listers |-> "idle"]
    /\ token = [l \in Listers |-> 0]
    /\ limit = [l \in Listers |-> 0]
    /\ todo = [l \in Listers |-> {}]
    /\ page = [l \in Listers |-> {}]
    /\ pages = [l \in Listers |-> << >>]
    /\ first = [l \in Listers |-> {}]
    /\ seen = NothingSeen /\ crossed = {} /\ faults = 0

List(l) ==
    \/ \E n \in Limits(l) : PageIds(l, n) \/ MemPage(l, n)
    \/ PageRead(l)
    \/ PageDone(l)

\* The loop of Run: a sweep, its deletions, and the wait for the next one.
Sweep == List(Reaper) \/ StartReaping \/ EndSweep \/ \E id \in Ids : Reap(id)

Next ==
    \/ Tick
    \/ \E id \in Ids : CreateJob(id) \/ MemCreateJob(id)
    \/ \E id \in Ids : MemUpdate(id) \/ \E u \in Updaters : TxRead(u, id)
    \/ \E u \in Updaters : TxExec(u)
    \/ \E id \in Ids, key \in Keys : MemPut(id, key) \/ \E w \in Writers : PutCheck(w, id, key)
    \/ \E w \in Writers : PutWrite(w)
    \/ \E c \in Clients : List(c)
    \/ \E l \in Listers : ListFails(l)
    \/ Sweep

Spec == Init /\ [][Next]_vars

\* The reaper's loop runs for as long as the server does.
FairSpec == Spec /\ WF_vars(Sweep)

-----------------------------------------------------------------------------
(* Properties *)

\* Type of the state: ids where ids belong, tokens and cursors in range.
TypeOK ==
    /\ backend \in {"redis", "mem"}
    /\ index \subseteq created /\ gone \subseteq created
    /\ created \subseteq Ids
    /\ extra \subseteq Ids \X Keys /\ crossed \subseteq Ids \X Keys
    /\ order \in Seq(Ids) /\ Len(order) <= MaxJobs
    /\ at \in [Listers -> {"idle", "reading", "more", "done", "reaping", "failed", "panicked"}]
    /\ token \in [Listers -> 0..MaxJobs]
    /\ todo \in [Listers -> SUBSET Ids] /\ page \in [Listers -> SUBSET Ids]
    /\ \A l \in Listers : limit[l] <= IF l = Reaper THEN PageSize ELSE MaxListLimit
    /\ faults \in 0..MaxFaults
    /\ clock \in 1..MaxClock /\ now \in 0..MaxClock /\ seen \in [Ids -> 0..MaxClock]

\* The index lists exactly the jobs that have a record: an update racing the
\* reaper's DeleteJob does not bring back a record nobody can list.
IndexMatchesRecords ==
    {id \in Ids : Exists(id)} =
        IF backend = "redis" THEN index ELSE {order[i] : i \in DOMAIN order}

Listed(l) == UNION {pages[l][i] : i \in DOMAIN pages[l]}

\* A listing that ran to its last page holds every job that existed when it
\* began and still does, whatever was created and deleted between its pages:
\* no cursor of either store skips a job.
ListingComplete ==
    \A l \in Listers : at[l] \in {"done", "reaping"} => first[l] \ gone \subseteq Listed(l)

\* "Newest first", and no job twice: over Redis the pages descend.  Positions
\* of the in-memory list shift when a listed job is deleted (a job may then
\* come twice, and a token past the end makes the handler panic); without
\* such a deletion its pages do not overlap either.  The reaper, who alone
\* deletes, and only after its last page, is never shifted.
PagesDescend ==
    \A l \in Listers :
        /\ \A i, k \in DOMAIN pages[l] : i < k =>
            IF backend = "redis"
            THEN \A a \in pages[l][i], b \in pages[l][k] : a > b
            ELSE l = Reaper \/ first[l] \cap gone = {} => pages[l][i] \cap pages[l][k] = {}
        /\ at[l] = "panicked" => backend = "mem" /\ l # Reaper /\ first[l] \cap gone # {}

\* DeleteJob "permanently removes a job": no events and no permission
\* requests of a deleted job remain, except those a PutPermission or
\* AppendEvent wrote that had checked the job just before it was deleted.
DeletedIsGone == \A x \in extra : x[1] \in gone => x \in crossed

\* The record as it is now: settled for longer than the window.
PastRetention(id) ==
    Exists(id) /\ Terminal(GetJob(id).status) /\ clock - GetJob(id).finished_at > Retention

\* The sweep decides on finish times it read some time ago and on a clock it
\* read before its first deletion, and updates go on meanwhile.  What it
\* deletes is nevertheless past the retention window by the record and the
\* clock of that very moment.
OnlyExpiredDeleted == [][\A id \in gone' \ gone : PastRetention(id)]_vars

\* A job past the retention window is deleted in the end, whatever the pages
\* of the sweeps looked like.
ExpiredIsDeleted == \A id \in Ids : PastRetention(id) ~> id \in gone
=============================================================================
