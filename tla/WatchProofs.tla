---------------------------- MODULE WatchProofs ----------------------------
(***************************************************************************)
(* Proofs about Watch, for any number of writers and of clients, any cap,  *)
(* buffer and page size, and any bounds on resumes, faults and the clock.  *)
(***************************************************************************)
EXTENDS Watch, TLAPS, FiniteSetTheorems, SequenceTheorems

-----------------------------------------------------------------------------
(***************************************************************************)
(* The inductive invariant                                                 *)
(***************************************************************************)

\* e is one of the events of s.
In(e, s) == \E i \in DOMAIN s : s[i] = e

\* The events of s are in the order in which they were appended.
Ascending(s) == \A i, j \in DOMAIN s : i < j => s[i].id[2] < s[j].id[2]

\* e is on the timeline, on its way to a client or with one.
Held(e) == In(e, log) \/ \E c \in Clients : In(e, pend[c]) \/ In(e, got[c])

\* A sequence number stands for one event, and later numbers have later
\* times unless an event was backdated.
Agree(e, f) ==
    /\ e.id[2] = f.id[2] => e = f
    /\ "backdated" \notin lapses /\ e.id[2] < f.id[2] => e.id[1] <= f.id[1]

\* No held event is later than all of the timeline, as long as there is one
\* that takes appends: a new event that is not backdated against the timeline
\* is not backdated against any event.
Topped(e) ==
    /\ e.id[2] > 0
    /\ store = "redis" => e.id[1] = 0
    /\ store = "mem" /\ ~deleted /\ "backdated" \notin lapses => \E i \in DOMAIN log : e.id[1] <= log[i].id[1]

\* Where a client's watch stands: its cursor is the last event it received,
\* and what is pending comes after that.
Placed(c) ==
    /\ Ascending(pend[c])
    /\ \/ got[c] = <<>> /\ cursor[c] = <<0, 0>>
       \/ \E i \in DOMAIN got[c] : cursor[c] = got[c][i].id
    /\ "backdated" \notin lapses =>
          /\ Ascending(got[c])
          /\ \A i \in DOMAIN got[c] : got[c][i].id[2] <= cursor[c][2]
          /\ \A i \in DOMAIN pend[c] : cursor[c][2] < pend[c][i].id[2]

OrderInv ==
    /\ Ascending(log)
    /\ \A e, f \in Event : Held(e) /\ Held(f) => Agree(e, f)
    /\ \A e \in Event : Held(e) => Topped(e)
    /\ \A c \in Clients : Placed(c)

\* What the timeline holds up to the cursor was received; from there up to a
\* pending event it is pending too, and a watcher has all of the rest pending.
Gapless(c) ==
    /\ \A i \in DOMAIN log :
          /\ log[i].id[2] <= cursor[c][2] => In(log[i], got[c])
          /\ log[i].id[2] > cursor[c][2] =>
                /\ \A j \in DOMAIN pend[c] : log[i].id[2] <= pend[c][j].id[2] => In(log[i], pend[c])
                /\ c \in watching => In(log[i], pend[c])

GapInv == lapses \cap {"backdated", "overflow"} = {} => \A c \in Clients : Gapless(c)

\* Only a live watch of the in-memory store has a watcher, and only Redis
\* appends in two steps.
WatcherInv ==
    /\ \A c \in watching : pc[c] = "live" /\ store = "mem"
    /\ \A w \in Writers : wpc[w] = "checked" => store = "redis"

\* Whatever ends a stream comes from a settled record or a misled writer.
EofInv ==
    /\ deleted => settled
    /\ wpc[Settler] # "idle" => settled
    /\ \A c \in Clients : pc[c] = "replay" => settled
    /\ misled # {} => store = "redis"
    /\ \A e \in Event : Held(e) /\ e.terminal => settled \/ misled # {}
    /\ NoEarlyEof

-----------------------------------------------------------------------------
(***************************************************************************)
(* Reading the timeline                                                    *)
(***************************************************************************)

\* The ranks of the members of P number them, in their order, from 1 up.
LEMMA Ranks ==
    ASSUME NEW n \in Nat, NEW P \in SUBSET (1 .. n)
    PROVE  /\ Cardinality(P) \in Nat /\ Cardinality(P) <= n
           /\ \A i \in P : Rank(P, i) \in 1 .. Cardinality(P)
           /\ \A i, j \in P : i < j => Rank(P, i) < Rank(P, j)
           /\ \A k \in 1 .. Cardinality(P) : \E i \in P : Rank(P, i) = k
  <1> DEFINE upTo(i) == {j \in P : j <= i}
  <1>1. \A i \in P : i \in Nat
    OBVIOUS
  <1>2. IsFiniteSet(P) /\ Cardinality(P) \in Nat /\ Cardinality(P) <= n
    <2>1. IsFiniteSet(1 .. n) /\ Cardinality(1 .. n) = n
      BY FS_Interval
    <2>2. IsFiniteSet(P) /\ Cardinality(P) <= Cardinality(1 .. n)
      BY <2>1, FS_Subset
    <2> QED  BY <2>1, <2>2, FS_CardinalityType
  <1>3. \A i \in P : IsFiniteSet(upTo(i)) /\ Cardinality(upTo(i)) \in 1 .. Cardinality(P)
    <2> TAKE i \in P
    <2>1. upTo(i) \in SUBSET P /\ i \in upTo(i)
      BY <1>1
    <2>2. IsFiniteSet(upTo(i)) /\ Cardinality(upTo(i)) <= Cardinality(P)
      BY <1>2, <2>1, FS_Subset
    <2>3. Cardinality(upTo(i)) \in Nat /\ Cardinality(upTo(i)) # 0
      BY <2>1, <2>2, FS_CardinalityType, FS_EmptySet
    <2> HIDE DEF upTo
    <2> QED  BY <1>2, <2>2, <2>3
  <1>4. ASSUME NEW i \in P, NEW j \in P, i < j PROVE Cardinality(upTo(i)) < Cardinality(upTo(j))
    <2>1. \A m \in upTo(i) : m \in upTo(j)
      BY <1>1, <1>4
    <2>2. upTo(i) \in SUBSET upTo(j) /\ j \in upTo(j) /\ j \notin upTo(i)
      <3>1. j <= j /\ ~(j <= i)
        BY <1>1, <1>4
      <3> QED  BY <2>1, <3>1
    <2> HIDE DEF upTo
    <2>3. /\ Cardinality(upTo(i)) <= Cardinality(upTo(j))
          /\ Cardinality(upTo(j)) = Cardinality(upTo(i)) => upTo(j) = upTo(i)
      BY <1>3, <2>2, FS_Subset
    <2>4. Cardinality(upTo(i)) # Cardinality(upTo(j))
      BY <2>2, <2>3
    <2>5. Cardinality(upTo(i)) \in Nat /\ Cardinality(upTo(j)) \in Nat
      BY <1>3, FS_CardinalityType
    <2> QED  BY <2>3, <2>4, <2>5
  <1> DEFINE r == [i \in P |-> Cardinality(upTo(i))]
  <1> HIDE DEF upTo
  <1>5. r \in Injection(P, 1 .. Cardinality(P))
    <2>1. r \in [P -> 1 .. Cardinality(P)]
      BY <1>3
    <2>2. \A i, j \in P : r[i] = r[j] => i = j
      <3> SUFFICES ASSUME NEW i \in P, NEW j \in P, i # j PROVE r[i] # r[j]
        OBVIOUS
      <3>1. i < j \/ j < i
        BY <1>1
      <3>2. r[i] \in Nat /\ r[j] \in Nat
        BY <1>2, <1>3
      <3> QED  BY <1>4, <3>1, <3>2
    <2> HIDE DEF r
    <2> QED  BY <2>1, <2>2 DEF Injection, IsInjective
  <1>6. r \in Surjection(P, 1 .. Cardinality(P))
    <2>1. IsFiniteSet(1 .. Cardinality(P)) /\ Cardinality(1 .. Cardinality(P)) = Cardinality(P)
      BY <1>2, FS_Interval
    <2> HIDE DEF r
    <2> QED  BY <1>5, <2>1, FS_Injection
  <1>7. \A k \in 1 .. Cardinality(P) : \E i \in P : r[i] = k
    BY <1>6, Zenon DEF Surjection
  <1> QED  BY <1>2, <1>3, <1>4, <1>7 DEF Rank, upTo

\* What is read after id: the events of the timeline that come after id, all
\* of them, in the order of the timeline.
LEMMA EventsRead ==
    ASSUME log \in Seq(Event), NEW id
    PROVE  LET s == EventsAfter(id) IN
           /\ s \in Seq(Event) /\ Len(s) <= Len(log)
           /\ \A k \in DOMAIN s : IDLess(id, s[k].id) /\ In(s[k], log)
           /\ \A j, k \in DOMAIN s : j < k => \E a, b \in DOMAIN log : a < b /\ s[j] = log[a] /\ s[k] = log[b]
           /\ \A i \in DOMAIN log : IDLess(id, log[i].id) => In(log[i], s)
  <1> DEFINE P == Later(id)
             at(k) == CHOOSE i \in P : Rank(P, i) = k
             s == [k \in 1 .. Cardinality(P) |-> log[at(k)]]
  <1>1. Len(log) \in Nat /\ DOMAIN log = 1 .. Len(log) /\ \A i \in DOMAIN log : log[i] \in Event
    BY LenProperties, ElementOfSeq
  <1>2. P \in SUBSET (1 .. Len(log)) /\ \A i \in DOMAIN log : i \in P <=> IDLess(id, log[i].id)
    BY <1>1 DEF Later
  <1>2a. \A i \in P : i \in Nat /\ i \in DOMAIN log
    BY <1>1 DEF Later
  <1> HIDE DEF P
  <1>3. /\ Cardinality(P) \in Nat /\ Cardinality(P) <= Len(log)
        /\ \A i \in P : Rank(P, i) \in 1 .. Cardinality(P)
        /\ \A i, j \in P : i < j => Rank(P, i) < Rank(P, j)
        /\ \A k \in 1 .. Cardinality(P) : \E i \in P : Rank(P, i) = k
    BY <1>1, <1>2, Ranks
  <1>4. \A k \in 1 .. Cardinality(P) : at(k) \in P /\ Rank(P, at(k)) = k
    BY <1>3
  <1>5. \A i \in P : at(Rank(P, i)) = i
    <2> TAKE i \in P
    <2>1. at(Rank(P, i)) \in P /\ Rank(P, at(Rank(P, i))) = Rank(P, i)
      BY <1>3, <1>4
    <2>2. i \in Nat /\ at(Rank(P, i)) \in Nat /\ Rank(P, i) \in Nat
      BY <1>2a, <1>3, <2>1
    <2> QED  BY <1>3, <2>1, <2>2
  <1> HIDE DEF at
  <1>6. s = EventsAfter(id)
    BY DEF EventsAfter, P, at
  <1>7. s \in Seq(Event) /\ Len(s) = Cardinality(P) /\ DOMAIN s = 1 .. Cardinality(P)
    <2>1. \A k \in 1 .. Cardinality(P) : log[at(k)] \in Event
      BY <1>1, <1>2, <1>4
    <2>2. s \in Seq(Event)
      BY <1>3, <2>1, IsASeq
    <2> QED  BY <1>3, <2>2, LenProperties
  <1>8. \A k \in DOMAIN s : IDLess(id, s[k].id) /\ In(s[k], log)
    BY <1>1, <1>2, <1>4, <1>7 DEF In
  <1>9. ASSUME NEW j \in DOMAIN s, NEW k \in DOMAIN s, j < k
        PROVE  \E a, b \in DOMAIN log : a < b /\ s[j] = log[a] /\ s[k] = log[b]
    <2>1. at(j) \in P /\ at(k) \in P /\ Rank(P, at(j)) = j /\ Rank(P, at(k)) = k
      BY <1>4, <1>7
    <2>2. at(j) \in Nat /\ at(k) \in Nat /\ at(j) \in DOMAIN log /\ at(k) \in DOMAIN log /\ j \in Nat /\ k \in Nat
      BY <1>2a, <1>3, <1>7, <2>1
    <2>3. at(j) < at(k)
      BY <1>3, <1>9, <2>1, <2>2
    <2> QED  BY <1>7, <2>2, <2>3
  <1>10. \A i \in DOMAIN log : IDLess(id, log[i].id) => In(log[i], s)
    <2> SUFFICES ASSUME NEW i \in P PROVE In(log[i], s)
      BY <1>2
    <2>1. Rank(P, i) \in DOMAIN s /\ s[Rank(P, i)] = log[i]
      BY <1>3, <1>5, <1>7
    <2> QED  BY <2>1 DEF In
  <1>11. s \in Seq(Event) /\ Len(s) <= Len(log)
    BY <1>3, <1>7
  <1> HIDE DEF s
  <1> QED  BY <1>6, <1>8, <1>9, <1>10, <1>11

\* s is what a store reads after id: it comes from the timeline, in its order,
\* after id, and leaves out nothing up to its own last event.
Reads(s, id) ==
    /\ s \in Seq(Event) /\ Len(s) <= Len(log) /\ Ascending(s)
    /\ \A k \in DOMAIN s : IDLess(id, s[k].id) /\ In(s[k], log)
    /\ \A i \in DOMAIN log, j \in DOMAIN s :
          IDLess(id, log[i].id) /\ log[i].id[2] <= s[j].id[2] => In(log[i], s)

\* The parts of an event are numbers.
LEMMA EventParts ==
    ASSUME seq \in Nat
    PROVE  /\ \A e \in Event : /\ e.id[1] \in Nat /\ e.id[2] \in Nat /\ e.id[2] <= seq
                               /\ e.id[1] <= MaxClock /\ e.terminal \in BOOLEAN
           /\ \A s \in Seq(Event) : Len(s) \in Nat /\ DOMAIN s = 1 .. Len(s) /\ \A i \in DOMAIN s : s[i] \in Event
  <1>1. MaxClock \in Nat
    BY WatchAssumption
  <1>2. ASSUME NEW e \in Event PROVE e.id \in (0 .. MaxClock) \X (0 .. seq) /\ e.terminal \in BOOLEAN
    BY <1>2 DEF Event
  <1>3. ASSUME NEW x \in (0 .. MaxClock) \X (0 .. seq)
        PROVE x[1] \in Nat /\ x[2] \in Nat /\ x[2] <= seq /\ x[1] <= MaxClock
    BY <1>1
  <1>4. ASSUME NEW s \in Seq(Event)
        PROVE Len(s) \in Nat /\ DOMAIN s = 1 .. Len(s) /\ \A i \in DOMAIN s : s[i] \in Event
    BY LenProperties, ElementOfSeq
  <1> QED  BY <1>2, <1>3, <1>4

\* The history a watch of the in-memory store starts from.
LEMMA HistoryRead ==
    ASSUME TypeOK, Ascending(log), NEW id
    PROVE  Reads(EventsAfter(id), id) /\ \A i \in DOMAIN log : IDLess(id, log[i].id) => In(log[i], EventsAfter(id))
  <1> DEFINE s == EventsAfter(id)
  <1>1. /\ s \in Seq(Event) /\ Len(s) <= Len(log)
        /\ \A k \in DOMAIN s : IDLess(id, s[k].id) /\ In(s[k], log)
        /\ \A j, k \in DOMAIN s : j < k => \E a, b \in DOMAIN log : a < b /\ s[j] = log[a] /\ s[k] = log[b]
        /\ \A i \in DOMAIN log : IDLess(id, log[i].id) => In(log[i], s)
    BY EventsRead DEF TypeOK
  <1> HIDE DEF s
  <1>2. Ascending(s)
    BY <1>1 DEF Ascending
  <1>3. Reads(s, id)
    BY <1>1, <1>2 DEF Reads
  <1> QED  BY <1>1, <1>3 DEF s

\* A page of ReadEvents.
LEMMA PageRead ==
    ASSUME TypeOK, Ascending(log), NEW id
    PROVE  Reads(ReadEvents(id), id)
  <1> DEFINE s == EventsAfter(id)
             n == IF PageSize < Len(s) THEN PageSize ELSE Len(s)
             t == SubSeq(s, 1, n)
  <1>1. Reads(s, id) /\ \A i \in DOMAIN log : IDLess(id, log[i].id) => In(log[i], s)
    BY HistoryRead
  <1>2. t = ReadEvents(id)
    BY DEF ReadEvents
  <1>3. PageSize \in Nat /\ Len(log) \in Nat /\ seq \in Nat
    BY WatchAssumption, LenProperties DEF TypeOK
  <1> HIDE DEF s
  <1>4. Len(s) \in Nat /\ DOMAIN s = 1 .. Len(s) /\ (\A i \in DOMAIN s : s[i] \in Event) /\ Len(s) <= Len(log)
    BY <1>1, <1>3, EventParts DEF Reads
  <1>5. n \in Nat /\ n <= Len(s)
    BY <1>3, <1>4
  <1> HIDE DEF n
  <1>6. t \in Seq(Event) /\ Len(t) = n /\ \A k \in 1 .. n : t[k] = s[k]
    <2>1. \A k \in 1 .. n : s[k] \in Event
      BY <1>4, <1>5
    <2>2. /\ t \in Seq(Event)
          /\ Len(t) = IF 1 <= n THEN n - 1 + 1 ELSE 0
          /\ \A k \in 1 .. n - 1 + 1 : t[k] = s[1 + k - 1]
      BY <1>5, <2>1, SubSeqProperties
    <2> QED  BY <1>5, <2>2
  <1> HIDE DEF t
  <1>7. DOMAIN t = 1 .. n /\ \A k \in DOMAIN t : k \in DOMAIN s /\ t[k] = s[k]
    <2>1. DOMAIN t = 1 .. n
      BY <1>6, LenProperties
    <2> QED  BY <1>4, <1>5, <1>6, <2>1
  <1>8. Ascending(t)
    BY <1>1, <1>7 DEF Reads, Ascending
  <1>9. ASSUME NEW i \in DOMAIN log, NEW j \in DOMAIN t, IDLess(id, log[i].id), log[i].id[2] <= t[j].id[2]
        PROVE  In(log[i], t)
    <2>1. PICK k \in DOMAIN s : s[k] = log[i]
      BY <1>1, <1>9 DEF In
    <2>2. j \in DOMAIN s /\ t[j] = s[j] /\ s[j].id[2] \in Nat /\ s[k].id[2] \in Nat
      BY <1>3, <1>4, <1>7, EventParts
    <2>3. k <= j
      <3> SUFFICES ASSUME j < k PROVE FALSE
        BY <1>4, <2>2
      <3>1. s[j].id[2] < s[k].id[2]
        BY <1>1, <2>1, <2>2 DEF Reads, Ascending
      <3> QED  BY <1>9, <2>1, <2>2, <3>1
    <2>4. k \in DOMAIN t /\ t[k] = log[i]
      BY <1>4, <1>5, <1>7, <2>1, <2>3
    <2> QED  BY <2>4 DEF In
  <1>10. t \in Seq(Event) /\ Len(t) <= Len(log)
    BY <1>3, <1>4, <1>5, <1>6
  <1>11. Reads(t, id)
    BY <1>1, <1>7, <1>8, <1>9, <1>10 DEF Reads
  <1> QED  BY <1>2, <1>11

-----------------------------------------------------------------------------
(***************************************************************************)
(* Appending to the timeline                                               *)
(***************************************************************************)

\* What an append leaves on the timeline and records of its lapses.
LEMMA Appended ==
    ASSUME TypeOK, NEW w \in Writers, NEW blocked, AppendEvent(w, blocked)
    PROVE  LET new == NewEvent(w) IN
           /\ new.id[2] = seq + 1 /\ new.id[1] = (IF store = "mem" THEN stamp[w] ELSE 0)
           /\ new.terminal <=> w = Settler \/ w \in misled
           /\ new \in Event' /\ \A e \in Event : e \in Event'
           /\ log' \in Seq(Event') /\ (store = "mem" => Len(log') <= MaxLen)
           /\ \A i \in DOMAIN log' : log'[i] = new \/ In(log'[i], log)
           /\ In(new, log')
           /\ Ascending(log) => Ascending(log')
           /\ lapses \subseteq lapses' /\ lapses' \subseteq {"backdated", "overflow", "trimmed"}
           /\ "backdated" \notin lapses' => \A i \in DOMAIN log : log[i].id[1] <= new.id[1]
           /\ "overflow" \notin lapses' => blocked = {}
  <1> DEFINE new == NewEvent(w)
             evs == Append(log, new)
             millis == IF store = "mem" THEN stamp[w] ELSE 0
  <1>1. /\ MaxClock \in Nat /\ MaxLen \in Nat \ {0} /\ seq \in Nat /\ seq' = seq + 1 /\ stamp[w] \in 0 .. MaxClock
        /\ log \in Seq(Event) /\ store \in {"redis", "mem"}
    BY WatchAssumption DEF TypeOK, AppendEvent
  <1>2. new = [id |-> <<millis, seq + 1>>, terminal |-> w = Settler \/ w \in misled] /\ millis \in 0 .. MaxClock
    BY <1>1 DEF NewEvent
  <1>3. new.id[2] = seq + 1 /\ new.id[1] = millis /\ (new.terminal <=> w = Settler \/ w \in misled)
    <2>1. new.id = <<millis, seq + 1>>
      BY DEF NewEvent
    <2>2. new.terminal = (w = Settler \/ w \in misled)
      BY DEF NewEvent
    <2> HIDE DEF new, millis
    <2>3. new.id[2] = seq + 1 /\ new.id[1] = millis
      BY <2>1
    <2> QED  BY <2>2, <2>3, Zenon
  <1>4. Event' = [id : (0 .. MaxClock) \X (0 .. seq + 1), terminal : BOOLEAN]
    BY <1>1 DEF Event
  <1>5. new \in Event'
    BY <1>1, <1>2, <1>4
  <1>6. \A e \in Event : e \in Event'
    <2>1. \A n \in 0 .. seq : n \in 0 .. seq + 1
      BY <1>1
    <2> QED  BY <1>4, <2>1 DEF Event
  <1> HIDE DEF new, millis
  <1>7. Len(log) \in Nat /\ DOMAIN log = 1 .. Len(log) /\ \A i \in DOMAIN log : log[i] \in Event
    BY <1>1, EventParts
  <1>8. /\ evs \in Seq(Event') /\ Len(evs) = Len(log) + 1 /\ evs[Len(log) + 1] = new
        /\ \A i \in 1 .. Len(log) : evs[i] = log[i]
    <2>1. log \in Seq(Event')
      <3>1. Event \subseteq Event'
        BY <1>6
      <3> QED  BY <1>1, <3>1, SeqMonotonic
    <2> QED  BY <1>5, <2>1, AppendProperties
  <1>9. /\ log' \in Capped(evs)
        /\ lapses' = lapses
           \cup {"backdated" : i \in {k \in DOMAIN evs : evs[k].id[1] > new.id[1]}}
           \cup {"overflow" : c \in blocked}
           \cup {"trimmed" : k \in {i \in DOMAIN evs : /\ evs[i].terminal /\ wpc[Settler] = "done"
                                                      /\ \A n \in DOMAIN log' : ~log'[n].terminal}}
    BY DEF AppendEvent, new
  <1> HIDE DEF evs
  <1> DEFINE over == IF Len(evs) > MaxLen THEN Len(evs) - MaxLen ELSE 0
  <1>10. PICK k \in 0 .. over : log' = SubSeq(evs, k + 1, Len(evs)) /\ (store = "mem" => k = over)
    <2>1. over \in Nat
      BY <1>1, <1>7, <1>8
    <2>2. PICK k \in (IF store = "mem" THEN {over} ELSE 0 .. over) : log' = SubSeq(evs, k + 1, Len(evs))
      BY <1>9 DEF Capped
    <2> HIDE DEF over
    <2> QED  BY <2>1, <2>2
  <1>11. k \in Nat /\ k <= Len(log) /\ (store = "mem" => Len(evs) - k <= MaxLen)
    BY <1>1, <1>7, <1>8, <1>10
  <1>12. /\ log' \in Seq(Event') /\ Len(log') = Len(log) + 1 - k /\ DOMAIN log' = 1 .. Len(log) + 1 - k
         /\ \A i \in 1 .. Len(log) + 1 - k : log'[i] = evs[k + i]
    <2>1. \A i \in (k + 1) .. Len(evs) : evs[i] \in Event'
      BY <1>8, <1>11, ElementOfSeq
    <2>2. k + 1 \in Int /\ Len(evs) \in Int
      BY <1>7, <1>8, <1>11
    <2>3. /\ log' \in Seq(Event')
          /\ Len(log') = IF k + 1 <= Len(evs) THEN Len(evs) - (k + 1) + 1 ELSE 0
          /\ \A i \in 1 .. Len(evs) - (k + 1) + 1 : log'[i] = evs[(k + 1) + i - 1]
      BY <1>10, <2>1, <2>2, SubSeqProperties
    <2>4. Len(log') = Len(log) + 1 - k
      BY <1>7, <1>8, <1>11, <2>3
    <2>5. DOMAIN log' = 1 .. Len(log')
      BY <2>3, LenProperties
    <2>6. \A i \in 1 .. Len(log) + 1 - k : log'[i] = evs[k + i]
      <3> SUFFICES ASSUME NEW i \in 1 .. Len(log) + 1 - k PROVE log'[i] = evs[k + i]
        OBVIOUS
      <3>1. (k + 1) + i - 1 = k + i /\ i \in 1 .. Len(evs) - (k + 1) + 1
        BY <1>7, <1>8, <1>11
      <3> QED  BY <2>3, <3>1
    <2> QED  BY <2>3, <2>4, <2>5, <2>6
  <1>13. \A i \in DOMAIN log' : \/ k + i \in DOMAIN log /\ log'[i] = log[k + i]
                                \/ k + i = Len(log) + 1 /\ log'[i] = new
    <2> SUFFICES ASSUME NEW i \in DOMAIN log'
                 PROVE  \/ k + i \in DOMAIN log /\ log'[i] = log[k + i]
                        \/ k + i = Len(log) + 1 /\ log'[i] = new
      OBVIOUS
    <2>1. /\ log'[i] = evs[k + i]
          /\ k + i \in 1 .. Len(log) \/ k + i = Len(log) + 1
      BY <1>7, <1>11, <1>12
    <2> QED  BY <1>7, <1>8, <2>1
  <1>14. \A i \in DOMAIN log' : log'[i] = new \/ In(log'[i], log)
    BY <1>13 DEF In
  <1>15. In(new, log')
    <2>1. Len(log) + 1 - k \in DOMAIN log' /\ k + (Len(log) + 1 - k) = Len(log) + 1
      BY <1>7, <1>11, <1>12
    <2>2. log'[Len(log) + 1 - k] = new
      BY <1>8, <1>12, <2>1
    <2> QED  BY <2>1, <2>2 DEF In
  <1>16. ASSUME Ascending(log) PROVE Ascending(log')
    <2> SUFFICES ASSUME NEW i \in DOMAIN log', NEW j \in DOMAIN log', i < j PROVE log'[i].id[2] < log'[j].id[2]
      BY DEF Ascending
    <2>1. i \in Nat /\ j \in Nat /\ k + i < k + j
      BY <1>7, <1>11, <1>12
    <2>2. k + i \in DOMAIN log /\ log'[i] = log[k + i] /\ log[k + i].id[2] <= seq /\ log[k + i].id[2] \in Nat
      <3>1. k + i # Len(log) + 1
        BY <1>7, <1>11, <1>12, <2>1
      <3> QED  BY <1>1, <1>7, <1>13, <3>1, EventParts
    <2>3. CASE k + j \in DOMAIN log /\ log'[j] = log[k + j]
      BY <1>16, <2>1, <2>2, <2>3 DEF Ascending
    <2>4. CASE log'[j] = new
      BY <1>1, <1>3, <2>2, <2>4
    <2> QED  BY <1>13, <2>3, <2>4
  <1>17. lapses \subseteq lapses' /\ lapses' \subseteq {"backdated", "overflow", "trimmed"}
    BY <1>9 DEF TypeOK
  <1>18. ASSUME "backdated" \notin lapses', NEW i \in DOMAIN log PROVE log[i].id[1] <= new.id[1]
    <2>1. DOMAIN evs = 1 .. Len(evs)
      BY <1>8, LenProperties
    <2>2. i \in DOMAIN evs /\ evs[i] = log[i]
      BY <1>7, <1>8, <2>1
    <2>3. ~(evs[i].id[1] > new.id[1])
      BY <1>9, <1>18, <2>2
    <2>4. log[i].id[1] \in Nat /\ new.id[1] \in Nat
      BY <1>1, <1>2, <1>3, <1>7, EventParts DEF millis
    <2> QED  BY <2>2, <2>3, <2>4
  <1>19. "overflow" \notin lapses' => blocked = {}
    BY <1>9
  <1>20. store = "mem" => Len(log') <= MaxLen
    BY <1>7, <1>8, <1>11, <1>12
  <1> QED  BY <1>3, <1>5, <1>6, <1>12, <1>14, <1>15, <1>16, <1>17, <1>18, <1>19, <1>20 DEF new, millis

-----------------------------------------------------------------------------
(***************************************************************************)
(* Types                                                                   *)
(***************************************************************************)

LEMMA TypeInit == Init => TypeOK
  <1> SUFFICES ASSUME Init PROVE TypeOK
    OBVIOUS
  <1>1. MaxLen \in Nat \ {0} /\ Slack \in Nat /\ MaxClock \in Nat /\ MaxResumes \in Nat /\ MaxFaults \in Nat
    BY WatchAssumption
  <1>2. <<>> \in Seq(Event) /\ Len(<<>>) = 0
    BY EmptySeq
  <1>3. <<0, 0>> \in (0 .. MaxClock) \X (0 .. seq)
    BY <1>1 DEF Init
  <1>4. \A c \in Clients : Len(pend[c]) <= MaxLen + Slack
    BY <1>1, <1>2 DEF Init
  <1>5. Len(log) <= MaxLen
    BY <1>1, <1>2 DEF Init
  <1>6. clock \in 0 .. MaxClock /\ stamp \in [Writers -> 0 .. MaxClock] /\ resumes \in [Clients -> 0 .. MaxResumes]
        /\ faults \in 0 .. MaxFaults /\ seq \in Nat
    BY <1>1 DEF Init
  <1> HIDE DEF Event
  <1>7. /\ log \in Seq(Event) /\ pend \in [Clients -> Seq(Event)] /\ got \in [Clients -> Seq(Event)]
        /\ cursor \in [Clients -> (0 .. MaxClock) \X (0 .. seq)]
    BY <1>2, <1>3 DEF Init
  <1>8. /\ wpc \in [Writers -> {"idle", "stamped", "checked", "done"}]
        /\ pc \in [Clients -> {"away", "open", "live", "replay", "eof", "error"}]
        /\ store \in {"redis", "mem"} /\ lapses \subseteq {"backdated", "overflow", "trimmed"}
        /\ settled \in BOOLEAN /\ deleted \in BOOLEAN /\ watching \in SUBSET Clients /\ found \in SUBSET Clients
        /\ misled \in SUBSET Writers
    BY DEF Init
  <1> QED  BY <1>4, <1>5, <1>6, <1>7, <1>8 DEF TypeOK

\* What a client's step does to the types of what is pending for it.
LEMMA PendTyped ==
    ASSUME TypeOK, NEW c \in Clients, NEW s \in Seq(Event), store = "mem" => Len(s) <= MaxLen + Slack,
           pend' = [pend EXCEPT ![c] = s], UNCHANGED <<store, seq, log>>
    PROVE  /\ pend' \in [Clients -> Seq(Event)']
           /\ (store = "mem" => Len(log) <= MaxLen /\ \A d \in Clients : Len(pend[d]) <= MaxLen + Slack)'
  <1>1. Event' = Event
    BY DEF Event
  <1>2. pend \in [Clients -> Seq(Event)]
    BY DEF TypeOK
  <1>3. pend' \in [Clients -> Seq(Event)]
    BY <1>2
  <1>4. \A d \in Clients : pend'[d] = IF d = c THEN s ELSE pend[d]
    BY <1>2
  <1>5. (store = "mem" => Len(log) <= MaxLen /\ \A d \in Clients : Len(pend[d]) <= MaxLen + Slack)'
    BY <1>4 DEF TypeOK
  <1> QED  BY <1>1, <1>3, <1>5

\* The empty buffer, a page and a history are all within the buffer's cap.
LEMMA Fits ==
    ASSUME TypeOK, Ascending(log)
    PROVE  /\ <<>> \in Seq(Event) /\ (store = "mem" => Len(<<>>) <= MaxLen + Slack)
           /\ \A s, id : Reads(s, id) => s \in Seq(Event) /\ (store = "mem" => Len(s) <= MaxLen + Slack)
  <1>1. MaxLen \in Nat \ {0} /\ Slack \in Nat /\ log \in Seq(Event) /\ seq \in Nat
    BY WatchAssumption DEF TypeOK
  <1>2. <<>> \in Seq(Event) /\ Len(<<>>) = 0
    BY EmptySeq
  <1>3. ASSUME NEW s, NEW id, Reads(s, id), store = "mem" PROVE Len(s) <= MaxLen + Slack
    <2>1. Len(s) \in Nat /\ Len(log) \in Nat /\ Len(s) <= Len(log) /\ Len(log) <= MaxLen
      BY <1>1, <1>3, LenProperties DEF Reads, TypeOK
    <2> QED  BY <1>1, <2>1
  <1>4. Len(<<>>) <= MaxLen + Slack
    BY <1>1, <1>2
  <1>5. \A s, id : Reads(s, id) => s \in Seq(Event)
    BY DEF Reads
  <1> QED  BY <1>2, <1>3, <1>4, <1>5

\* The variables a client's step may change keep their types.
LEMMA ClientTyped ==
    ASSUME TypeOK, UNCHANGED <<recordVars, logVars, clock, writerVars>>,
           pc' \in [Clients -> {"away", "open", "live", "replay", "eof", "error"}],
           cursor' \in [Clients -> (0 .. MaxClock) \X (0 .. seq)],
           pend' \in [Clients -> Seq(Event)'], got' \in [Clients -> Seq(Event)],
           watching' \in SUBSET Clients, found' \in SUBSET Clients,
           resumes' \in [Clients -> 0 .. MaxResumes], faults' \in 0 .. MaxFaults,
           (store = "mem" => Len(log) <= MaxLen /\ \A d \in Clients : Len(pend[d]) <= MaxLen + Slack)'
    PROVE  TypeOK'
  <1>1. Event' = Event
    BY DEF Event, logVars
  <1> HIDE DEF Event
  <1> QED  BY <1>1 DEF TypeOK, recordVars, logVars, writerVars

LEMMA TypeClose ==
    ASSUME TypeOK, Ascending(log), NEW c \in Clients, NEW how \in {"eof", "error"}, Close(c, how),
           UNCHANGED <<recordVars, logVars, clock, writerVars>>, faults' \in 0 .. MaxFaults
    PROVE  TypeOK'
  <1>1. pend' = [pend EXCEPT ![c] = <<>>] /\ UNCHANGED <<store, seq, log>>
    BY DEF Close, recordVars, logVars
  <1>2. /\ pend' \in [Clients -> Seq(Event)']
        /\ (store = "mem" => Len(log) <= MaxLen /\ \A d \in Clients : Len(pend[d]) <= MaxLen + Slack)'
    BY <1>1, Fits, PendTyped
  <1>3. /\ pc' \in [Clients -> {"away", "open", "live", "replay", "eof", "error"}]
        /\ cursor' \in [Clients -> (0 .. MaxClock) \X (0 .. seq)] /\ got' \in [Clients -> Seq(Event)]
        /\ watching' \in SUBSET Clients /\ found' \in SUBSET Clients /\ resumes' \in [Clients -> 0 .. MaxResumes]
    BY DEF Close, TypeOK
  <1> QED  BY <1>2, <1>3, ClientTyped

LEMMA TypeRead ==
    ASSUME TypeOK, Ascending(log), NEW c \in Clients, NEW s, NEW id, Reads(s, id), pend' = [pend EXCEPT ![c] = s],
           UNCHANGED <<recordVars, logVars, clock, writerVars, cursor, got, resumes, faults>>,
           pc' \in [Clients -> {"away", "open", "live", "replay", "eof", "error"}],
           watching' \in SUBSET Clients, found' \in SUBSET Clients
    PROVE  TypeOK'
  <1>1. UNCHANGED <<store, seq, log>>
    BY DEF recordVars, logVars
  <1>2. /\ pend' \in [Clients -> Seq(Event)']
        /\ (store = "mem" => Len(log) <= MaxLen /\ \A d \in Clients : Len(pend[d]) <= MaxLen + Slack)'
    BY <1>1, Fits, PendTyped
  <1>3. /\ cursor' \in [Clients -> (0 .. MaxClock) \X (0 .. seq)] /\ got' \in [Clients -> Seq(Event)]
        /\ resumes' \in [Clients -> 0 .. MaxResumes] /\ faults' \in 0 .. MaxFaults
    BY DEF TypeOK
  <1> QED  BY <1>2, <1>3, ClientTyped

\* The head of what is pending, and the rest.
LEMMA HeadOff ==
    ASSUME seq \in Nat, NEW s \in Seq(Event), s # <<>>
    PROVE  /\ Head(s) \in Event /\ Head(s) = s[1] /\ 1 \in DOMAIN s
           /\ Tail(s) \in Seq(Event) /\ Len(Tail(s)) <= Len(s) /\ DOMAIN Tail(s) = 1 .. Len(s) - 1
           /\ \A i \in DOMAIN Tail(s) : i \in Nat /\ i + 1 \in DOMAIN s /\ Tail(s)[i] = s[i + 1]
           /\ \A i \in DOMAIN s : i \in Nat /\ (i # 1 => i - 1 \in DOMAIN Tail(s))
  <1>1. Len(s) \in Nat \ {0} /\ DOMAIN s = 1 .. Len(s)
    BY EmptySeq, LenProperties
  <1>2. /\ Head(s) \in Event /\ Tail(s) \in Seq(Event) /\ Len(Tail(s)) = Len(s) - 1
        /\ \A i \in 1 .. Len(Tail(s)) : Tail(s)[i] = s[i + 1]
    BY HeadTailProperties
  <1>3. DOMAIN Tail(s) = 1 .. Len(s) - 1
    BY <1>2, LenProperties
  <1>4. Head(s) = s[1]
    OBVIOUS
  <1> QED  BY <1>1, <1>2, <1>3, <1>4

LEMMA TypeDeliver ==
    ASSUME TypeOK, Ascending(log), NEW c \in Clients, Deliver(c)
    PROVE  TypeOK'
  <1> DEFINE ev == Head(pend[c])
             last == pc[c] = "live" /\ IsTerminalStatusEvent(ev)
             rest == IF last THEN <<>> ELSE Tail(pend[c])
  <1>1. /\ pend[c] \in Seq(Event) /\ pend[c] # <<>> /\ got[c] \in Seq(Event) /\ seq \in Nat
        /\ DOMAIN pend = Clients /\ DOMAIN got = Clients /\ DOMAIN cursor = Clients
    BY DEF TypeOK, Deliver
  <1>2. ev \in Event /\ Tail(pend[c]) \in Seq(Event) /\ Len(Tail(pend[c])) <= Len(pend[c])
    BY <1>1, HeadOff
  <1>3. /\ got' = [got EXCEPT ![c] = Append(got[c], ev)] /\ cursor' = [cursor EXCEPT ![c] = ev.id]
        /\ pend' = [pend EXCEPT ![c] = rest]
        /\ pc' = (IF last THEN [pc EXCEPT ![c] = "eof"] ELSE pc)
        /\ watching' = (IF last THEN watching \ {c} ELSE watching)
        /\ UNCHANGED <<recordVars, logVars, clock, writerVars, found, resumes, faults, store, seq, log>>
    BY <1>1 DEF Deliver, recordVars, logVars
  <1>4. MaxLen \in Nat \ {0} /\ Slack \in Nat /\ MaxClock \in Nat
    BY WatchAssumption
  <1>5. rest \in Seq(Event) /\ (store = "mem" => Len(rest) <= MaxLen + Slack)
    <2>1. Len(pend[c]) \in Nat /\ Len(Tail(pend[c])) \in Nat
      BY <1>1, <1>2, LenProperties
    <2>2. store = "mem" => Len(Tail(pend[c])) <= MaxLen + Slack
      BY <1>2, <1>4, <2>1 DEF TypeOK
    <2> QED  BY <1>2, <2>2, Fits
  <1> HIDE DEF rest
  <1>6. /\ pend' \in [Clients -> Seq(Event)']
        /\ (store = "mem" => Len(log) <= MaxLen /\ \A d \in Clients : Len(pend[d]) <= MaxLen + Slack)'
    BY <1>3, <1>5, PendTyped
  <1>7. Append(got[c], ev) \in Seq(Event) /\ ev.id \in (0 .. MaxClock) \X (0 .. seq)
    BY <1>1, <1>2, AppendProperties DEF Event
  <1> HIDE DEF ev, last
  <1>8. /\ got' \in [Clients -> Seq(Event)] /\ cursor' \in [Clients -> (0 .. MaxClock) \X (0 .. seq)]
        /\ pc' \in [Clients -> {"away", "open", "live", "replay", "eof", "error"}]
        /\ watching' \in SUBSET Clients /\ found' \in SUBSET Clients
        /\ resumes' \in [Clients -> 0 .. MaxResumes] /\ faults' \in 0 .. MaxFaults
    BY <1>3, <1>7 DEF TypeOK
  <1> QED  BY <1>3, <1>6, <1>8, ClientTyped

\* An append, and the watchers of the in-memory store it reaches.
Adds(w, room) ==
    /\ wpc[w] # "idle"
    /\ \E blocked : AppendEvent(w, blocked) /\ blocked = watching \ room
    /\ room \subseteq watching
    /\ \A c \in room : Len(pend[c]) < MaxLen + Slack
    /\ pend' = [c \in Clients |-> IF c \in room THEN Append(pend[c], NewEvent(w)) ELSE pend[c]]
    /\ UNCHANGED <<store, deleted, cursor, got, watching>>
    /\ store = "mem" => ~deleted

LEMMA MemAdds ==
    ASSUME NEW w \in Writers, MemAppend(w), ~deleted
    PROVE  Adds(w, {c \in watching : Len(pend[c]) < MaxLen + Slack})
  BY DEF MemAppend, Adds, recordVars

LEMMA RedisAdds ==
    ASSUME TypeOK, WatcherInv, NEW w \in Writers, XAdd(w)
    PROVE  Adds(w, {})
  <1>1. watching = {} /\ store = "redis"
    BY DEF WatcherInv, XAdd
  <1>2. pend' = pend /\ pend = [c \in Clients |-> pend[c]]
    BY DEF XAdd, TypeOK, clientVars
  <1> QED  BY <1>1, <1>2 DEF XAdd, Adds, recordVars, clientVars

LEMMA TypeAdds ==
    ASSUME TypeOK, NEW w \in Writers, NEW room, Adds(w, room), WriterDone(w),
           UNCHANGED <<recordVars, clock, pc, cursor, got, watching, found, resumes, faults>>
    PROVE  TypeOK'
  <1> DEFINE new == NewEvent(w)
  <1>1. PICK blocked : AppendEvent(w, blocked)
    BY DEF Adds
  <1>2. /\ new \in Event' /\ (\A e \in Event : e \in Event') /\ log' \in Seq(Event') /\ seq' = seq + 1
        /\ (store = "mem" => Len(log') <= MaxLen) /\ lapses' \subseteq {"backdated", "overflow", "trimmed"}
    BY <1>1, Appended DEF AppendEvent
  <1>3. \A s \in Seq(Event) : s \in Seq(Event')
    <2>1. Event \subseteq Event'
      BY <1>2
    <2> QED  BY <2>1, SeqMonotonic
  <1>4. /\ MaxLen \in Nat /\ Slack \in Nat /\ seq \in Nat /\ pend \in [Clients -> Seq(Event)]
        /\ got \in [Clients -> Seq(Event)] /\ cursor \in [Clients -> (0 .. MaxClock) \X (0 .. seq)]
    BY WatchAssumption DEF TypeOK
  <1> HIDE DEF new
  <1>5. \A c \in Clients : /\ Append(pend[c], new) \in Seq(Event')
                           /\ Len(Append(pend[c], new)) = Len(pend[c]) + 1 /\ Len(pend[c]) \in Nat
    <2> TAKE c \in Clients
    <2>1. pend[c] \in Seq(Event')
      BY <1>3, <1>4
    <2> QED  BY <1>2, <2>1, AppendProperties, LenProperties
  <1>6. pend' = [c \in Clients |-> IF c \in room THEN Append(pend[c], new) ELSE pend[c]]
    BY DEF Adds, new
  <1>7. pend' \in [Clients -> Seq(Event')] /\ got' \in [Clients -> Seq(Event')]
    BY <1>3, <1>4, <1>5, <1>6
  <1>8. cursor' \in [Clients -> (0 .. MaxClock) \X (0 .. seq')]
    <2>1. \A n \in 0 .. seq : n \in 0 .. seq'
      BY <1>2, <1>4
    <2>2. \A c \in Clients : cursor[c] \in (0 .. MaxClock) \X (0 .. seq')
      BY <1>4, <2>1
    <2> QED  BY <1>4, <2>2
  <1>9. ASSUME store = "mem", NEW c \in Clients PROVE Len(pend'[c]) <= MaxLen + Slack
    <2>1. CASE c \in room
      <3>1. Len(pend[c]) < MaxLen + Slack /\ pend'[c] = Append(pend[c], new)
        BY <1>6, <2>1 DEF Adds
      <3> QED  BY <1>4, <1>5, <3>1
    <2>2. CASE c \notin room
      BY <1>6, <1>9, <2>2 DEF TypeOK
    <2> QED  BY <2>1, <2>2
  <1>10. wpc' \in [Writers -> {"idle", "stamped", "checked", "done"}] /\ stamp' = stamp /\ misled' = misled
    BY DEF WriterDone, TypeOK
  <1>11. seq' \in Nat
    BY <1>2, <1>4
  <1> HIDE DEF Event
  <1> QED  BY <1>2, <1>7, <1>8, <1>9, <1>10, <1>11 DEF TypeOK, recordVars

\* The disjuncts of a read: a live watch or a replay gets a page, a new watch
\* of the in-memory store its history, one of Redis nothing yet.
LEMMA ReadCases ==
    ASSUME TypeOK, Ascending(log)
    PROVE  /\ \A c \in Clients : Reads(ReadEvents(cursor[c]), cursor[c]) /\ Reads(History(c), cursor[c])
           /\ \A id : Reads(<<>>, id)
  <1>1. \A id : Reads(<<>>, id)
    <2>1. Len(log) \in Nat
      BY LenProperties DEF TypeOK
    <2>2. <<>> \in Seq(Event) /\ Len(<<>>) = 0 /\ DOMAIN <<>> = {}
      BY EmptySeq
    <2>3. Len(<<>>) <= Len(log) /\ Ascending(<<>>)
      BY <2>1, <2>2 DEF Ascending
    <2> QED  BY <2>2, <2>3 DEF Reads
  <1>2. \A c \in Clients : Reads(ReadEvents(cursor[c]), cursor[c])
    BY PageRead
  <1>3. \A c \in Clients : Reads(History(c), cursor[c])
    BY <1>1, HistoryRead DEF History
  <1> QED  BY <1>1, <1>2, <1>3

LEMMA TypeStep ==
    ASSUME TypeOK, Ascending(log), WatcherInv, [Next]_vars
    PROVE  TypeOK'
  <1> USE DEF recordVars, logVars, writerVars, clientVars
  <1>0. MaxClock \in Nat /\ MaxFaults \in Nat /\ MaxResumes \in Nat /\ faults \in 0 .. MaxFaults
    BY WatchAssumption DEF TypeOK
  <1>1. ASSUME NEW w \in Writers, Stamp(w) PROVE TypeOK'
    BY <1>1 DEF Stamp, TypeOK, Event
  <1>1a. ASSUME NEW w \in Writers, Mislead(w) PROVE TypeOK'
    BY <1>1a DEF Mislead, TypeOK, Event
  <1>2. ASSUME NEW w \in Writers, MemAppend(w) PROVE TypeOK'
    <2>1. CASE deleted
      BY <1>2, <2>1 DEF MemAppend, WriterDone, TypeOK, Event
    <2>2. CASE ~deleted
      <3>1. Adds(w, {c \in watching : Len(pend[c]) < MaxLen + Slack})
        BY <1>2, <2>2, MemAdds
      <3>2. WriterDone(w) /\ UNCHANGED <<recordVars, clock, pc, cursor, got, watching, found, resumes, faults>>
        BY <1>2 DEF MemAppend
      <3> QED  BY <3>1, <3>2, TypeAdds
    <2> QED  BY <2>1, <2>2
  <1>3. ASSUME NEW w \in Writers, CheckExists(w) PROVE TypeOK'
    BY <1>3 DEF CheckExists, TypeOK, Event
  <1>4. ASSUME NEW w \in Writers, XAdd(w) PROVE TypeOK'
    <2>1. Adds(w, {})
      BY <1>4, RedisAdds
    <2>2. WriterDone(w) /\ UNCHANGED <<recordVars, clock, pc, cursor, got, watching, found, resumes, faults>>
      BY <1>4 DEF XAdd
    <2> QED  BY <2>1, <2>2, TypeAdds
  <1>5. ASSUME faults < MaxFaults, faults' = faults + 1 PROVE faults' \in 0 .. MaxFaults
    BY <1>0, <1>5
  <1>6. ASSUME NEW w \in Writers, AppendFails(w) PROVE TypeOK'
    <2>1. faults' \in 0 .. MaxFaults
      BY <1>5, <1>6 DEF AppendFails
    <2> QED  BY <1>6, <2>1 DEF AppendFails, WriterDone, TypeOK, Event
  <1>7. ASSUME Settle PROVE TypeOK'
    BY <1>7 DEF Settle, TypeOK, Event
  <1>8. ASSUME Tick PROVE TypeOK'
    <2>1. clock' \in 0 .. MaxClock
      BY <1>0, <1>8 DEF Tick, TypeOK
    <2> QED  BY <1>8, <2>1 DEF Tick, TypeOK, Event
  <1>9. ASSUME Delete PROVE TypeOK'
    <2>1. <<>> \in Seq(Event) /\ Len(<<>>) = 0 /\ Event' = Event /\ MaxLen \in Nat
      BY <1>9, EmptySeq, WatchAssumption DEF Delete, Event
    <2>2. log' \in Seq(Event) /\ Len(log') <= MaxLen
      BY <1>9, <2>1 DEF Delete
    <2> HIDE DEF Event
    <2> QED  BY <1>9, <2>1, <2>2 DEF Delete, CutWatchers, TypeOK
  <1>10. ASSUME NEW c \in Clients, WatchJob(c) PROVE TypeOK'
    BY <1>10 DEF WatchJob, TypeOK, Event
  <1>11. ASSUME NEW c \in Clients, WatchEvents(c) PROVE TypeOK'
    <2>1. CASE Close(c, "error")
      BY <1>0, <1>11, <2>1, TypeClose DEF WatchEvents
    <2>2. CASE ~deleted /\ pc' = [pc EXCEPT ![c] = "live"]
      <3>1. /\ pend' = [pend EXCEPT ![c] = History(c)]
            /\ UNCHANGED <<recordVars, logVars, clock, writerVars, cursor, got, resumes, faults, found>>
        BY <1>11, <2>2 DEF WatchEvents
      <3>2. /\ pc' \in [Clients -> {"away", "open", "live", "replay", "eof", "error"}]
            /\ watching' \in SUBSET Clients /\ found' \in SUBSET Clients
        BY <1>11, <2>2, <3>1 DEF WatchEvents, TypeOK
      <3> QED  BY <3>1, <3>2, ReadCases, TypeRead
    <2> QED  BY <1>11, <2>1, <2>2 DEF WatchEvents
  <1>12. ASSUME NEW c \in Clients, ReadCheck(c) PROVE TypeOK'
    <2>1. CASE Close(c, "eof")
      BY <1>0, <1>12, <2>1, TypeClose DEF ReadCheck
    <2>2. CASE UNCHANGED <<pc, cursor, pend, got, watching, resumes>> /\ found' = found \cup {c}
      BY <1>12, <2>2 DEF ReadCheck, TypeOK, Event
    <2> QED  BY <1>12, <2>1, <2>2 DEF ReadCheck
  <1>13. ASSUME NEW c \in Clients, ReadPage(c) PROVE TypeOK'
    <2>1. CASE Close(c, "eof")
      BY <1>0, <1>13, <2>1, TypeClose DEF ReadPage
    <2>2. CASE /\ pend' = [pend EXCEPT ![c] = ReadEvents(cursor[c])] /\ found' = found \ {c}
               /\ UNCHANGED <<pc, cursor, got, watching, resumes>>
      <3>1. UNCHANGED <<recordVars, logVars, clock, writerVars, cursor, got, resumes, faults>>
        BY <1>13, <2>2 DEF ReadPage
      <3>2. /\ pc' \in [Clients -> {"away", "open", "live", "replay", "eof", "error"}]
            /\ watching' \in SUBSET Clients /\ found' \in SUBSET Clients
        BY <2>2 DEF TypeOK
      <3> QED  BY <2>2, <3>1, <3>2, ReadCases, TypeRead
    <2> QED  BY <1>13, <2>1, <2>2 DEF ReadPage
  <1>14. ASSUME NEW c \in Clients, WatcherCut(c) PROVE TypeOK'
    BY <1>0, <1>14, TypeClose DEF WatcherCut
  <1>15. ASSUME NEW c \in Clients, Deliver(c) PROVE TypeOK'
    BY <1>15, TypeDeliver
  <1>16. ASSUME NEW c \in Clients, ReadFails(c) PROVE TypeOK'
    <2>1. faults' \in 0 .. MaxFaults
      BY <1>5, <1>16 DEF ReadFails
    <2>2. PICK how \in {"eof", "error"} : Close(c, how)
      BY <1>16 DEF ReadFails
    <2> QED  BY <1>16, <2>1, <2>2, TypeClose DEF ReadFails
  <1>17. ASSUME NEW c \in Clients, Disconnect(c) PROVE TypeOK'
    <2>1. resumes' \in [Clients -> 0 .. MaxResumes]
      BY <1>0, <1>17 DEF Disconnect, TypeOK
    <2>2. pend' = [pend EXCEPT ![c] = <<>>] /\ UNCHANGED <<store, seq, log>>
      BY <1>17 DEF Disconnect
    <2>3. /\ pend' \in [Clients -> Seq(Event)']
          /\ (store = "mem" => Len(log) <= MaxLen /\ \A d \in Clients : Len(pend[d]) <= MaxLen + Slack)'
      BY <2>2, Fits, PendTyped
    <2>4. /\ pc' \in [Clients -> {"away", "open", "live", "replay", "eof", "error"}]
          /\ cursor' \in [Clients -> (0 .. MaxClock) \X (0 .. seq)] /\ got' \in [Clients -> Seq(Event)]
          /\ watching' \in SUBSET Clients /\ found' \in SUBSET Clients /\ faults' \in 0 .. MaxFaults
      BY <1>17 DEF Disconnect, TypeOK
    <2>5. UNCHANGED <<recordVars, logVars, clock, writerVars>>
      BY <1>17 DEF Disconnect
    <2> QED  BY <2>1, <2>3, <2>4, <2>5, ClientTyped
  <1>18. CASE UNCHANGED vars
    BY <1>18 DEF vars, TypeOK, Event
  <1> QED
    BY <1>1, <1>1a, <1>2, <1>3, <1>4, <1>6, <1>7, <1>8, <1>9, <1>10, <1>11, <1>12, <1>13, <1>14, <1>15, <1>16, <1>17,
       <1>18 DEF Next, WriterStep, ClientStep

-----------------------------------------------------------------------------
(***************************************************************************)
(* What a step does to the timeline and to the clients                     *)
(***************************************************************************)

\* Neither the timeline nor what a client has or waits for changes.
Quiet == UNCHANGED <<store, deleted, log, seq, lapses, cursor, pend, got, watching>>

\* The store hands c another run of events, which may be empty: the end of a
\* watch hands it the empty one.
Queues(c) ==
    /\ UNCHANGED <<store, deleted, log, seq, lapses, cursor, got>>
    /\ watching' \subseteq watching \cup {c}
    /\ \E s : /\ Reads(s, cursor[c])
              /\ pend' = [pend EXCEPT ![c] = s]
              /\ c \in watching' => \A i \in DOMAIN log : IDLess(cursor[c], log[i].id) => In(log[i], s)

LEMMA Effects ==
    ASSUME TypeOK, Ascending(log), WatcherInv, [Next]_vars
    PROVE  \/ Quiet \/ Delete
           \/ \E c \in Clients : Queues(c) \/ Deliver(c)
           \/ \E w \in Writers : \E room : Adds(w, room)
  <1> USE DEF recordVars, logVars, writerVars, clientVars
  <1>1. ASSUME NEW w \in Writers, MemAppend(w) PROVE Quiet \/ \E room : Adds(w, room)
    <2>1. CASE deleted
      BY <1>1, <2>1 DEF MemAppend, Quiet
    <2>2. CASE ~deleted
      BY <1>1, <2>2, MemAdds
    <2> QED  BY <2>1, <2>2
  <1>2. ASSUME NEW w \in Writers, Stamp(w) \/ Mislead(w) \/ CheckExists(w) \/ AppendFails(w) PROVE Quiet
    BY <1>2 DEF Stamp, Mislead, CheckExists, AppendFails, Quiet
  <1>3. ASSUME NEW w \in Writers, XAdd(w) PROVE \E room : Adds(w, room)
    BY <1>3, RedisAdds
  <1>4. ASSUME Settle \/ Tick \/ UNCHANGED vars PROVE Quiet
    BY <1>4 DEF Settle, Tick, vars, Quiet
  <1>5. ASSUME NEW c \in Clients, pend' = [pend EXCEPT ![c] = <<>>], watching' = watching \ {c},
               UNCHANGED <<store, deleted, log, seq, lapses, cursor, got>>
        PROVE  Queues(c)
    BY <1>5, ReadCases DEF Queues
  <1>6. ASSUME NEW c \in Clients, NEW how, Close(c, how), UNCHANGED <<recordVars, logVars>> PROVE Queues(c)
    BY <1>5, <1>6 DEF Close
  <1>7. ASSUME NEW c \in Clients, WatchEvents(c) PROVE Queues(c)
    <2>1. CASE Close(c, "error")
      BY <1>6, <1>7, <2>1 DEF WatchEvents
    <2>2. CASE /\ pend' = [pend EXCEPT ![c] = History(c)]
               /\ watching' = IF store = "mem" THEN watching \cup {c} ELSE watching
               /\ UNCHANGED <<cursor, got, found, resumes>>
      <3>1. c \in watching' => \A i \in DOMAIN log : IDLess(cursor[c], log[i].id) => In(log[i], History(c))
        <4>1. CASE store = "mem"
          BY <4>1, HistoryRead DEF History
        <4>2. CASE store = "redis"
          BY <2>2, <4>2 DEF WatcherInv
        <4> QED  BY <4>1, <4>2 DEF TypeOK
      <3>2. UNCHANGED <<store, deleted, log, seq, lapses, cursor, got>>
        BY <1>7, <2>2 DEF WatchEvents
      <3>3. watching' \subseteq watching \cup {c}
        BY <2>2
      <3> QED  BY <2>2, <3>1, <3>2, <3>3, ReadCases DEF Queues
    <2> QED  BY <1>7, <2>1, <2>2 DEF WatchEvents
  <1>8. ASSUME NEW c \in Clients, ReadCheck(c) PROVE Quiet \/ Queues(c)
    <2>1. CASE Close(c, "eof")
      BY <1>6, <1>8, <2>1 DEF ReadCheck
    <2>2. CASE UNCHANGED <<pc, cursor, pend, got, watching, resumes>>
      BY <1>8, <2>2 DEF ReadCheck, Quiet
    <2> QED  BY <1>8, <2>1, <2>2 DEF ReadCheck
  <1>9. ASSUME NEW c \in Clients, ReadPage(c) PROVE Queues(c)
    <2>1. CASE Close(c, "eof")
      BY <1>6, <1>9, <2>1 DEF ReadPage
    <2>2. CASE /\ pend' = [pend EXCEPT ![c] = ReadEvents(cursor[c])]
               /\ UNCHANGED <<pc, cursor, got, watching, resumes>>
      <3>1. c \notin watching
        BY <1>9 DEF ReadPage, Reading, WatcherInv
      <3> QED  BY <1>9, <2>2, <3>1, ReadCases DEF ReadPage, Queues
    <2> QED  BY <1>9, <2>1, <2>2 DEF ReadPage
  <1>10. ASSUME NEW c \in Clients, WatcherCut(c) \/ ReadFails(c) PROVE Queues(c)
    BY <1>6, <1>10 DEF WatcherCut, ReadFails
  <1>11. ASSUME NEW c \in Clients, Disconnect(c) PROVE Queues(c)
    BY <1>5, <1>11 DEF Disconnect
  <1>12. ASSUME NEW c \in Clients, WatchJob(c) PROVE Quiet
    BY <1>12 DEF WatchJob, Quiet
  <1> QED
    BY <1>1, <1>2, <1>3, <1>4, <1>7, <1>8, <1>9, <1>10, <1>11, <1>12 DEF Next, WriterStep, ClientStep

\* A watcher belongs to a live watch, whatever happens.
LEMMA WatcherStep ==
    ASSUME TypeOK, WatcherInv, [Next]_vars
    PROVE  WatcherInv'
  <1> USE DEF recordVars, logVars, writerVars, clientVars
  <1>0. /\ DOMAIN pc = Clients /\ DOMAIN wpc = Writers
        /\ watching \subseteq Clients
    BY DEF TypeOK
  <1>1. ASSUME NEW w \in Writers,
               Stamp(w) \/ Mislead(w) \/ MemAppend(w) \/ CheckExists(w) \/ XAdd(w) \/ AppendFails(w)
        PROVE  WatcherInv'
    BY <1>0, <1>1 DEF Stamp, Mislead, MemAppend, CheckExists, XAdd, AppendFails, WriterDone, WatcherInv
  <1>2. ASSUME Settle \/ Tick \/ Delete \/ UNCHANGED vars PROVE WatcherInv'
    BY <1>0, <1>2 DEF Settle, Tick, Delete, CutWatchers, vars, WatcherInv
  <1>3. ASSUME NEW c \in Clients, NEW how, Close(c, how), UNCHANGED <<store, wpc>> PROVE WatcherInv'
    BY <1>0, <1>3 DEF Close, WatcherInv
  <1>4. ASSUME NEW c \in Clients, ClientStep(c) \/ WatchJob(c) \/ ReadFails(c) \/ Disconnect(c) PROVE WatcherInv'
    <2>1. CASE WatchJob(c) \/ Disconnect(c)
      BY <1>0, <2>1 DEF WatchJob, Disconnect, WatcherInv
    <2>2. CASE WatchEvents(c)
      BY <1>0, <1>3, <2>2 DEF WatchEvents, WatcherInv
    <2>3. CASE ReadCheck(c) \/ ReadPage(c)
      BY <1>0, <1>3, <2>3 DEF ReadCheck, ReadPage, WatcherInv
    <2>4. CASE WatcherCut(c) \/ ReadFails(c)
      BY <1>3, <2>4 DEF WatcherCut, ReadFails
    <2>5. CASE Deliver(c)
      BY <1>0, <2>5 DEF Deliver, WatcherInv
    <2> QED  BY <1>4, <2>1, <2>2, <2>3, <2>4, <2>5 DEF ClientStep
  <1> QED  BY <1>1, <1>2, <1>4 DEF Next, WriterStep

-----------------------------------------------------------------------------
(***************************************************************************)
(* Order                                                                   *)
(***************************************************************************)

\* What is held is an event.
LEMMA HeldTyped ==
    ASSUME TypeOK
    PROVE  /\ \A e : Held(e) => e \in Event
           /\ \A i \in DOMAIN log : log[i] \in Event /\ Held(log[i])
           /\ \A c \in Clients : /\ \A i \in DOMAIN pend[c] : pend[c][i] \in Event /\ Held(pend[c][i])
                                 /\ \A i \in DOMAIN got[c] : got[c][i] \in Event /\ Held(got[c][i])
  <1>1. /\ seq \in Nat /\ log \in Seq(Event)
        /\ \A c \in Clients : pend[c] \in Seq(Event) /\ got[c] \in Seq(Event)
    BY DEF TypeOK
  <1>2. \A s \in Seq(Event) : \A i \in DOMAIN s : s[i] \in Event
    BY <1>1, EventParts
  <1> QED  BY <1>1, <1>2 DEF Held, In

\* Unless events were backdated, the IDs that come after a client's cursor
\* are those of the events appended after it.
LEMMA AfterCursor ==
    ASSUME TypeOK, OrderInv, "backdated" \notin lapses, NEW c \in Clients, NEW i \in DOMAIN log
    PROVE  IDLess(cursor[c], log[i].id) <=> cursor[c][2] < log[i].id[2]
  <1> DEFINE e == log[i]
  <1>1. e \in Event /\ Held(e) /\ seq \in Nat
    BY HeldTyped DEF TypeOK
  <1>2. e.id[1] \in Nat /\ e.id[2] \in Nat /\ e.id[2] > 0
    BY <1>1, EventParts DEF OrderInv, Topped
  <1> HIDE DEF e
  <1>3. CASE cursor[c] = <<0, 0>>
    <2>1. cursor[c][1] = 0 /\ cursor[c][2] = 0
      BY <1>3
    <2> QED  BY <1>2, <2>1 DEF IDLess, e
  <1>4. ASSUME NEW k \in DOMAIN got[c], cursor[c] = got[c][k].id
        PROVE  IDLess(cursor[c], e.id) <=> cursor[c][2] < e.id[2]
    <2> DEFINE f == got[c][k]
    <2>1. f \in Event /\ Held(f)
      BY HeldTyped
    <2>2. f.id[1] \in Nat /\ f.id[2] \in Nat
      BY <1>1, <2>1, EventParts
    <2>3. Agree(e, f) /\ Agree(f, e)
      BY <1>1, <2>1 DEF OrderInv
    <2>4. cursor[c] = f.id
      BY <1>4
    <2> HIDE DEF f
    <2>5. /\ e.id[2] = f.id[2] => e.id[1] = f.id[1]
          /\ e.id[2] < f.id[2] => e.id[1] <= f.id[1]
          /\ f.id[2] < e.id[2] => f.id[1] <= e.id[1]
      BY <2>3 DEF Agree
    <2> QED  BY <1>2, <2>2, <2>4, <2>5 DEF IDLess
  <1> QED  BY <1>3, <1>4 DEF OrderInv, Placed, e

\* A step that brings no new event keeps the events in agreement.
LEMMA NothingNew ==
    ASSUME OrderInv, UNCHANGED <<seq, lapses>>, Ascending(log)', \A e \in Event : Held(e)' => Held(e) /\ Topped(e)',
           \A c \in Clients : Placed(c)'
    PROVE  OrderInv'
  <1>1. Event' = Event
    BY DEF Event
  <1>2. \A e, f \in Event : Held(e)' /\ Held(f)' => Agree(e, f)'
    BY DEF OrderInv, Agree
  <1> HIDE DEF Event
  <1> QED  BY <1>1, <1>2 DEF OrderInv

\* Where a client whose own state does not change stands.
LEMMA StillPlaced ==
    ASSUME NEW c \in Clients, Placed(c), lapses \subseteq lapses',
           pend'[c] = pend[c], got'[c] = got[c], cursor'[c] = cursor[c]
    PROVE  Placed(c)'
  BY DEF Placed, Ascending

LEMMA OrderQueues ==
    ASSUME TypeOK, OrderInv, NEW c \in Clients, Queues(c)
    PROVE  OrderInv' /\ \A e \in Event : Held(e)' => Held(e)
  <1>1. PICK s : Reads(s, cursor[c]) /\ pend' = [pend EXCEPT ![c] = s]
    BY DEF Queues
  <1>2. DOMAIN pend = Clients
    BY DEF TypeOK
  <1>3. UNCHANGED <<store, deleted, log, seq, lapses, cursor, got>>
    BY DEF Queues
  <1>4. pend'[c] = s /\ \A d \in Clients : d # c => pend'[d] = pend[d]
    BY <1>1, <1>2
  <1>5. \A e \in Event : Held(e)' => Held(e)
    <2> SUFFICES ASSUME NEW e \in Event, Held(e)' PROVE Held(e)
      OBVIOUS
    <2>1. CASE In(e, s)
      BY <1>1, <2>1 DEF In, Reads, Held
    <2>2. CASE ~In(e, s)
      BY <1>3, <1>4, <2>2 DEF Held, In
    <2> QED  BY <2>1, <2>2
  <1>6. \A e \in Event : Held(e)' => Topped(e)'
    BY <1>3, <1>5 DEF OrderInv, Topped
  <1>7. \A d \in Clients : d # c => Placed(d)'
    BY <1>3, <1>4, StillPlaced DEF OrderInv
  <1>8. Placed(c)'
    <2>1. Ascending(s)
      BY <1>1 DEF Reads
    <2>2. ASSUME "backdated" \notin lapses, NEW k \in DOMAIN s PROVE cursor[c][2] < s[k].id[2]
      <3>1. PICK i \in DOMAIN log : log[i] = s[k]
        BY <1>1, <2>2 DEF Reads, In
      <3>2. IDLess(cursor[c], log[i].id)
        BY <1>1, <3>1 DEF Reads
      <3> QED  BY <2>2, <3>1, <3>2, AfterCursor
    <2>3. Placed(c)
      BY DEF OrderInv
    <2> QED  BY <1>3, <1>4, <2>1, <2>2, <2>3 DEF Placed, Ascending
  <1> QED  BY <1>3, <1>5, <1>6, <1>7, <1>8, NothingNew DEF OrderInv, Ascending

LEMMA OrderDelete ==
    ASSUME TypeOK, OrderInv, Delete
    PROVE  OrderInv' /\ \A e \in Event : Held(e)' => Held(e)
  <1>1. log' = <<>> /\ deleted' = TRUE /\ UNCHANGED <<store, seq, lapses, cursor, pend, got>>
    BY DEF Delete
  <1>2. \A e \in Event : Held(e)' => Held(e)
    BY <1>1 DEF Held, In
  <1>3. \A e \in Event : Held(e)' => Topped(e)'
    BY <1>1, <1>2 DEF OrderInv, Topped
  <1>4. \A c \in Clients : Placed(c)'
    BY <1>1, StillPlaced DEF OrderInv
  <1>5. Ascending(log)'
    BY <1>1 DEF Ascending
  <1> QED  BY <1>1, <1>2, <1>3, <1>4, <1>5, NothingNew

\* What a delivery does to its client.
LEMMA Delivered ==
    ASSUME TypeOK, NEW c \in Clients, Deliver(c)
    PROVE  LET ev == pend[c][1] IN
           /\ 1 \in DOMAIN pend[c] /\ ev \in Event /\ Held(ev)
           /\ got'[c] = Append(got[c], ev) /\ cursor'[c] = ev.id
           /\ \/ pend'[c] = <<>> /\ watching' = watching \ {c}
              \/ pend'[c] = Tail(pend[c]) /\ watching' = watching
           /\ \A d \in Clients : d # c => pend'[d] = pend[d] /\ got'[d] = got[d] /\ cursor'[d] = cursor[d]
           /\ UNCHANGED <<store, deleted, log, seq, lapses>>
  <1>1. /\ pend[c] \in Seq(Event) /\ pend[c] # <<>> /\ seq \in Nat
        /\ DOMAIN pend = Clients /\ DOMAIN got = Clients /\ DOMAIN cursor = Clients
    BY DEF TypeOK, Deliver
  <1>2. Head(pend[c]) = pend[c][1] /\ 1 \in DOMAIN pend[c]
    BY <1>1, HeadOff
  <1>3. pend[c][1] \in Event /\ Held(pend[c][1])
    BY <1>2, HeldTyped
  <1>4. UNCHANGED <<store, deleted, log, seq, lapses>>
    BY DEF Deliver, recordVars, logVars
  <1>5. /\ got' = [got EXCEPT ![c] = Append(got[c], pend[c][1])]
        /\ cursor' = [cursor EXCEPT ![c] = pend[c][1].id]
        /\ \/ pend' = [pend EXCEPT ![c] = <<>>] /\ watching' = watching \ {c}
           \/ pend' = [pend EXCEPT ![c] = Tail(pend[c])] /\ watching' = watching
    BY <1>1, <1>2 DEF Deliver
  <1> QED  BY <1>1, <1>2, <1>3, <1>4, <1>5

\* What is pending or received at c after a delivery.
LEMMA DeliveredParts ==
    ASSUME TypeOK, NEW c \in Clients, Deliver(c)
    PROVE  LET ev == pend[c][1]
               n  == Len(got[c])
           IN  /\ n \in Nat /\ DOMAIN got[c] = 1 .. n /\ DOMAIN got'[c] = 1 .. n + 1 /\ got'[c][n + 1] = ev
               /\ \A i \in 1 .. n : got'[c][i] = got[c][i]
               /\ \A i \in DOMAIN pend'[c] : i \in Nat /\ i + 1 \in DOMAIN pend[c] /\ pend'[c][i] = pend[c][i + 1]
  <1> DEFINE ev == pend[c][1]
             n  == Len(got[c])
  <1>1. /\ ev \in Event /\ got'[c] = Append(got[c], ev) /\ (pend'[c] = <<>> \/ pend'[c] = Tail(pend[c]))
    BY Delivered
  <1>2. got[c] \in Seq(Event) /\ pend[c] \in Seq(Event) /\ pend[c] # <<>> /\ seq \in Nat
    BY DEF TypeOK, Deliver
  <1>3. n \in Nat /\ DOMAIN got[c] = 1 .. n
    BY <1>2, LenProperties
  <1>4. /\ got'[c] \in Seq(Event) /\ Len(got'[c]) = n + 1 /\ got'[c][n + 1] = ev
        /\ \A i \in 1 .. n : got'[c][i] = got[c][i]
    BY <1>1, <1>2, AppendProperties
  <1>5. DOMAIN got'[c] = 1 .. n + 1
    BY <1>4, LenProperties
  <1>6. \A i \in DOMAIN pend'[c] : i \in Nat /\ i + 1 \in DOMAIN pend[c] /\ pend'[c][i] = pend[c][i + 1]
    <2>1. \A i \in DOMAIN Tail(pend[c]) : i \in Nat /\ i + 1 \in DOMAIN pend[c] /\ Tail(pend[c])[i] = pend[c][i + 1]
      BY <1>2, HeadOff
    <2>2. DOMAIN <<>> = {}
      OBVIOUS
    <2> QED  BY <1>1, <2>1, <2>2
  <1> QED  BY <1>3, <1>4, <1>5, <1>6

LEMMA OrderDeliver ==
    ASSUME TypeOK, OrderInv, NEW c \in Clients, Deliver(c)
    PROVE  OrderInv' /\ \A e \in Event : Held(e)' => Held(e)
  <1> DEFINE ev == pend[c][1]
             n  == Len(got[c])
  <1>1. /\ 1 \in DOMAIN pend[c] /\ ev \in Event /\ Held(ev)
        /\ cursor'[c] = ev.id
        /\ \A d \in Clients : d # c => pend'[d] = pend[d] /\ got'[d] = got[d] /\ cursor'[d] = cursor[d]
        /\ UNCHANGED <<store, deleted, log, seq, lapses>>
    BY Delivered
  <1>2. /\ n \in Nat /\ DOMAIN got[c] = 1 .. n /\ DOMAIN got'[c] = 1 .. n + 1 /\ got'[c][n + 1] = ev
        /\ \A i \in 1 .. n : got'[c][i] = got[c][i]
        /\ \A i \in DOMAIN pend'[c] : i \in Nat /\ i + 1 \in DOMAIN pend[c] /\ pend'[c][i] = pend[c][i + 1]
    BY DeliveredParts
  <1>3. \A i \in DOMAIN got'[c] : i = n + 1 \/ i \in 1 .. n
    BY <1>2
  <1>4. \A e \in Event : Held(e)' => Held(e)
    <2> SUFFICES ASSUME NEW e \in Event, Held(e)' PROVE Held(e)
      OBVIOUS
    <2>1. CASE In(e, pend'[c])
      BY <1>2, <2>1 DEF In, Held
    <2>2. CASE In(e, got'[c])
      BY <1>1, <1>2, <1>3, <2>2 DEF In, Held
    <2>3. CASE In(e, log')
      BY <1>1, <2>3 DEF Held
    <2>4. CASE \E d \in Clients : d # c /\ (In(e, pend'[d]) \/ In(e, got'[d]))
      BY <1>1, <2>4 DEF Held
    <2> QED  BY <2>1, <2>2, <2>3, <2>4 DEF Held
  <1>5. \A e \in Event : Held(e)' => Topped(e)'
    BY <1>1, <1>4 DEF OrderInv, Topped
  <1>6. \A d \in Clients : d # c => Placed(d)'
    BY <1>1, StillPlaced DEF OrderInv
  <1>7. Placed(c) /\ \A i \in DOMAIN pend[c] : pend[c][i].id[2] \in Nat
    BY HeldTyped, EventParts DEF OrderInv, TypeOK
  <1>8. \A i \in DOMAIN got[c] : got[c][i].id[2] \in Nat
    BY HeldTyped, EventParts DEF TypeOK
  <1> HIDE DEF ev, n
  <1>9. Ascending(pend'[c])
    <2> SUFFICES ASSUME NEW i \in DOMAIN pend'[c], NEW j \in DOMAIN pend'[c], i < j
                 PROVE  pend'[c][i].id[2] < pend'[c][j].id[2]
      BY DEF Ascending
    <2>1. i + 1 \in DOMAIN pend[c] /\ j + 1 \in DOMAIN pend[c] /\ i + 1 < j + 1
      BY <1>2
    <2> QED  BY <1>2, <1>7, <2>1 DEF Placed, Ascending
  <1>10. cursor'[c] = got'[c][n + 1].id /\ n + 1 \in DOMAIN got'[c]
    BY <1>1, <1>2
  <1>11. ASSUME "backdated" \notin lapses
         PROVE  /\ Ascending(got'[c])
                /\ \A i \in DOMAIN got'[c] : got'[c][i].id[2] <= cursor'[c][2]
                /\ \A i \in DOMAIN pend'[c] : cursor'[c][2] < pend'[c][i].id[2]
    <2>1. /\ cursor[c][2] < ev.id[2] /\ cursor[c][2] \in Nat /\ ev.id[2] \in Nat
          /\ \A i \in 1 .. n : got[c][i].id[2] <= cursor[c][2] /\ got[c][i].id[2] \in Nat
      <3>1. cursor[c][2] \in Nat
        <4>1. cursor[c] \in (0 .. MaxClock) \X (0 .. seq) /\ seq \in Nat
          BY DEF TypeOK
        <4> QED  BY <4>1
      <3> QED  BY <1>1, <1>2, <1>7, <1>8, <1>11, <3>1 DEF Placed, ev
    <2>2. \A i \in 1 .. n : got'[c][i].id[2] < ev.id[2] /\ got'[c][i].id[2] \in Nat
      <3> SUFFICES ASSUME NEW i \in 1 .. n
                   PROVE  got'[c][i].id[2] < ev.id[2] /\ got'[c][i].id[2] \in Nat
        OBVIOUS
      <3>1. got'[c][i] = got[c][i]
        BY <1>2
      <3>2. got[c][i].id[2] <= cursor[c][2] /\ got[c][i].id[2] \in Nat
        BY <2>1
      <3>3. got[c][i].id[2] < ev.id[2]
        BY <2>1, <3>2
      <3> QED  BY <3>1, <3>2, <3>3
    <2>3. \A i \in DOMAIN got'[c] : got'[c][i].id[2] <= cursor'[c][2]
      BY <1>1, <1>2, <1>3, <2>1, <2>2
    <2>4. Ascending(got'[c])
      <3> SUFFICES ASSUME NEW i \in DOMAIN got'[c], NEW j \in DOMAIN got'[c], i < j
                   PROVE  got'[c][i].id[2] < got'[c][j].id[2]
        BY DEF Ascending
      <3>1. i \in 1 .. n
        BY <1>2
      <3>2. CASE j = n + 1
        BY <1>2, <2>2, <3>1, <3>2
      <3>3. CASE j \in 1 .. n
        BY <1>2, <1>7, <1>11, <3>1, <3>3 DEF Placed, Ascending
      <3> QED  BY <1>3, <3>2, <3>3
    <2>5. \A i \in DOMAIN pend'[c] : cursor'[c][2] < pend'[c][i].id[2]
      <3> TAKE i \in DOMAIN pend'[c]
      <3>1. i + 1 \in DOMAIN pend[c] /\ pend'[c][i] = pend[c][i + 1] /\ 1 \in DOMAIN pend[c] /\ 1 < i + 1
        <4>1. i \in Nat /\ i # 0
          <5>1. pend[c] \in Seq(Event)
            BY DEF TypeOK
          <5>2. pend'[c] = <<>> \/ pend'[c] = Tail(pend[c])
            BY Delivered
          <5>3. pend[c] # <<>> /\ seq \in Nat
            BY DEF Deliver, TypeOK
          <5>4. DOMAIN Tail(pend[c]) = 1 .. Len(pend[c]) - 1 /\ Len(pend[c]) \in Nat
            BY <5>1, <5>3, HeadOff, LenProperties
          <5>5. DOMAIN <<>> = {}
            OBVIOUS
          <5>6. i \in DOMAIN Tail(pend[c])
            BY <5>2, <5>5
          <5> QED  BY <5>4, <5>6
        <4> QED  BY <1>1, <1>2, <4>1
      <3>2. pend[c][1].id[2] < pend[c][i + 1].id[2]
        BY <1>7, <3>1 DEF Placed, Ascending
      <3> QED  BY <1>1, <3>1, <3>2 DEF ev
    <2> QED  BY <2>3, <2>4, <2>5
  <1>12. Placed(c)'
    BY <1>1, <1>9, <1>10, <1>11 DEF Placed, Ascending
  <1>13. Ascending(log)'
    BY <1>1 DEF OrderInv, Ascending
  <1> QED  BY <1>1, <1>4, <1>5, <1>6, <1>12, <1>13, NothingNew

\* An append reaches the timeline and the watchers that have room, and
\* nothing else comes to be held.
LEMMA AddsParts ==
    ASSUME TypeOK, NEW w \in Writers, NEW room, Adds(w, room)
    PROVE  LET new == NewEvent(w) IN
           /\ seq' = seq + 1 /\ seq \in Nat
           /\ new.id[1] \in Nat /\ new.id[2] = seq + 1 /\ (store # "mem" => new.id[1] = 0)
           /\ new.terminal <=> w = Settler \/ w \in misled
           /\ In(new, log') /\ \A i \in DOMAIN log' : log'[i] = new \/ In(log'[i], log)
           /\ Ascending(log) => Ascending(log')
           /\ lapses \subseteq lapses'
           /\ "backdated" \notin lapses' => \A i \in DOMAIN log : log[i].id[1] <= new.id[1]
           /\ "overflow" \notin lapses' => watching \subseteq room
           /\ \A c \in Clients :
                \/ c \notin room /\ pend'[c] = pend[c]
                \/ /\ c \in room /\ In(new, pend'[c]) /\ \A i \in DOMAIN pend[c] : In(pend[c][i], pend'[c])
                   /\ \A i \in DOMAIN pend'[c] : pend'[c][i] = new \/ In(pend'[c][i], pend[c])
                   /\ Ascending(pend[c]) => Ascending(pend'[c])
           /\ \A e : Held(e)' => e = new \/ Held(e)
           /\ UNCHANGED <<store, deleted, cursor, got, watching>>
  <1> DEFINE new == NewEvent(w)
  <1>1. PICK blocked : AppendEvent(w, blocked) /\ blocked = watching \ room
    BY DEF Adds
  <1>2. seq' = seq + 1 /\ seq \in Nat
    BY <1>1 DEF AppendEvent, TypeOK
  <1>3. /\ new.id[2] = seq + 1 /\ new.id[1] = (IF store = "mem" THEN stamp[w] ELSE 0)
        /\ new.terminal <=> w = Settler \/ w \in misled
        /\ \A i \in DOMAIN log' : log'[i] = new \/ In(log'[i], log)
        /\ In(new, log') /\ (Ascending(log) => Ascending(log'))
        /\ lapses \subseteq lapses' /\ new \in Event' /\ \A e \in Event : e \in Event'
        /\ "backdated" \notin lapses' => \A i \in DOMAIN log : log[i].id[1] <= new.id[1]
        /\ "overflow" \notin lapses' => blocked = {}
    BY <1>1, Appended
  <1>4. new.id[1] \in Nat
    <2>1. stamp[w] \in 0 .. MaxClock /\ MaxClock \in Nat
      BY WatchAssumption DEF TypeOK
    <2> QED  BY <1>3, <2>1
  <1> HIDE DEF new
  <1>5. UNCHANGED <<store, deleted, cursor, got, watching>>
    BY DEF Adds
  <1>6. ASSUME NEW c \in Clients
        PROVE  \/ c \notin room /\ pend'[c] = pend[c]
               \/ /\ c \in room /\ In(new, pend'[c]) /\ \A i \in DOMAIN pend[c] : In(pend[c][i], pend'[c])
                  /\ \A i \in DOMAIN pend'[c] : pend'[c][i] = new \/ In(pend'[c][i], pend[c])
                  /\ Ascending(pend[c]) => Ascending(pend'[c])
    <2>1. CASE c \notin room
      BY <2>1 DEF Adds
    <2>2. CASE c \in room
      <3> DEFINE s == pend[c]
                 t == Append(s, new)
      <3>1. pend'[c] = t
        BY <2>2 DEF Adds, new
      <3>2. s \in Seq(Event) /\ s \in Seq(Event') /\ Len(s) \in Nat /\ DOMAIN s = 1 .. Len(s)
        <4>1. s \in Seq(Event)
          BY DEF TypeOK
        <4>2. Event \subseteq Event'
          BY <1>3
        <4> QED  BY <4>1, <4>2, SeqMonotonic, LenProperties
      <3>3. /\ t \in Seq(Event') /\ Len(t) = Len(s) + 1 /\ t[Len(s) + 1] = new
            /\ \A i \in 1 .. Len(s) : t[i] = s[i]
        BY <1>3, <3>2, AppendProperties
      <3>4. DOMAIN t = 1 .. Len(s) + 1
        BY <3>3, LenProperties
      <3>5. \A i \in DOMAIN s : s[i] \in Event /\ s[i].id[2] \in Nat /\ s[i].id[2] <= seq
        BY <1>2, <3>2, EventParts
      <3> HIDE DEF s, t
      <3>6. \A i \in DOMAIN t : i = Len(s) + 1 \/ i \in DOMAIN s
        BY <3>2, <3>4
      <3>7. Len(s) + 1 \in DOMAIN t /\ \A i \in DOMAIN s : i \in DOMAIN t /\ t[i] = s[i]
        BY <3>2, <3>3, <3>4
      <3>8. ASSUME Ascending(s) PROVE Ascending(t)
        <4> SUFFICES ASSUME NEW i \in DOMAIN t, NEW j \in DOMAIN t, i < j PROVE t[i].id[2] < t[j].id[2]
          BY DEF Ascending
        <4>1. i \in DOMAIN s
          BY <3>2, <3>4
        <4>2. CASE j \in DOMAIN s
          BY <3>7, <3>8, <4>1, <4>2 DEF Ascending
        <4>3. CASE j = Len(s) + 1
          BY <1>2, <1>3, <3>3, <3>5, <3>7, <4>1, <4>3
        <4> QED  BY <3>6, <4>2, <4>3
      <3>9. In(new, t) /\ \A i \in DOMAIN s : In(s[i], t)
        BY <3>3, <3>7 DEF In
      <3>10. \A i \in DOMAIN t : t[i] = new \/ In(t[i], s)
        BY <3>3, <3>6, <3>7 DEF In
      <3> QED  BY <2>2, <3>1, <3>8, <3>9, <3>10 DEF s
    <2> QED  BY <2>1, <2>2
  <1>7. ASSUME NEW e, Held(e)' PROVE e = new \/ Held(e)
    <2>1. CASE In(e, log')
      <3>1. PICK i \in DOMAIN log' : log'[i] = e
        BY <2>1 DEF In
      <3> QED  BY <1>3, <3>1 DEF Held
    <2>2. ASSUME NEW c \in Clients, In(e, pend'[c]) PROVE e = new \/ Held(e)
      <3>1. PICK i \in DOMAIN pend'[c] : pend'[c][i] = e
        BY <2>2 DEF In
      <3> QED  BY <1>6, <2>2, <3>1 DEF Held
    <2>3. ASSUME NEW c \in Clients, In(e, got'[c]) PROVE Held(e)
      BY <1>5, <2>3 DEF Held
    <2> QED  BY <1>7, <2>1, <2>2, <2>3 DEF Held
  <1>8. "overflow" \notin lapses' => watching \subseteq room
    BY <1>1, <1>3
  <1> QED  BY <1>2, <1>3, <1>4, <1>5, <1>6, <1>7, <1>8 DEF new

LEMMA OrderAdds ==
    ASSUME TypeOK, OrderInv, NEW w \in Writers, NEW room, Adds(w, room)
    PROVE  OrderInv'
  <1> DEFINE new == NewEvent(w)
  <1>1. /\ seq' = seq + 1 /\ seq \in Nat
        /\ new.id[1] \in Nat /\ new.id[2] = seq + 1 /\ (store # "mem" => new.id[1] = 0)
        /\ In(new, log') /\ (Ascending(log) => Ascending(log')) /\ lapses \subseteq lapses'
        /\ "backdated" \notin lapses' => \A i \in DOMAIN log : log[i].id[1] <= new.id[1]
        /\ UNCHANGED <<store, deleted, cursor, got, watching>>
    BY AddsParts
  <1>2. \A e : Held(e)' => e = new \/ Held(e)
    BY AddsParts
  <1>3. \A c \in Clients :
                \/ c \notin room /\ pend'[c] = pend[c]
                \/ /\ \A i \in DOMAIN pend'[c] : pend'[c][i] = new \/ In(pend'[c][i], pend[c])
                   /\ Ascending(pend[c]) => Ascending(pend'[c])
    BY AddsParts
  <1>4. store \in {"redis", "mem"} /\ (store = "mem" => ~deleted)
    BY DEF TypeOK, Adds
  <1> HIDE DEF new
  <1>5. \A e : Held(e) => e \in Event /\ e.id[1] \in Nat /\ e.id[2] \in Nat /\ e.id[2] <= seq /\ Topped(e)
    BY <1>1, HeldTyped, EventParts DEF OrderInv
  <1>6. ASSUME NEW e, Held(e), "backdated" \notin lapses' PROVE e.id[1] <= new.id[1]
    <2>1. CASE store = "mem"
      <3>1. PICK i \in DOMAIN log : e.id[1] <= log[i].id[1]
        BY <1>1, <1>4, <1>5, <1>6, <2>1 DEF Topped
      <3>2. log[i].id[1] <= new.id[1] /\ log[i].id[1] \in Nat
        BY <1>1, <1>6, HeldTyped, EventParts
      <3> QED  BY <1>1, <1>5, <1>6, <3>1, <3>2
    <2>2. CASE store = "redis"
      BY <1>1, <1>5, <1>6, <2>2 DEF Topped
    <2> QED  BY <1>4, <2>1, <2>2
  <1>7. ASSUME NEW e, NEW f, Held(e)', Held(f)' PROVE Agree(e, f)'
    <2>1. CASE Held(e) /\ Held(f)
      <3>1. Agree(e, f)
        BY <1>5, <2>1 DEF OrderInv
      <3> QED  BY <1>1, <3>1 DEF Agree
    <2>2. CASE Held(e) /\ f = new
      <3>1. e.id[2] < f.id[2] /\ e.id[2] # f.id[2]
        BY <1>1, <1>5, <2>2
      <3> QED  BY <1>6, <2>2, <3>1 DEF Agree
    <2>3. CASE e = new /\ Held(f)
      <3>1. ~(e.id[2] < f.id[2]) /\ e.id[2] # f.id[2]
        BY <1>1, <1>5, <2>3
      <3> QED  BY <3>1 DEF Agree
    <2>4. CASE e = new /\ f = new
      <3>1. ~(e.id[2] < f.id[2])
        BY <1>1, <2>4
      <3> QED  BY <2>4, <3>1 DEF Agree
    <2> QED  BY <1>2, <1>7, <2>1, <2>2, <2>3, <2>4
  <1>8. ASSUME NEW e, Held(e)' PROVE Topped(e)'
    <2>1. e.id[2] > 0 /\ (store = "redis" => e.id[1] = 0) /\ ("backdated" \notin lapses' => e.id[1] <= new.id[1])
      <3>1. CASE Held(e)
        BY <1>5, <1>6, <3>1 DEF Topped
      <3>2. CASE e = new
        BY <1>1, <3>2
      <3> QED  BY <1>2, <1>8, <3>1, <3>2
    <2>2. PICK i \in DOMAIN log' : log'[i] = new
      BY <1>1 DEF In
    <2> QED  BY <1>1, <2>1, <2>2 DEF Topped
  <1>9. ASSUME NEW c \in Clients PROVE Placed(c)'
    <2>1. Placed(c)
      BY DEF OrderInv
    <2>2. Ascending(pend'[c])
      BY <1>3, <2>1 DEF Placed
    <2>3. cursor[c][2] \in Nat /\ cursor[c][2] <= seq
      <3>1. cursor[c] \in (0 .. MaxClock) \X (0 .. seq)
        BY DEF TypeOK
      <3> QED  BY <1>1, <3>1
    <2>4. ASSUME "backdated" \notin lapses', NEW i \in DOMAIN pend'[c] PROVE cursor[c][2] < pend'[c][i].id[2]
      <3>1. CASE pend'[c][i] = new
        BY <1>1, <2>3, <3>1
      <3>2. CASE In(pend'[c][i], pend[c])
        BY <1>1, <2>1, <2>4, <3>2 DEF Placed, In
      <3>3. CASE pend'[c] = pend[c]
        BY <1>1, <2>1, <2>4, <3>3 DEF Placed
      <3> QED  BY <1>3, <3>1, <3>2, <3>3
    <2> QED  BY <1>1, <2>1, <2>2, <2>4 DEF Placed, Ascending
  <1> QED  BY <1>1, <1>7, <1>8, <1>9 DEF OrderInv

LEMMA OrderQuiet ==
    ASSUME OrderInv, Quiet
    PROVE  OrderInv' /\ \A e \in Event : Held(e)' => Held(e)
  <1>1. UNCHANGED <<store, deleted, log, seq, lapses, cursor, pend, got>>
    BY DEF Quiet
  <1>2. \A c \in Clients : Placed(c)'
    BY <1>1, StillPlaced DEF OrderInv
  <1>3. \A e \in Event : Held(e)' => Held(e) /\ Topped(e)'
    BY <1>1 DEF Held, In, Topped, OrderInv
  <1>4. Ascending(log)'
    BY <1>1 DEF OrderInv, Ascending
  <1> QED  BY <1>1, <1>2, <1>3, <1>4, NothingNew

\* The start of the induction.
LEMMA OrderInit == Init => OrderInv
  <1> SUFFICES ASSUME Init PROVE OrderInv
    OBVIOUS
  <1>1. DOMAIN <<>> = {}
    OBVIOUS
  <1>2. \A c \in Clients : pend[c] = <<>> /\ got[c] = <<>> /\ cursor[c] = <<0, 0>>
    BY DEF Init
  <1>3. \A e : ~Held(e)
    BY <1>1, <1>2 DEF Init, Held, In
  <1>4. \A c \in Clients : Placed(c)
    BY <1>1, <1>2 DEF Placed, Ascending
  <1>5. Ascending(log)
    BY <1>1 DEF Init, Ascending
  <1> QED  BY <1>3, <1>4, <1>5 DEF OrderInv

LEMMA OrderStep ==
    ASSUME TypeOK, OrderInv, WatcherInv, [Next]_vars
    PROVE  /\ OrderInv'
           /\ \A e : Held(e)' => Held(e) \/ \E w \in Writers : e = NewEvent(w) /\ wpc[w] # "idle"
                                                         /\ (e.terminal <=> w = Settler \/ w \in misled)
           /\ TypeOK'
  <1>1. TypeOK' /\ Ascending(log)
    BY TypeStep DEF OrderInv
  <1>2. ASSUME seq' = seq, NEW e, Held(e)' PROVE e \in Event
    <2>1. Event' = Event
      BY <1>2 DEF Event
    <2>2. log' \in Seq(Event) /\ \A c \in Clients : pend'[c] \in Seq(Event) /\ got'[c] \in Seq(Event)
      BY <1>1, <2>1 DEF TypeOK
    <2>3. \A s \in Seq(Event) : \A i \in DOMAIN s : s[i] \in Event
      BY EventParts DEF TypeOK
    <2> QED  BY <1>2, <2>2, <2>3 DEF Held, In
  <1>3. CASE Quiet
    BY <1>1, <1>2, <1>3, OrderQuiet DEF Quiet
  <1>4. CASE Delete
    BY <1>1, <1>2, <1>4, OrderDelete DEF Delete
  <1>5. ASSUME NEW c \in Clients, Queues(c) PROVE OrderInv' /\ \A e : Held(e)' => Held(e)
    BY <1>1, <1>2, <1>5, OrderQueues DEF Queues
  <1>6. ASSUME NEW c \in Clients, Deliver(c) PROVE OrderInv' /\ \A e : Held(e)' => Held(e)
    BY <1>1, <1>2, <1>6, OrderDeliver DEF Deliver, logVars
  <1>7. ASSUME NEW w \in Writers, NEW room, Adds(w, room)
        PROVE  /\ OrderInv' /\ wpc[w] # "idle"
               /\ \A e : Held(e)' => Held(e) \/ (e = NewEvent(w) /\ (e.terminal <=> w = Settler \/ w \in misled))
    BY <1>7, OrderAdds, AddsParts DEF Adds
  <1> QED  BY <1>1, <1>3, <1>4, <1>5, <1>6, <1>7, Effects

-----------------------------------------------------------------------------
(***************************************************************************)
(* No gaps                                                                 *)
(***************************************************************************)

\* Nothing but backdating and overflow spoils a stream.
Sound == lapses \cap {"backdated", "overflow"} = {}

\* A client that a step leaves alone.
LEMMA StillGapless ==
    ASSUME NEW c \in Clients, Gapless(c), log' = log, pend'[c] = pend[c], got'[c] = got[c], cursor'[c] = cursor[c],
           c \in watching' => c \in watching
    PROVE  Gapless(c)'
  BY DEF Gapless, In

LEMMA GapQueues ==
    ASSUME TypeOK, OrderInv, GapInv, NEW c \in Clients, Queues(c)
    PROVE  GapInv'
  <1> SUFFICES ASSUME Sound, NEW d \in Clients PROVE Gapless(d)'
    BY DEF GapInv, Sound, Queues
  <1>1. PICK s : /\ Reads(s, cursor[c]) /\ pend' = [pend EXCEPT ![c] = s]
                 /\ c \in watching' => \A i \in DOMAIN log : IDLess(cursor[c], log[i].id) => In(log[i], s)
    BY DEF Queues
  <1>2. UNCHANGED <<log, cursor, got>> /\ watching' \subseteq watching \cup {c} /\ DOMAIN pend = Clients
    BY DEF Queues, TypeOK
  <1>3. Gapless(d)
    BY DEF GapInv, Sound
  <1>4. CASE d # c
    BY <1>1, <1>2, <1>3, <1>4, StillGapless
  <1>5. CASE d = c
    <2>1. pend'[c] = s
      BY <1>1, <1>2
    <2>2. ASSUME NEW i \in DOMAIN log, log[i].id[2] > cursor[c][2]
          PROVE  /\ \A j \in DOMAIN s : log[i].id[2] <= s[j].id[2] => In(log[i], s)
                 /\ c \in watching' => In(log[i], s)
      <3>1. cursor[c][2] < log[i].id[2] /\ "backdated" \notin lapses
        BY <2>2 DEF Sound
      <3>2. IDLess(cursor[c], log[i].id)
        BY <3>1, AfterCursor
      <3> QED  BY <1>1, <3>2 DEF Reads
    <2> QED  BY <1>2, <1>3, <1>5, <2>1, <2>2 DEF Gapless
  <1> QED  BY <1>4, <1>5

LEMMA GapDeliver ==
    ASSUME TypeOK, OrderInv, GapInv, NEW c \in Clients, Deliver(c)
    PROVE  GapInv'
  <1> DEFINE ev == pend[c][1]
             n  == Len(got[c])
  <1>1. /\ 1 \in DOMAIN pend[c] /\ ev \in Event
        /\ cursor'[c] = ev.id
        /\ \/ pend'[c] = <<>> /\ watching' = watching \ {c}
           \/ pend'[c] = Tail(pend[c]) /\ watching' = watching
        /\ \A d \in Clients : d # c => pend'[d] = pend[d] /\ got'[d] = got[d] /\ cursor'[d] = cursor[d]
        /\ UNCHANGED <<store, deleted, log, seq, lapses>>
    BY Delivered
  <1>2. /\ n \in Nat /\ DOMAIN got[c] = 1 .. n /\ DOMAIN got'[c] = 1 .. n + 1 /\ got'[c][n + 1] = ev
        /\ \A i \in 1 .. n : got'[c][i] = got[c][i]
    BY DeliveredParts
  <1>3. pend[c] \in Seq(Event) /\ pend[c] # <<>> /\ seq \in Nat
    BY DEF TypeOK, Deliver
  <1>4. /\ \A i \in DOMAIN Tail(pend[c]) : i \in Nat /\ i + 1 \in DOMAIN pend[c] /\ Tail(pend[c])[i] = pend[c][i + 1]
        /\ \A i \in DOMAIN pend[c] : i \in Nat /\ (i # 1 => i - 1 \in DOMAIN Tail(pend[c]))
        /\ DOMAIN pend[c] = 1 .. Len(pend[c]) /\ Len(pend[c]) \in Nat
    BY <1>3, HeadOff, LenProperties
  <1> SUFFICES ASSUME Sound, NEW d \in Clients PROVE Gapless(d)'
    BY <1>1 DEF GapInv, Sound
  <1>5. Gapless(d) /\ Gapless(c) /\ Placed(c)
    BY DEF GapInv, Sound, OrderInv
  <1>6. CASE d # c
    <2>1. d \in watching' => d \in watching
      BY <1>1
    <2> QED  BY <1>1, <1>5, <1>6, <2>1, StillGapless
  <1>7. CASE d = c
    <2>1. /\ cursor[c][2] < ev.id[2] /\ ev.id[2] \in Nat /\ cursor[c][2] \in Nat
          /\ \A i \in DOMAIN log : log[i].id[2] \in Nat
          /\ \A i \in DOMAIN pend[c] : pend[c][i].id[2] \in Nat
      <3>1. cursor[c] \in (0 .. MaxClock) \X (0 .. seq)
        BY DEF TypeOK
      <3>2. cursor[c][2] \in Nat
        BY <1>3, <3>1
      <3>3. cursor[c][2] < ev.id[2]
        BY <1>1, <1>5 DEF Placed, Sound
      <3> QED  BY <1>1, <1>3, <3>2, <3>3, HeldTyped, EventParts
    <2> HIDE DEF ev, n
    <2>2. ASSUME NEW i \in DOMAIN log, log[i].id[2] <= ev.id[2] PROVE In(log[i], got'[c])
      <3>1. CASE log[i].id[2] <= cursor[c][2]
        <4>1. PICK k \in DOMAIN got[c] : got[c][k] = log[i]
          BY <1>5, <3>1 DEF Gapless, In
        <4>2. k \in DOMAIN got'[c] /\ got'[c][k] = log[i]
          BY <1>2, <4>1
        <4> QED  BY <4>2 DEF In
      <3>2. CASE log[i].id[2] > cursor[c][2]
        <4>1. PICK k \in DOMAIN pend[c] : pend[c][k] = log[i]
          BY <1>1, <1>5, <2>2, <3>2 DEF Gapless, In, ev
        <4>2. k = 1
          <5> SUFFICES ASSUME k # 1 PROVE FALSE
            OBVIOUS
          <5>1. 1 < k
            BY <1>4
          <5>2. pend[c][1].id[2] < pend[c][k].id[2]
            BY <1>1, <1>5, <5>1 DEF Placed, Ascending
          <5> QED  BY <2>1, <2>2, <4>1, <5>2 DEF ev
        <4>3. n + 1 \in DOMAIN got'[c] /\ got'[c][n + 1] = log[i]
          BY <1>2, <4>1, <4>2 DEF ev
        <4> QED  BY <4>3 DEF In
      <3> QED  BY <2>1, <3>1, <3>2
    <2>3. ASSUME NEW i \in DOMAIN log, log[i].id[2] > ev.id[2], In(log[i], pend[c])
          PROVE  In(log[i], Tail(pend[c]))
      <3>1. PICK k \in DOMAIN pend[c] : pend[c][k] = log[i]
        BY <2>3 DEF In
      <3>2. k # 1
        BY <2>1, <2>3, <3>1 DEF ev
      <3>3. k - 1 \in DOMAIN Tail(pend[c]) /\ Tail(pend[c])[k - 1] = log[i]
        BY <1>4, <3>1, <3>2
      <3> QED  BY <3>3 DEF In
    <2>4. ASSUME NEW i \in DOMAIN log, log[i].id[2] > ev.id[2]
          PROVE  /\ \A j \in DOMAIN pend'[c] : log[i].id[2] <= pend'[c][j].id[2] => In(log[i], pend'[c])
                 /\ c \in watching' => In(log[i], pend'[c])
      <3>1. log[i].id[2] > cursor[c][2]
        BY <2>1, <2>4
      <3>2. CASE pend'[c] = <<>> /\ watching' = watching \ {c}
        <4>1. DOMAIN <<>> = {}
          OBVIOUS
        <4> QED  BY <3>2, <4>1
      <3>3. CASE pend'[c] = Tail(pend[c]) /\ watching' = watching
        <4>1. ASSUME NEW j \in DOMAIN Tail(pend[c]), log[i].id[2] <= Tail(pend[c])[j].id[2]
              PROVE  In(log[i], Tail(pend[c]))
          <5>1. j + 1 \in DOMAIN pend[c] /\ log[i].id[2] <= pend[c][j + 1].id[2]
            BY <1>4, <4>1
          <5>2. In(log[i], pend[c])
            BY <1>5, <3>1, <5>1 DEF Gapless
          <5> QED  BY <2>3, <2>4, <5>2
        <4>2. c \in watching => In(log[i], Tail(pend[c]))
          BY <1>5, <2>3, <2>4, <3>1 DEF Gapless
        <4> QED  BY <3>3, <4>1, <4>2
      <3> QED  BY <1>1, <3>2, <3>3
    <2> QED  BY <1>1, <1>7, <2>2, <2>4 DEF Gapless
  <1> QED  BY <1>6, <1>7

LEMMA GapAdds ==
    ASSUME TypeOK, OrderInv, GapInv, NEW w \in Writers, NEW room, Adds(w, room)
    PROVE  GapInv'
  <1> DEFINE new == NewEvent(w)
  <1>1. /\ seq \in Nat /\ new.id[2] = seq + 1
        /\ \A i \in DOMAIN log' : log'[i] = new \/ In(log'[i], log)
        /\ lapses \subseteq lapses' /\ ("overflow" \notin lapses' => watching \subseteq room)
        /\ UNCHANGED <<store, deleted, cursor, got, watching>>
    BY AddsParts
  <1>2. \A c \in Clients :
                \/ c \notin room /\ pend'[c] = pend[c]
                \/ c \in room /\ In(new, pend'[c]) /\ \A i \in DOMAIN pend[c] : In(pend[c][i], pend'[c])
    BY AddsParts
  <1>3. room \subseteq watching
    BY DEF Adds
  <1> HIDE DEF new
  <1> SUFFICES ASSUME Sound', NEW c \in Clients PROVE Gapless(c)'
    BY DEF GapInv, Sound
  <1>4. Gapless(c) /\ watching \subseteq room
    BY <1>1 DEF GapInv, Sound
  <1>5. \A i \in DOMAIN pend[c] : pend[c][i].id[2] \in Nat /\ pend[c][i].id[2] <= seq
    BY <1>1, HeldTyped, EventParts
  <1>6. cursor[c][2] \in Nat /\ cursor[c][2] <= seq
    <2>1. cursor[c] \in (0 .. MaxClock) \X (0 .. seq)
      BY DEF TypeOK
    <2> QED  BY <1>1, <2>1
  <1> DEFINE Fine(e) == /\ e.id[2] <= cursor[c][2] => In(e, got[c])
                        /\ e.id[2] > cursor[c][2] =>
                             /\ \A j \in DOMAIN pend'[c] : e.id[2] <= pend'[c][j].id[2] => In(e, pend'[c])
                             /\ c \in watching => In(e, pend'[c])
  <1>7. Fine(new)
    <2>1. ~(new.id[2] <= cursor[c][2])
      BY <1>1, <1>6
    <2>2. c \in watching => In(new, pend'[c])
      BY <1>2, <1>4
    <2>3. ASSUME NEW j \in DOMAIN pend'[c], new.id[2] <= pend'[c][j].id[2] PROVE In(new, pend'[c])
      <3>1. CASE c \in room
        BY <1>2, <3>1
      <3>2. CASE pend'[c] = pend[c]
        BY <1>1, <1>5, <2>3, <3>2
      <3> QED  BY <1>2, <3>1, <3>2
    <2> QED  BY <2>1, <2>2, <2>3
  <1>8. ASSUME NEW k \in DOMAIN log PROVE Fine(log[k])
    <2>1. log[k].id[2] <= cursor[c][2] => In(log[k], got[c])
      BY <1>4 DEF Gapless
    <2>2. ASSUME log[k].id[2] > cursor[c][2]
          PROVE  /\ \A j \in DOMAIN pend'[c] : log[k].id[2] <= pend'[c][j].id[2] => In(log[k], pend'[c])
                 /\ c \in watching => In(log[k], pend'[c])
      <3>1. CASE c \in room
        <4>1. In(log[k], pend[c])
          BY <1>3, <1>4, <2>2, <3>1 DEF Gapless
        <4>2. In(log[k], pend'[c])
          BY <1>2, <3>1, <4>1 DEF In
        <4> QED  BY <4>2
      <3>2. CASE c \notin room
        BY <1>2, <1>4, <2>2, <3>2 DEF Gapless
      <3> QED  BY <3>1, <3>2
    <2> QED  BY <2>1, <2>2
  <1>9. ASSUME NEW i \in DOMAIN log' PROVE Fine(log'[i])
    <2>1. CASE log'[i] = new
      BY <1>7, <2>1
    <2>2. CASE In(log'[i], log)
      <3>1. PICK k \in DOMAIN log : log[k] = log'[i]
        BY <2>2 DEF In
      <3> HIDE DEF Fine
      <3> QED  BY <1>8, <3>1
    <2> QED  BY <1>1, <2>1, <2>2
  <1> QED  BY <1>1, <1>9 DEF Gapless

LEMMA GapStep ==
    ASSUME TypeOK, OrderInv, GapInv, WatcherInv, [Next]_vars
    PROVE  GapInv'
  <1>1. CASE Quiet
    <2>1. UNCHANGED <<lapses, log, pend, got, cursor, watching>>
      BY <1>1 DEF Quiet
    <2> QED  BY <2>1, StillGapless DEF GapInv
  <1>2. CASE Delete
    <2>1. log' = <<>> /\ DOMAIN <<>> = {}
      BY <1>2 DEF Delete
    <2> QED  BY <2>1 DEF GapInv, Gapless
  <1> QED  BY <1>1, <1>2, GapQueues, GapDeliver, GapAdds, Effects DEF OrderInv

-----------------------------------------------------------------------------
(***************************************************************************)
(* The end of a stream                                                     *)
(***************************************************************************)

\* A settled record stays settled, and a fault is not forgotten.
LEMMA Forward ==
    ASSUME TypeOK, [Next]_vars
    PROVE  (settled => settled') /\ (faults > 0 => faults' > 0)
  <1> USE DEF recordVars, logVars, writerVars, clientVars
  <1>1. settled => settled'
    BY DEF Next, WriterStep, ClientStep, Stamp, Mislead, MemAppend, CheckExists, XAdd, AppendFails, Settle, Tick, Delete,
       WatchJob, WatchEvents, ReadCheck, ReadPage, WatcherCut, Deliver, ReadFails, Disconnect, vars
  <1>2. faults' = faults \/ faults' = faults + 1
    BY DEF Next, WriterStep, ClientStep, Stamp, Mislead, MemAppend, CheckExists, XAdd, AppendFails, Settle, Tick, Delete,
       WatchJob, WatchEvents, ReadCheck, ReadPage, WatcherCut, Deliver, ReadFails, Disconnect, vars
  <1>3. faults \in Nat
    BY WatchAssumption DEF TypeOK
  <1> QED  BY <1>1, <1>2, <1>3

\* The client whose watch a step moves, and where to.
LEMMA EofClient ==
    ASSUME TypeOK, EofInv, NEW c \in Clients,
           WatchJob(c) \/ ClientStep(c) \/ ReadFails(c) \/ Disconnect(c)
    PROVE  /\ \A d \in Clients : d # c => pc'[d] = pc[d]
           /\ pc'[c] = "replay" => settled
           /\ pc'[c] = "eof" => settled \/ faults' > 0 \/ EndedByMistake(c)'
           /\ \A d \in Clients : d # c => got'[d] = got[d]
           /\ store' = store /\ misled' = misled
  <1> USE DEF recordVars, logVars, writerVars, clientVars
  <1>0. /\ DOMAIN pc = Clients /\ DOMAIN got = Clients /\ faults \in Nat /\ store \in {"redis", "mem"}
    BY WatchAssumption DEF TypeOK
  <1>1. (pc[c] = "replay" => settled) /\ (deleted => settled)
    BY DEF EofInv
  <1>2. CASE WatchJob(c)
    BY <1>0, <1>1, <1>2 DEF WatchJob
  <1>3. CASE WatchEvents(c)
    BY <1>0, <1>1, <1>3 DEF WatchEvents, Close
  <1>4. CASE ReadCheck(c)
    BY <1>0, <1>1, <1>4 DEF ReadCheck, Reading, Close
  <1>5. CASE ReadPage(c)
    BY <1>0, <1>1, <1>5 DEF ReadPage, Reading, Close
  <1>6. CASE WatcherCut(c)
    BY <1>0, <1>1, <1>6 DEF WatcherCut, Close
  <1>7. CASE ReadFails(c)
    <2>1. faults' > 0
      BY <1>0, <1>7 DEF ReadFails
    <2> QED  BY <1>0, <1>7, <2>1 DEF ReadFails, Close
  <1>8. CASE Disconnect(c)
    BY <1>0, <1>1, <1>8 DEF Disconnect
  <1>9. CASE Deliver(c)
    <2> DEFINE ev == pend[c][1]
               n  == Len(got[c])
    <2>1. /\ ev \in Event /\ Held(ev)
          /\ \A d \in Clients : d # c => got'[d] = got[d]
      BY <1>9, Delivered
    <2>2. n \in Nat /\ DOMAIN got'[c] = 1 .. n + 1 /\ got'[c][n + 1] = ev
      BY <1>9, DeliveredParts
    <2>3. got'[c] # <<>> /\ Len(got'[c]) = n + 1
      <3>1. got'[c] = Append(got[c], ev) /\ got[c] \in Seq(Event) /\ ev \in Event
        BY <1>9, Delivered DEF TypeOK
      <3> HIDE DEF ev
      <3>2. Len(got'[c]) = n + 1
        BY <3>1, AppendProperties
      <3>3. Len(<<>>) = 0
        BY EmptySeq
      <3> QED  BY <2>2, <3>2, <3>3
    <2>4. Head(pend[c]) = ev
      <3>1. pend[c] \in Seq(Event) /\ pend[c] # <<>> /\ seq \in Nat
        BY <1>9 DEF Deliver, TypeOK
      <3> QED  BY <3>1, HeadOff
    <2>5. ev.terminal => settled \/ misled # {}
      BY <2>1 DEF EofInv
    <2>6. /\ \/ pc' = pc
             \/ ev.terminal /\ pc' = [pc EXCEPT ![c] = "eof"]
          /\ pc[c] \in {"live", "replay"} /\ store' = store /\ misled' = misled
      BY <1>9, <2>4 DEF Deliver, IsTerminalStatusEvent
    <2> HIDE DEF ev, n
    <2>7. misled # {} => store = "redis"
      BY DEF EofInv
    <2>8. ev.terminal /\ misled # {} => EndedByMistake(c)'
      BY <2>2, <2>3, <2>6, <2>7 DEF EndedByMistake
    <2> QED  BY <1>0, <1>1, <2>1, <2>5, <2>6, <2>8
  <1> QED  BY <1>2, <1>3, <1>4, <1>5, <1>6, <1>7, <1>8, <1>9 DEF ClientStep

LEMMA EofStep ==
    ASSUME TypeOK, OrderInv, WatcherInv, EofInv, [Next]_vars
    PROVE  EofInv'
  <1> USE DEF recordVars, logVars, writerVars, clientVars
  <1>0. (settled => settled') /\ (faults > 0 => faults' > 0) /\ Settler \in Writers /\ DOMAIN wpc = Writers
    BY Forward, WatchAssumption DEF TypeOK
  <1>1. deleted' => settled'
    <2>1. CASE deleted' = deleted
      BY <1>0, <2>1 DEF EofInv
    <2>2. CASE Delete
      BY <2>2 DEF Delete, PastRetention
    <2> QED
      BY <2>1, <2>2 DEF Next, WriterStep, ClientStep, Stamp, Mislead, MemAppend, CheckExists, XAdd, AppendFails, Settle,
         Tick, WatchJob, WatchEvents, ReadCheck, ReadPage, WatcherCut, Deliver, ReadFails, Disconnect, vars
  <1>2. wpc'[Settler] # "idle" => settled'
    <2>1. CASE Settle
      BY <2>1 DEF Settle
    <2>2. CASE wpc'[Settler] # "idle" => wpc[Settler] # "idle"
      BY <1>0, <2>2 DEF EofInv
    <2>3. ASSUME NEW w \in Writers, Stamp(w) \/ Mislead(w) \/ WriterStep(w) \/ AppendFails(w)
          PROVE  wpc'[Settler] # "idle" => wpc[Settler] # "idle"
      <3>1. wpc' = [wpc EXCEPT ![w] = wpc'[w]] /\ (w = Settler => wpc[w] # "idle")
        BY <1>0, <2>3 DEF Stamp, Mislead, WriterStep, MemAppend, CheckExists, XAdd, AppendFails, WriterDone
      <3> QED  BY <1>0, <3>1
    <2>4. CASE wpc' = wpc
      BY <2>2, <2>4
    <2> QED
      BY <2>1, <2>2, <2>3, <2>4 DEF Next, ClientStep, Tick, Delete,
         WatchJob, WatchEvents, ReadCheck, ReadPage, WatcherCut, Deliver, ReadFails, Disconnect, vars
  <1>3. misled \subseteq misled' /\ store' = store /\ (misled' # {} => store' = "redis")
    <2>1. store' = store /\ (misled' = misled \/ (store = "redis" /\ \E w \in Writers : misled' = misled \cup {w}))
      BY DEF Next, WriterStep, ClientStep, Stamp, Mislead, MemAppend, CheckExists, XAdd, AppendFails, WriterDone,
         Settle, Tick, Delete, WatchJob, WatchEvents, ReadCheck, ReadPage, WatcherCut, Deliver, ReadFails,
         Disconnect, vars
    <2> QED  BY <2>1 DEF EofInv
  <1>4. ASSUME NEW d \in Clients, pc'[d] = pc[d], got'[d] = got[d]
        PROVE  /\ pc'[d] = "replay" => settled'
               /\ pc'[d] = "eof" => settled' \/ faults' > 0 \/ EndedByMistake(d)'
    <2>1. EndedByMistake(d) => EndedByMistake(d)'
      BY <1>3, <1>4 DEF EndedByMistake
    <2> QED  BY <1>0, <1>4, <2>1 DEF EofInv, NoEarlyEof
  <1>5. ASSUME NEW d \in Clients
        PROVE  /\ pc'[d] = "replay" => settled'
               /\ pc'[d] = "eof" => settled' \/ faults' > 0 \/ EndedByMistake(d)'
    <2>1. CASE pc' = pc /\ got' = got
      BY <1>4, <2>1
    <2>2. ASSUME NEW c \in Clients, WatchJob(c) \/ ClientStep(c) \/ ReadFails(c) \/ Disconnect(c)
          PROVE  /\ pc'[d] = "replay" => settled'
                 /\ pc'[d] = "eof" => settled' \/ faults' > 0 \/ EndedByMistake(d)'
      <3>1. CASE d = c
        <4>1. /\ pc'[c] = "replay" => settled
              /\ pc'[c] = "eof" => settled \/ faults' > 0 \/ EndedByMistake(c)'
          BY <2>2, EofClient
        <4> QED  BY <1>0, <3>1, <4>1
      <3>2. CASE d # c
        <4>1. pc'[d] = pc[d] /\ got'[d] = got[d]
          BY <2>2, <3>2, EofClient
        <4> QED  BY <1>4, <4>1
      <3> QED  BY <3>1, <3>2
    <2> QED
      BY <2>1, <2>2 DEF Next, WriterStep, Stamp, Mislead, MemAppend, CheckExists, XAdd, AppendFails, Settle, Tick,
         Delete, vars
  <1>6. ASSUME NEW e \in Event', Held(e)', e.terminal PROVE settled' \/ misled' # {}
    <2>1. CASE Held(e)
      <3>1. e \in Event
        BY <2>1, HeldTyped
      <3> QED  BY <1>0, <1>3, <1>6, <2>1, <3>1 DEF EofInv
    <2>2. ASSUME NEW w \in Writers, wpc[w] # "idle", e.terminal <=> w = Settler \/ w \in misled
          PROVE  settled' \/ misled' # {}
      BY <1>0, <1>3, <1>6, <2>2 DEF EofInv
    <2> QED  BY <1>6, <2>1, <2>2, OrderStep
  <1>7. NoEarlyEof'
    BY <1>5 DEF NoEarlyEof
  <1> QED  BY <1>1, <1>2, <1>3, <1>5, <1>6, <1>7 DEF EofInv

-----------------------------------------------------------------------------
(***************************************************************************)
(* Theorems                                                                *)
(***************************************************************************)

WatchInv == TypeOK /\ OrderInv /\ WatcherInv /\ GapInv /\ EofInv

\* The invariant holds at the start and every step keeps it.
LEMMA WatchHolds == Spec => []WatchInv
  <1>1. Init => WatchInv
    <2> SUFFICES ASSUME Init PROVE WatchInv
      OBVIOUS
    <2>1. TypeOK /\ OrderInv
      BY TypeInit, OrderInit
    <2>2. DOMAIN <<>> = {} /\ Settler \in Writers
      BY WatchAssumption
    <2>3. \A e : ~Held(e)
      BY <2>2 DEF Init, Held, In
    <2>4. WatcherInv /\ GapInv
      BY <2>2 DEF Init, WatcherInv, GapInv, Gapless
    <2>5. EofInv
      BY <2>2, <2>3 DEF Init, EofInv, NoEarlyEof
    <2> QED  BY <2>1, <2>4, <2>5 DEF WatchInv
  <1>2. WatchInv /\ [Next]_vars => WatchInv'
    BY OrderStep, WatcherStep, GapStep, EofStep DEF WatchInv
  <1> QED  BY <1>1, <1>2, PTL DEF Spec

\* Every variable of the timeline and its watches has its type, and on the
\* in-memory store neither the timeline nor a watcher's buffer outgrows its
\* cap (memstore.go, AppendEvent and WatchEvents).
THEOREM TypeCorrect == Spec => []TypeOK
  BY WatchHolds, PTL DEF WatchInv

\* Unless the in-memory store was given events out of order, a client receives
\* events in the order of their appends, each at most once, over all its
\* connections (memstore.go and events.go, ReadEvents and WatchEvents).
THEOREM StreamsAreOrdered == Spec => []InOrder
  <1>1. WatchInv => InOrder
    BY DEF WatchInv, OrderInv, Placed, Ascending, InOrder
  <1> QED  BY <1>1, WatchHolds, PTL

\* Unless events were backdated or a buffer overflowed, a client has received
\* every event of the timeline that is older than one it has received: neither
\* the switch from history to live delivery nor a resume leaves a hole
\* (memstore.go, WatchEvents; service.go, Watch).
THEOREM StreamsHaveNoGap == Spec => []NoGap
  <1>1. WatchInv => NoGap
    <2> SUFFICES ASSUME WatchInv, Sound, NEW c \in Clients, NEW i \in DOMAIN log, NEW j \in DOMAIN got[c],
                        log[i].id[2] < got[c][j].id[2]
                 PROVE  In(log[i], got[c])
      BY DEF NoGap, Sound, In
    <2>1. TypeOK /\ Placed(c) /\ Gapless(c) /\ seq \in Nat
      BY DEF WatchInv, OrderInv, GapInv, Sound, TypeOK
    <2>2. got[c][j].id[2] <= cursor[c][2]
      BY <2>1 DEF Placed, Sound
    <2>3. log[i].id[2] \in Nat /\ got[c][j].id[2] \in Nat
      BY <2>1, HeldTyped, EventParts
    <2>4. cursor[c][2] \in Nat
      <3>1. cursor[c] \in (0 .. MaxClock) \X (0 .. seq)
        BY <2>1 DEF TypeOK
      <3> QED  BY <2>1, <3>1
    <2>5. log[i].id[2] <= cursor[c][2]
      BY <2>2, <2>3, <2>4
    <2> QED  BY <2>1, <2>5 DEF Gapless
  <1> QED  BY <1>1, WatchHolds, PTL

\* A client is not told that its stream is complete while the job is active,
\* unless a store call failed or, over Redis only, the last event it received
\* is the terminal status_change of a writer that lost its EXEC (service.go,
\* Watch; isTerminalStatusEvent; reaper.go, failStuckHarness).
THEOREM NoStreamEndsEarly == Spec => []NoEarlyEof
  <1>1. WatchInv => NoEarlyEof
    BY DEF WatchInv, EofInv
  <1> QED  BY <1>1, WatchHolds, PTL

=============================================================================
