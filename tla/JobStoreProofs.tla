--------------------------- MODULE JobStoreProofs ---------------------------
(***************************************************************************)
(* Proofs about JobStore, for any number of jobs, clients, updaters and    *)
(* writers, any page sizes and any number of faults.                       *)
(***************************************************************************)
EXTENDS JobStore, TLAPS, FiniteSetTheorems, SequenceTheorems, WellFoundedInduction

-----------------------------------------------------------------------------
(***************************************************************************)
(* Records and their encoding                                              *)
(***************************************************************************)

Times == Nat
JobRecord == [status : {"queued", "failed"}, cancel_requested : BOOLEAN,
              started_at : Times, finished_at : Times]

\* A record that is written over any hash and read back is the record: times
\* that became zero are cleared, and nothing of the old hash shows.
LEMMA RoundTrip ==
    ASSUME NEW h, NEW j \in JobRecord
    PROVE  /\ Written(h, j) # NoHash
           /\ jobFromFields(Written(h, j)) \in JobRecord
           /\ jobFromFields(Written(h, j)).status = j.status
           /\ jobFromFields(Written(h, j)).finished_at = j.finished_at
  <1> DEFINE set == jobSetFields(j)
             w   == Written(h, j)
  <1>1. DOMAIN j = {"status", "cancel_requested", "started_at", "finished_at"}
    BY DEF JobRecord
  <1>2. DOMAIN set = {f \in DOMAIN j : f \in TimeFields => j[f] # Zero}
    BY DEF jobSetFields
  <1>3. \A f \in DOMAIN set : set[f] = Encode(j, f)
    BY DEF jobSetFields
  <1>4. DOMAIN w = (DOMAIN h \cup DOMAIN set) \ jobClearFields(j)
    BY DEF Written
  <1>5. \A f \in DOMAIN w : f \in DOMAIN set => w[f] = set[f]
    BY DEF Written
  <1> HIDE DEF set, w
  <1>6. DOMAIN set \cap jobClearFields(j) = {}
    BY <1>2 DEF jobClearFields
  <1>7. \A f \in DOMAIN set : Field(w, f) = Encode(j, f)
    BY <1>3, <1>4, <1>5, <1>6 DEF Field
  <1>8. \A f \in TimeFields : j[f] = Zero => f \notin DOMAIN w
    BY <1>4 DEF jobClearFields
  <1>9. "status" \in DOMAIN set /\ "cancel_requested" \in DOMAIN set
    BY <1>1, <1>2 DEF TimeFields
  <1>10. Field(w, "status") = j.status /\ Field(w, "cancel_requested") = Encode(j, "cancel_requested")
    BY <1>7, <1>9 DEF Encode
  <1>11. \A f \in TimeFields : j[f] \in Times /\ f \in DOMAIN j
    BY <1>1 DEF JobRecord, TimeFields
  <1>12. \A f \in TimeFields : j[f] # Zero => Field(w, f) = j[f] /\ f \in DOMAIN w
    <2> SUFFICES ASSUME NEW f \in TimeFields, j[f] # Zero PROVE Field(w, f) = j[f] /\ f \in DOMAIN w
      OBVIOUS
    <2>1. f \in DOMAIN set
      BY <1>2, <1>11
    <2>2. Encode(j, f) = j[f]
      BY DEF Encode, TimeFields
    <2> QED  BY <1>4, <1>6, <1>7, <2>1, <2>2
  <1> DEFINE r == jobFromFields(w)
  <1>13. r = [f \in {"status", "cancel_requested", "started_at", "finished_at"} |->
                IF f = "cancel_requested" THEN Field(w, f) = "1"
                ELSE IF f \in TimeFields /\ f \notin DOMAIN w THEN Zero
                ELSE Field(w, f)]
    BY DEF jobFromFields, NewRecord
  <1>14. r.status = j.status /\ r.cancel_requested \in BOOLEAN
    BY <1>10, <1>13 DEF TimeFields
  <1>15. r.started_at = j.started_at /\ r.finished_at = j.finished_at
    BY <1>8, <1>11, <1>12, <1>13 DEF TimeFields
  <1>16. r \in JobRecord
    BY <1>13, <1>14, <1>15 DEF JobRecord
  <1>17. w # NoHash
    BY <1>4, <1>6, <1>9 DEF NoHash
  <1> QED  BY <1>14, <1>15, <1>16, <1>17 DEF w

\* A record that CreateJob stores.
LEMMA NewIsRecord == NewRecord \in JobRecord
  BY DEF NewRecord, JobRecord, Times, Zero

\* What the closure makes of a record is a settled record, and the same one if
\* it was settled before.
LEMMA FinishSettles ==
    ASSUME NEW j \in JobRecord, clock \in Nat
    PROVE  /\ Finish(j) \in JobRecord /\ Finish(j).status = "failed"
           /\ Terminal(j.status) => Finish(j).finished_at = j.finished_at
  BY DEF Finish, Terminal, JobRecord, Times

-----------------------------------------------------------------------------
(***************************************************************************)
(* The list of the in-memory store                                         *)
(***************************************************************************)

Distinct(s) == \A i, k \in DOMAIN s : s[i] = s[k] => i = k

\* Cutting an id out moves the entries behind it forward by one.
LEMMA CutOut ==
    ASSUME NEW s \in Seq(Ids), Distinct(s), NEW p \in DOMAIN s
    PROVE  /\ Cut(s, s[p]) \in Seq(Ids)
           /\ Len(Cut(s, s[p])) = Len(s) - 1
           /\ \A k \in 1 .. Len(s) - 1 : Cut(s, s[p])[k] = IF k < p THEN s[k] ELSE s[k + 1]
  <1> DEFINE front == SubSeq(s, 1, p - 1)
             back  == SubSeq(s, p + 1, Len(s))
  <1>1. Len(s) \in Nat /\ DOMAIN s = 1 .. Len(s) /\ \A k \in 1 .. Len(s) : s[k] \in Ids
    BY LenProperties, ElementOfSeq
  <1>2. Cut(s, s[p]) = front \o back
    <2>1. {i \in DOMAIN s : s[i] = s[p]} = {p}
      BY DEF Distinct
    <2>2. (CHOOSE k \in {p} : \A m \in {p} : k <= m) = p
      BY <1>1
    <2> QED  BY <2>1, <2>2 DEF Cut
  <1>3. /\ front \in Seq(Ids) /\ Len(front) = p - 1
        /\ \A k \in 1 .. p - 1 : front[k] = s[k]
    <2>1. \A k \in 1 .. p - 1 : s[k] \in Ids
      BY <1>1
    <2>2. /\ front \in Seq(Ids)
          /\ Len(front) = IF 1 <= p - 1 THEN (p - 1) - 1 + 1 ELSE 0
          /\ \A k \in 1 .. (p - 1) - 1 + 1 : front[k] = s[1 + k - 1]
      BY <2>1, <1>1, SubSeqProperties
    <2> QED  BY <2>2, <1>1
  <1>4. /\ back \in Seq(Ids) /\ Len(back) = Len(s) - p
        /\ \A k \in 1 .. Len(s) - p : back[k] = s[p + k]
    <2>1. \A k \in p + 1 .. Len(s) : s[k] \in Ids
      BY <1>1
    <2>2. /\ back \in Seq(Ids)
          /\ Len(back) = IF p + 1 <= Len(s) THEN Len(s) - (p + 1) + 1 ELSE 0
          /\ \A k \in 1 .. Len(s) - (p + 1) + 1 : back[k] = s[(p + 1) + k - 1]
      <3> HIDE DEF front
      <3> QED  BY <2>1, <1>1, SubSeqProperties
    <2> QED  BY <2>2, <1>1
  <1> HIDE DEF front, back
  <1>5. /\ front \o back \in Seq(Ids) /\ Len(front \o back) = Len(front) + Len(back)
        /\ \A k \in 1 .. Len(front) + Len(back) :
              (front \o back)[k] = IF k <= Len(front) THEN front[k] ELSE back[k - Len(front)]
    BY <1>3, <1>4, ConcatProperties
  <1>6. ASSUME NEW k \in 1 .. Len(s) - 1
        PROVE  (front \o back)[k] = IF k < p THEN s[k] ELSE s[k + 1]
    <2>1. k \in 1 .. Len(front) + Len(back)
      BY <1>1, <1>3, <1>4
    <2>2. CASE k < p
      BY <1>1, <1>3, <1>5, <2>1, <2>2
    <2>3. CASE ~(k < p)
      <3>1. k - Len(front) = k - p + 1 /\ k - p + 1 \in 1 .. Len(s) - p /\ p + (k - p + 1) = k + 1
        BY <1>1, <1>3, <2>3
      <3>2. (front \o back)[k] = back[k - Len(front)]
        BY <1>1, <1>3, <1>5, <2>1, <2>3
      <3> QED  BY <1>4, <2>3, <3>1, <3>2
    <2> QED  BY <2>2, <2>3
  <1>7. Len(front \o back) = Len(s) - 1
    BY <1>1, <1>3, <1>4, <1>5
  <1> QED  BY <1>2, <1>5, <1>6, <1>7

\* What is left of the list: the other ids, each once.
LEMMA CutKeeps ==
    ASSUME NEW s \in Seq(Ids), Distinct(s), NEW p \in DOMAIN s
    PROVE  /\ Distinct(Cut(s, s[p]))
           /\ {Cut(s, s[p])[k] : k \in DOMAIN Cut(s, s[p])} = {s[k] : k \in DOMAIN s} \ {s[p]}
  <1> DEFINE t == Cut(s, s[p])
  <1>1. /\ t \in Seq(Ids) /\ Len(t) = Len(s) - 1
        /\ \A k \in 1 .. Len(s) - 1 : t[k] = IF k < p THEN s[k] ELSE s[k + 1]
    BY CutOut
  <1>2. DOMAIN s = 1 .. Len(s) /\ DOMAIN t = 1 .. Len(s) - 1 /\ Len(s) \in Nat
    BY <1>1, LenProperties
  <1> HIDE DEF t
  <1>3. Distinct(t)
    <2> DEFINE place(k) == IF k < p THEN k ELSE k + 1
    <2>1. ASSUME NEW k \in DOMAIN t
          PROVE  place(k) \in DOMAIN s /\ t[k] = s[place(k)]
      BY <1>1, <1>2, <2>1
    <2>2. ASSUME NEW i \in DOMAIN t, NEW k \in DOMAIN t, place(i) = place(k)
          PROVE  i = k
      BY <1>2, <2>2
    <2> HIDE DEF place
    <2>3. ASSUME NEW i \in DOMAIN t, NEW k \in DOMAIN t, t[i] = t[k]
          PROVE  i = k
      <3>1. place(i) = place(k)
        BY <2>1, <2>3 DEF Distinct
      <3> QED  BY <2>2, <3>1
    <2> QED  BY <2>3 DEF Distinct
  <1>4. ASSUME NEW k \in DOMAIN t PROVE \E i \in DOMAIN s : i # p /\ t[k] = s[i]
    <2>1. CASE k < p
      BY <1>1, <1>2, <2>1
    <2>2. CASE ~(k < p)
      <3>1. k + 1 \in DOMAIN s /\ k + 1 # p /\ t[k] = s[k + 1]
        BY <1>1, <1>2, <2>2
      <3> QED  BY <3>1
    <2> QED  BY <2>1, <2>2
  <1>5. ASSUME NEW i \in DOMAIN s, i # p PROVE \E k \in DOMAIN t : t[k] = s[i]
    <2>1. CASE i < p
      BY <1>1, <1>2, <2>1
    <2>2. CASE i > p
      <3>1. i - 1 \in DOMAIN t /\ t[i - 1] = s[i]
        BY <1>1, <1>2, <2>2
      <3> QED  BY <3>1
    <2> QED  BY <1>2, <1>5, <2>1, <2>2
  <1>6. {t[k] : k \in DOMAIN t} = {s[k] : k \in DOMAIN s} \ {s[p]}
    BY <1>4, <1>5 DEF Distinct
  <1> QED  BY <1>3, <1>6 DEF t

-----------------------------------------------------------------------------
(***************************************************************************)
(* The jobs there are                                                      *)
(***************************************************************************)

\* Writing j over a settled record leaves its finish time as it is.
Kept(id, j) == Terminal(GetJob(id).status) => j.finished_at = GetJob(id).finished_at

\* An update under way read a job; as long as the key it watches was not
\* written, the job is there, and if it is settled the update keeps its time.
TxOK(t) == t # NoCall =>
    /\ t \in [id : Ids, new : JobRecord, fresh : BOOLEAN]
    /\ t.new.status = "failed"
    /\ t.fresh => Exists(t.id) /\ Kept(t.id, t.new)

\* A write under way of a job that is gone was crossed by its deletion.
PutOK(x) == x # NoCall =>
    /\ x \in [id : Ids, key : Keys]
    /\ x.id \in created
    /\ x.id \in gone => <<x.id, x.key>> \in crossed

ListedIds == {order[i] : i \in DOMAIN order}

RecordInv ==
    /\ backend \in {"redis", "mem"}
    /\ DOMAIN hash = Ids
    /\ created \subseteq Ids /\ gone \subseteq created /\ clock \in Nat
    /\ \A id \in Ids : Exists(id) <=> id \in created \ gone
    /\ \A id \in Ids : Exists(id) => GetJob(id) \in JobRecord
    /\ order \in Seq(Ids) /\ Distinct(order)
    /\ IndexMatchesRecords
    /\ backend = "redis" => order = << >>
    /\ backend = "mem" => index = {}

CallInv ==
    /\ DOMAIN tx = Updaters /\ DOMAIN put = Writers
    /\ \A u \in Updaters : TxOK(tx[u])
    /\ backend = "mem" => \A u \in Updaters : tx[u] = NoCall
    /\ \A w \in Writers : PutOK(put[w])
    /\ extra \subseteq Ids \X Keys
    /\ \A x \in extra : x[1] \in created
    /\ DeletedIsGone

\* A listing reads: it leaves jobs, updates and writes alone.
LEMMA ListFrame ==
    ASSUME (\E l \in Listers : List(l) \/ ListFails(l)) \/ StartReaping \/ EndSweep
    PROVE  UNCHANGED <<backend, recVars, callVars, clock>>
  <1>1. ASSUME NEW l \in Listers, NEW n, PageIds(l, n) PROVE UNCHANGED <<backend, recVars, callVars, clock>>
    BY <1>1 DEF PageIds, timeVars
  <1>2. ASSUME NEW l \in Listers, NEW n, MemPage(l, n) PROVE UNCHANGED <<backend, recVars, callVars, clock>>
    BY <1>2 DEF MemPage, timeVars
  <1>3. ASSUME NEW l \in Listers, PageRead(l) \/ PageDone(l) \/ ListFails(l)
        PROVE  UNCHANGED <<backend, recVars, callVars, clock>>
    BY <1>3 DEF PageRead, PageDone, ListFails, timeVars
  <1>4. CASE StartReaping \/ EndSweep
    BY <1>4 DEF StartReaping, EndSweep
  <1> QED  BY <1>1, <1>2, <1>3, <1>4 DEF List

\* The steps, by what they do to a job.
LEMMA NextCases ==
    ASSUME [Next]_vars
    PROVE  \/ \E id \in Ids : CreateJob(id) \/ MemCreateJob(id) \/ MemUpdate(id) \/ Reap(id)
           \/ Tick
           \/ \E u \in Updaters : TxExec(u) \/ \E id \in Ids : TxRead(u, id)
           \/ \E id \in Ids, key \in Keys : MemPut(id, key) \/ \E w \in Writers : PutCheck(w, id, key)
           \/ \E w \in Writers : PutWrite(w)
           \/ (\E l \in Listers : List(l) \/ ListFails(l)) \/ StartReaping \/ EndSweep
           \/ UNCHANGED vars
  BY DEF Next, Sweep, Listers

\* One job's record is replaced by a settled one.
LEMMA Rewritten ==
    ASSUME RecordInv, NEW id \in Ids, NEW j \in JobRecord, j.status = "failed", Exists(id),
           hash' = [hash EXCEPT ![id] = Written(@, j)],
           UNCHANGED <<backend, index, order, created, gone, clock>>
    PROVE  /\ RecordInv' /\ \A k \in Ids : Exists(k)' <=> Exists(k)
           /\ GetJob(id)'.status = "failed" /\ GetJob(id)'.finished_at = j.finished_at
           /\ \A k \in Ids : k # id => GetJob(k)' = GetJob(k)
  <1>1. DOMAIN hash = Ids
    BY DEF RecordInv
  <1>2. DOMAIN hash' = Ids /\ hash'[id] = Written(hash[id], j) /\ \A k \in Ids : k # id => hash'[k] = hash[k]
    BY <1>1
  <1>3. \A k \in Ids : Exists(k)' <=> Exists(k)
    BY <1>2, RoundTrip DEF Exists
  <1>4. /\ GetJob(id)' \in JobRecord /\ GetJob(id)'.status = "failed"
        /\ GetJob(id)'.finished_at = j.finished_at
    BY <1>2, RoundTrip DEF GetJob
  <1>5. \A k \in Ids : k # id => GetJob(k)' = GetJob(k)
    BY <1>2 DEF GetJob
  <1>6. \A k \in Ids : Exists(k)' => GetJob(k)' \in JobRecord
    BY <1>3, <1>4, <1>5 DEF RecordInv
  <1>8. IndexMatchesRecords'
    <2>1. {k \in Ids : Exists(k)'} = {k \in Ids : Exists(k)}
      BY <1>3
    <2> QED  BY <2>1 DEF RecordInv, IndexMatchesRecords
  <1>9. RecordInv'
    BY <1>2, <1>3, <1>6, <1>8 DEF RecordInv
  <1> QED  BY <1>3, <1>4, <1>5, <1>9

\* A job is created.
LEMMA CreatedOK ==
    ASSUME RecordInv, CallInv, NEW id \in Ids, CreateJob(id) \/ MemCreateJob(id)
    PROVE  RecordInv' /\ CallInv'
  <1>1. /\ DOMAIN hash = Ids /\ id \notin created /\ created' = created \cup {id}
        /\ hash' = [hash EXCEPT ![id] = Written(NoHash, NewRecord)]
        /\ UNCHANGED <<backend, extra, gone, tx, put, crossed, clock>>
        /\ created \subseteq Ids /\ gone \subseteq created /\ clock \in Nat
    BY DEF RecordInv, CreateJob, MemCreateJob, Created, callVars, timeVars
  <1>2. /\ DOMAIN hash' = Ids /\ hash'[id] = Written(NoHash, NewRecord)
        /\ \A k \in Ids : k # id => hash'[k] = hash[k]
    BY <1>1
  <1>3. Exists(id)' /\ ~Exists(id) /\ GetJob(id)' \in JobRecord
    BY <1>1, <1>2, RoundTrip, NewIsRecord DEF RecordInv, Exists, GetJob
  <1>4. \A k \in Ids : k # id => (Exists(k)' <=> Exists(k)) /\ GetJob(k)' = GetJob(k)
    BY <1>2 DEF Exists, GetJob
  <1>5. \A k \in Ids : Exists(k)' <=> k \in created' \ gone'
    BY <1>1, <1>3, <1>4 DEF RecordInv
  <1>6. \A k \in Ids : Exists(k)' => GetJob(k)' \in JobRecord
    BY <1>3, <1>4 DEF RecordInv
  <1>8. order \in Seq(Ids) /\ Distinct(order) /\ backend \in {"redis", "mem"}
    BY DEF RecordInv
  <1>9. {k \in Ids : Exists(k)'} = {k \in Ids : Exists(k)} \cup {id}
    BY <1>3, <1>4
  <1>10. IndexMatchesRecords' /\ order' \in Seq(Ids) /\ Distinct(order)'
           /\ (backend' = "redis" => order' = << >>) /\ (backend' = "mem" => index' = {})
    <2>1. CASE CreateJob(id)
      BY <1>1, <1>8, <1>9, <2>1 DEF CreateJob, IndexMatchesRecords, RecordInv, Distinct
    <2>2. CASE MemCreateJob(id)
      <3>1. order' = Append(order, id) /\ backend = "mem" /\ UNCHANGED index
        BY <2>2 DEF MemCreateJob
      <3>2. /\ order' \in Seq(Ids) /\ DOMAIN order' = 1 .. Len(order) + 1 /\ DOMAIN order = 1 .. Len(order)
            /\ Len(order) \in Nat /\ order'[Len(order) + 1] = id
            /\ \A i \in 1 .. Len(order) : order'[i] = order[i]
        BY <1>8, <3>1, AppendProperties, LenProperties
      <3>3. \A i \in DOMAIN order : order[i] # id
        BY <1>3, <3>1 DEF RecordInv, IndexMatchesRecords
      <3>4. Distinct(order)'
        BY <1>8, <3>2, <3>3 DEF Distinct
      <3>5. {order'[i] : i \in DOMAIN order'} = {order[i] : i \in DOMAIN order} \cup {id}
        BY <3>2
      <3>6. IndexMatchesRecords'
        BY <1>1, <1>9, <3>1, <3>5 DEF RecordInv, IndexMatchesRecords
      <3> QED  BY <1>1, <3>1, <3>2, <3>4, <3>6 DEF RecordInv
    <2> QED  BY <2>1, <2>2
  <1>11. RecordInv'
    BY <1>1, <1>2, <1>5, <1>6, <1>10 DEF RecordInv
  <1>12. CallInv'
    <2>1. \A k \in Ids : Exists(k) => Exists(k)' /\ GetJob(k)' = GetJob(k)
      BY <1>3, <1>4
    <2>2. \A u \in Updaters : TxOK(tx[u])'
      BY <1>1, <2>1 DEF CallInv, TxOK, Kept
    <2>3. \A w \in Writers : PutOK(put[w])'
      BY <1>1 DEF CallInv, PutOK
    <2> QED  BY <1>1, <2>2, <2>3 DEF CallInv, DeletedIsGone
  <1> QED  BY <1>11, <1>12

\* A job is deleted: the updates that watch it lose, the writes that have
\* checked it are crossed.
LEMMA DeletedOK ==
    ASSUME RecordInv, CallInv, NEW id \in Ids, DeleteJob(id), UNCHANGED <<backend, created, put, clock>>
    PROVE  RecordInv' /\ CallInv'
  <1>1. /\ DOMAIN hash = Ids /\ Exists(id) /\ gone' = gone \cup {id} /\ id \in created \ gone
        /\ hash' = [hash EXCEPT ![id] = NoHash] /\ index' = index \ {id} /\ order' = Cut(order, id)
        /\ tx' = Unwatched(id)
    BY DEF RecordInv, DeleteJob
  <1>2. DOMAIN hash' = Ids /\ hash'[id] = NoHash /\ \A k \in Ids : k # id => hash'[k] = hash[k]
    BY <1>1
  <1>3. ~Exists(id)' /\ \A k \in Ids : k # id => (Exists(k)' <=> Exists(k)) /\ GetJob(k)' = GetJob(k)
    BY <1>2 DEF Exists, GetJob
  <1>4. {k \in Ids : Exists(k)'} = {k \in Ids : Exists(k)} \ {id}
    BY <1>3
  <1>5. order \in Seq(Ids) /\ Distinct(order) /\ backend \in {"redis", "mem"}
    BY DEF RecordInv
  <1>6. /\ IndexMatchesRecords' /\ order' \in Seq(Ids) /\ Distinct(order)'
        /\ (backend' = "redis" => order' = << >>) /\ (backend' = "mem" => index' = {})
    <2>1. CASE backend = "redis"
      <3>1. order = << >>
        BY <2>1 DEF RecordInv
      <3>2. {i \in DOMAIN order : order[i] = id} = {}
        BY <3>1
      <3>3. order' = order
        BY <1>1, <3>2 DEF Cut
      <3>4. IndexMatchesRecords'
        BY <1>1, <1>4, <2>1 DEF RecordInv, IndexMatchesRecords
      <3> QED  BY <1>5, <2>1, <3>1, <3>3, <3>4 DEF Distinct
    <2>2. CASE backend = "mem"
      <3>1. PICK p \in DOMAIN order : order[p] = id
        BY <1>1, <2>2 DEF RecordInv, IndexMatchesRecords
      <3>2. /\ order' \in Seq(Ids) /\ Distinct(order')
            /\ {order'[k] : k \in DOMAIN order'} = {order[k] : k \in DOMAIN order} \ {id}
        <4>1. order' = Cut(order, order[p])
          BY <1>1, <3>1
        <4>2. /\ Cut(order, order[p]) \in Seq(Ids) /\ Distinct(Cut(order, order[p]))
              /\ {Cut(order, order[p])[k] : k \in DOMAIN Cut(order, order[p])} =
                    {order[k] : k \in DOMAIN order} \ {order[p]}
          BY <1>5, CutOut, CutKeeps
        <4> QED  BY <3>1, <4>1, <4>2
      <3>3. IndexMatchesRecords'
        BY <1>4, <2>2, <3>2 DEF RecordInv, IndexMatchesRecords
      <3> QED  BY <1>1, <2>2, <3>2, <3>3 DEF RecordInv, Distinct
    <2> QED  BY <1>5, <2>1, <2>2
  <1>7. RecordInv'
    <2>1. \A k \in Ids : Exists(k)' <=> k \in created' \ gone'
      BY <1>1, <1>3 DEF RecordInv
    <2>2. \A k \in Ids : Exists(k)' => GetJob(k)' \in JobRecord
      BY <1>3 DEF RecordInv
    <2> QED  BY <1>1, <1>2, <1>6, <2>1, <2>2 DEF RecordInv
  <1>8. DOMAIN tx' = Updaters /\ \A u \in Updaters : TxOK(tx[u])'
    <2>1. ASSUME NEW u \in Updaters PROVE TxOK(tx[u])'
      <3>1. tx'[u] = IF tx[u] # NoCall /\ tx[u].id = id THEN [tx[u] EXCEPT !.fresh = FALSE] ELSE tx[u]
        BY <1>1 DEF Unwatched
      <3>2. TxOK(tx[u])
        BY DEF CallInv
      <3>3. CASE tx[u] # NoCall /\ tx[u].id = id
        <4>1. tx[u] \in [id : Ids, new : JobRecord, fresh : BOOLEAN] /\ tx[u].new.status = "failed"
          BY <3>2, <3>3 DEF TxOK
        <4>2. /\ tx'[u] \in [id : Ids, new : JobRecord, fresh : BOOLEAN]
              /\ tx'[u].new = tx[u].new /\ ~tx'[u].fresh
          BY <3>1, <3>3, <4>1
        <4> QED  BY <4>1, <4>2 DEF TxOK
      <3>4. CASE ~(tx[u] # NoCall /\ tx[u].id = id)
        <4>1. tx'[u] = tx[u]
          BY <3>1, <3>4
        <4>2. CASE tx[u] = NoCall
          BY <4>1, <4>2 DEF TxOK
        <4>3. CASE tx[u] # NoCall
          <5>1. tx[u].id # id /\ tx[u].id \in Ids
            BY <3>2, <3>4, <4>3 DEF TxOK
          <5> QED  BY <1>3, <3>2, <4>1, <5>1 DEF TxOK, Kept
        <4> QED  BY <4>2, <4>3
      <3> QED  BY <3>3, <3>4
    <2> QED  BY <1>1, <2>1 DEF Unwatched
  <1>9. crossed \subseteq crossed' /\ \A w \in Writers : put[w] # NoCall /\ put[w].id = id => <<id, put[w].key>> \in crossed'
    BY DEF DeleteJob
  <1>10. \A w \in Writers : PutOK(put[w])'
    <2> SUFFICES ASSUME NEW w \in Writers PROVE PutOK(put[w])'
      OBVIOUS
    <2>1. PutOK(put[w])
      BY DEF CallInv
    <2> QED  BY <1>1, <1>9, <2>1 DEF PutOK
  <1>11. extra' \subseteq extra /\ \A x \in extra' : x[1] # id
    <2>1. extra' = {x \in extra : x[1] = id => x[2] \notin DeletedKeys}
      BY DEF DeleteJob
    <2>2. \A x \in extra : x[2] \in DeletedKeys
      BY StoreAssumption DEF CallInv, DeletedKeys
    <2> QED  BY <2>1, <2>2
  <1>12. DeletedIsGone'
    BY <1>1, <1>9, <1>11 DEF CallInv, DeletedIsGone
  <1>13. CallInv'
    <2>1. backend' = "mem" => \A u \in Updaters : tx'[u] = NoCall
      BY <1>1 DEF CallInv, Unwatched
    <2> QED  BY <1>8, <1>10, <1>11, <1>12, <2>1 DEF CallInv
  <1> QED  BY <1>7, <1>13

\* An update reads, or writes what it read if nobody wrote the job since.
LEMMA UpdatedOK ==
    ASSUME RecordInv, CallInv, NEW u \in Updaters, TxExec(u) \/ \E id \in Ids : TxRead(u, id)
    PROVE  RecordInv' /\ CallInv'
  <1>0. DOMAIN tx = Updaters /\ \A v \in Updaters : TxOK(tx[v])
    BY DEF CallInv
  <1>1. ASSUME NEW id \in Ids, TxRead(u, id) PROVE RecordInv' /\ CallInv'
    <2>1. UNCHANGED <<backend, recVars, put, crossed, clock>> /\ Exists(id) /\ backend = "redis"
      BY <1>1 DEF TxRead, timeVars
    <2>2. RecordInv'
      BY <2>1 DEF recVars, RecordInv, Exists, GetJob, IndexMatchesRecords, Distinct
    <2>3. Finish(GetJob(id)) \in JobRecord /\ Finish(GetJob(id)).status = "failed" /\ Kept(id, Finish(GetJob(id)))
      BY <2>1, FinishSettles DEF RecordInv, Kept
    <2>4. tx' = [tx EXCEPT ![u] = [id |-> id, new |-> Finish(GetJob(id)), fresh |-> TRUE]]
      BY <1>1 DEF TxRead
    <2>5. \A v \in Updaters : TxOK(tx[v])'
      BY <1>0, <2>1, <2>3, <2>4 DEF TxOK, recVars, Exists, Kept, GetJob
    <2>6. \A w \in Writers : PutOK(put[w])'
      BY <2>1 DEF CallInv, PutOK, recVars
    <2> QED  BY <1>0, <2>1, <2>2, <2>4, <2>5, <2>6 DEF CallInv, DeletedIsGone, recVars
  <1>2. ASSUME TxExec(u) PROVE RecordInv' /\ CallInv'
    <2>1. /\ tx[u] # NoCall /\ UNCHANGED <<backend, index, order, extra, created, gone, put, crossed, clock>>
          /\ backend # "mem"
          /\ tx[u] \in [id : Ids, new : JobRecord, fresh : BOOLEAN] /\ tx[u].new.status = "failed"
      BY <1>0, <1>2 DEF TxExec, TxOK, CallInv, timeVars
    <2>2. /\ RecordInv' /\ \A k \in Ids : Exists(k)' <=> Exists(k)
          /\ \A k \in Ids : ~(WatchHolds(u) /\ k = tx[u].id) => GetJob(k)' = GetJob(k)
      <3>1. CASE WatchHolds(u)
        <4>1. Exists(tx[u].id) /\ hash' = [hash EXCEPT ![tx[u].id] = Written(@, tx[u].new)]
          BY <1>0, <1>2, <2>1, <3>1 DEF TxExec, TxOK, WatchHolds
        <4>2. tx[u].id \in Ids /\ tx[u].new \in JobRecord
          BY <2>1
        <4> QED  BY <2>1, <3>1, <4>1, <4>2, Rewritten
      <3>2. CASE ~WatchHolds(u)
        <4>1. hash' = hash
          BY <1>2, <3>2 DEF TxExec
        <4> QED  BY <2>1, <3>2, <4>1 DEF RecordInv, Exists, GetJob, IndexMatchesRecords, Distinct
      <3> QED  BY <3>1, <3>2
    <2>3. ASSUME NEW v \in Updaters PROVE TxOK(tx[v])'
      <3>1. \/ tx'[v] = NoCall
            \/ tx'[v] = tx[v] /\ ~(WatchHolds(u) /\ tx[v] # NoCall /\ tx[v].id = tx[u].id)
            \/ (tx[v] # NoCall /\ tx'[v] = [tx[v] EXCEPT !.fresh = FALSE])
        BY <1>0, <1>2 DEF TxExec, Unwatched
      <3>2. TxOK(tx[v])
        BY <1>0
      <3>3. CASE tx'[v] = NoCall
        BY <3>3 DEF TxOK
      <3>4. CASE tx'[v] = tx[v] /\ tx[v] # NoCall /\ ~(WatchHolds(u) /\ tx[v].id = tx[u].id)
        <4>1. tx[v].id \in Ids
          BY <3>2, <3>4 DEF TxOK
        <4>2. GetJob(tx[v].id)' = GetJob(tx[v].id) /\ (Exists(tx[v].id)' <=> Exists(tx[v].id))
          BY <2>2, <3>4, <4>1
        <4>3. tx[v].fresh => Exists(tx[v].id)' /\ Kept(tx[v].id, tx[v].new)'
          BY <3>2, <3>4, <4>2 DEF TxOK, Kept
        <4> QED  BY <3>2, <3>4, <4>3 DEF TxOK
      <3>5. CASE tx[v] # NoCall /\ tx'[v] = [tx[v] EXCEPT !.fresh = FALSE]
        <4>1. tx[v] \in [id : Ids, new : JobRecord, fresh : BOOLEAN] /\ tx[v].new.status = "failed"
          BY <3>2, <3>5 DEF TxOK
        <4>2. /\ tx'[v] \in [id : Ids, new : JobRecord, fresh : BOOLEAN]
              /\ tx'[v].new = tx[v].new /\ ~tx'[v].fresh
          BY <3>5, <4>1
        <4> QED  BY <4>1, <4>2 DEF TxOK
      <3> QED  BY <3>1, <3>3, <3>4, <3>5
    <2>4. DOMAIN tx' = Updaters
      BY <1>0, <1>2 DEF TxExec, Unwatched
    <2>5. \A w \in Writers : PutOK(put[w])'
      BY <2>1 DEF CallInv, PutOK
    <2> QED  BY <2>1, <2>2, <2>3, <2>4, <2>5 DEF CallInv, DeletedIsGone
  <1> QED  BY <1>1, <1>2

\* A permission request or an event is written, after its check on Redis.
LEMMA PutOKStep ==
    ASSUME RecordInv, CallInv,
           \/ \E id \in Ids, key \in Keys : MemPut(id, key) \/ \E w \in Writers : PutCheck(w, id, key)
           \/ \E w \in Writers : PutWrite(w)
    PROVE  RecordInv' /\ CallInv'
  <1>0. DOMAIN put = Writers /\ \A w \in Writers : PutOK(put[w])
    BY DEF CallInv
  <1>1. UNCHANGED <<backend, hash, index, order, created, gone, tx, crossed, clock>>
    BY DEF MemPut, PutCheck, PutWrite, recVars, callVars, timeVars
  <1>2. RecordInv'
    BY <1>1 DEF RecordInv, Exists, GetJob, IndexMatchesRecords, Distinct
  <1>3. \A u \in Updaters : TxOK(tx[u])'
    BY <1>1 DEF CallInv, TxOK, Exists, Kept, GetJob
  <1>4. \A id \in Ids : Exists(id) => id \in created \ gone
    BY DEF RecordInv
  <1>5. CASE \E id \in Ids, key \in Keys : MemPut(id, key)
    <2>1. PICK id \in Ids, key \in Keys : MemPut(id, key)
      BY <1>5
    <2>2. extra' = extra \cup {<<id, key>>} /\ id \in created \ gone /\ UNCHANGED put
      BY <1>4, <2>1 DEF MemPut, callVars
    <2> QED  BY <1>0, <1>1, <1>2, <1>3, <2>2 DEF CallInv, DeletedIsGone, PutOK
  <1>6. CASE \E id \in Ids, key \in Keys, w \in Writers : PutCheck(w, id, key)
    <2>1. PICK id \in Ids, key \in Keys, w \in Writers : PutCheck(w, id, key)
      BY <1>6
    <2>2. /\ put' = [put EXCEPT ![w] = [id |-> id, key |-> key]] /\ id \in created \ gone
          /\ UNCHANGED extra
      BY <1>4, <2>1 DEF PutCheck, recVars
    <2>3. \A v \in Writers : PutOK(put[v])'
      BY <1>0, <1>1, <2>2 DEF PutOK
    <2> QED  BY <1>0, <1>1, <1>2, <1>3, <2>2, <2>3 DEF CallInv, DeletedIsGone
  <1>7. CASE \E w \in Writers : PutWrite(w)
    <2>1. PICK w \in Writers : PutWrite(w)
      BY <1>7
    <2>2. /\ put[w] # NoCall /\ put' = [put EXCEPT ![w] = NoCall]
          /\ extra' = extra \cup {<<put[w].id, put[w].key>>}
      BY <2>1 DEF PutWrite
    <2>3. /\ put[w].id \in Ids /\ put[w].key \in Keys /\ put[w].id \in created
          /\ put[w].id \in gone => <<put[w].id, put[w].key>> \in crossed
      BY <1>0, <2>2 DEF PutOK
    <2>4. \A v \in Writers : PutOK(put[v])'
      BY <1>0, <1>1, <2>2 DEF PutOK
    <2> QED  BY <1>0, <1>1, <1>2, <1>3, <2>2, <2>3, <2>4 DEF CallInv, DeletedIsGone
  <1> QED  BY <1>5, <1>6, <1>7

LEMMA RecordStep ==
    ASSUME RecordInv, CallInv, [Next]_vars
    PROVE  RecordInv' /\ CallInv'
  <1>1. ASSUME UNCHANGED <<backend, recVars, callVars>>, clock' \in Nat
        PROVE  RecordInv' /\ CallInv'
    <2>1. UNCHANGED <<hash, index, order, extra, created, gone, tx, put, crossed>>
      BY <1>1 DEF recVars, callVars
    <2>2. RecordInv'
      BY <1>1, <2>1 DEF RecordInv, Exists, GetJob, IndexMatchesRecords, Distinct
    <2> QED  BY <1>1, <2>1, <2>2 DEF CallInv, TxOK, PutOK, Exists, DeletedIsGone, Kept, GetJob
  <1>2. ASSUME NEW id \in Ids, MemUpdate(id) PROVE RecordInv' /\ CallInv'
    <2>1. /\ Exists(id) /\ hash' = [hash EXCEPT ![id] = Written(@, Finish(GetJob(id)))]
          /\ UNCHANGED <<backend, index, order, extra, created, gone, tx, put, crossed, clock>>
          /\ backend = "mem"
      BY <1>2 DEF MemUpdate, callVars, timeVars
    <2>2. Finish(GetJob(id)) \in JobRecord /\ Finish(GetJob(id)).status = "failed"
      BY <2>1, FinishSettles DEF RecordInv
    <2>3. RecordInv' /\ \A k \in Ids : Exists(k)' <=> Exists(k)
      BY <2>1, <2>2, Rewritten
    <2>4. \A u \in Updaters : TxOK(tx[u])'
      BY <2>1 DEF CallInv, TxOK
    <2>5. \A w \in Writers : PutOK(put[w])'
      BY <2>1 DEF CallInv, PutOK
    <2> QED  BY <2>1, <2>3, <2>4, <2>5 DEF CallInv, DeletedIsGone
  <1>3. ASSUME NEW id \in Ids, Reap(id) PROVE RecordInv' /\ CallInv'
    <2>1. UNCHANGED <<backend, created, put, clock>> /\ clock \in Nat
      BY <1>3 DEF Reap, timeVars, RecordInv
    <2>2. CASE DeleteJob(id)
      BY <2>1, <2>2, DeletedOK
    <2>3. CASE UNCHANGED <<hash, index, order, extra, gone, tx, crossed>>
      BY <1>1, <2>1, <2>3 DEF recVars, callVars
    <2> QED  BY <1>3, <2>2, <2>3 DEF Reap
  <1>4. CASE Tick
    <2>1. clock' \in Nat
      BY <1>4 DEF Tick, RecordInv
    <2> QED  BY <1>1, <1>4, <2>1 DEF Tick
  <1>5. CASE (\E l \in Listers : List(l) \/ ListFails(l)) \/ StartReaping \/ EndSweep
    BY <1>1, <1>5, ListFrame DEF RecordInv
  <1>6. CASE UNCHANGED vars
    BY <1>1, <1>6 DEF vars, timeVars, RecordInv
  <1> QED  BY <1>2, <1>3, <1>4, <1>5, <1>6, CreatedOK, UpdatedOK, PutOKStep, NextCases

LEMMA RecordsHold == Spec => [](RecordInv /\ CallInv)
  <1>1. Init => RecordInv /\ CallInv
    <2> SUFFICES ASSUME Init PROVE RecordInv /\ CallInv
      OBVIOUS
    <2>1. \A id \in Ids : ~Exists(id)
      BY DEF Init, Exists
    <2>2. DOMAIN order = {} /\ order \in Seq(Ids)
      BY DEF Init
    <2>3. IndexMatchesRecords
      BY <2>1, <2>2 DEF Init, IndexMatchesRecords
    <2>4. RecordInv
      BY <2>1, <2>2, <2>3 DEF Init, RecordInv, Distinct, Zero
    <2>5. CallInv
      BY DEF Init, CallInv, TxOK, PutOK, DeletedIsGone
    <2> QED  BY <2>4, <2>5
  <1>2. RecordInv /\ CallInv /\ [Next]_vars => (RecordInv /\ CallInv)'
    BY RecordStep
  <1> QED  BY <1>1, <1>2, PTL DEF Spec

\* The index of Redis and the list of the in-memory store hold exactly the
\* jobs that have a record: an update that raced a deletion lost its watch
\* and does not bring the record back (UpdateJob, DeleteJob).
THEOREM IndexIsTrue == Spec => []IndexMatchesRecords
  <1>1. RecordInv => IndexMatchesRecords
    BY DEF RecordInv
  <1> QED  BY <1>1, RecordsHold, PTL

\* Events and permission requests of a deleted job are gone with it, but for
\* the writes that had checked the job before (PutPermission, AppendEvent).
THEOREM DeletedStaysGone == Spec => []DeletedIsGone
  <1>1. CallInv => DeletedIsGone
    BY DEF CallInv
  <1> QED  BY <1>1, RecordsHold, PTL

\* A settled record is never reopened and never given another finish time: as
\* long as it is there, it reads the same.
LEMMA SettledStays ==
    ASSUME RecordInv, CallInv, [Next]_vars, NEW id \in Ids, Exists(id), Terminal(GetJob(id).status), Exists(id)'
    PROVE  Terminal(GetJob(id)'.status) /\ GetJob(id)'.finished_at = GetJob(id).finished_at
  <1>1. CASE hash' = hash
    BY <1>1 DEF GetJob
  <1>2. ASSUME NEW k \in Ids, k # id, hash'[id] = hash[id]
        PROVE  GetJob(id)' = GetJob(id)
    BY <1>2 DEF GetJob
  <1>3. ASSUME NEW k \in Ids, NEW j \in JobRecord, j.status = "failed", Kept(k, j), Exists(k),
               hash' = [hash EXCEPT ![k] = Written(@, j)],
               UNCHANGED <<backend, index, order, created, gone, clock>>
        PROVE  Terminal(GetJob(id)'.status) /\ GetJob(id)'.finished_at = GetJob(id).finished_at
    <2>1. /\ GetJob(k)'.status = "failed" /\ GetJob(k)'.finished_at = j.finished_at
          /\ k # id => GetJob(id)' = GetJob(id)
      BY <1>3, Rewritten
    <2> QED  BY <1>3, <2>1 DEF Terminal, Kept
  <1>4. CASE \E k \in Ids : CreateJob(k) \/ MemCreateJob(k)
    <2>1. PICK k \in Ids : CreateJob(k) \/ MemCreateJob(k)
      BY <1>4
    <2>2. k # id /\ hash' = [hash EXCEPT ![k] = Written(NoHash, NewRecord)] /\ DOMAIN hash = Ids
      BY <2>1 DEF CreateJob, MemCreateJob, Created, RecordInv
    <2> QED  BY <1>2, <2>2
  <1>5. CASE \E k \in Ids : MemUpdate(k)
    <2>1. PICK k \in Ids : MemUpdate(k)
      BY <1>5
    <2>2. /\ Exists(k) /\ hash' = [hash EXCEPT ![k] = Written(@, Finish(GetJob(k)))]
          /\ UNCHANGED <<backend, index, order, created, gone, clock>>
      BY <2>1 DEF MemUpdate, timeVars
    <2>3. Finish(GetJob(k)) \in JobRecord /\ Finish(GetJob(k)).status = "failed" /\ Kept(k, Finish(GetJob(k)))
      BY <2>2, FinishSettles DEF RecordInv, Kept
    <2> QED  BY <1>3, <2>2, <2>3
  <1>6. CASE \E k \in Ids : Reap(k)
    <2>1. PICK k \in Ids : Reap(k)
      BY <1>6
    <2>2. CASE DeleteJob(k)
      <3>1. hash' = [hash EXCEPT ![k] = NoHash] /\ DOMAIN hash = Ids
        BY <2>2 DEF DeleteJob, RecordInv
      <3>2. k # id
        BY <3>1 DEF Exists
      <3> QED  BY <1>2, <3>1, <3>2
    <2> QED  BY <1>1, <2>1, <2>2 DEF Reap
  <1>7. CASE \E u \in Updaters : TxExec(u)
    <2>1. PICK u \in Updaters : TxExec(u)
      BY <1>7
    <2>2. CASE WatchHolds(u)
      <3>1. /\ hash' = [hash EXCEPT ![tx[u].id] = Written(@, tx[u].new)]
            /\ UNCHANGED <<backend, index, order, created, gone, clock>> /\ TxOK(tx[u]) /\ tx[u] # NoCall
        BY <2>1, <2>2 DEF TxExec, CallInv, timeVars
      <3>2. /\ tx[u].id \in Ids /\ tx[u].new \in JobRecord /\ tx[u].new.status = "failed"
            /\ Exists(tx[u].id) /\ Kept(tx[u].id, tx[u].new)
        BY <2>2, <3>1 DEF TxOK, WatchHolds
      <3> QED  BY <1>3, <3>1, <3>2
    <2> QED  BY <1>1, <2>1, <2>2 DEF TxExec
  <1>8. CASE \/ Tick \/ \E u \in Updaters : \E k \in Ids : TxRead(u, k)
             \/ \E k \in Ids, key \in Keys : MemPut(k, key) \/ \E w \in Writers : PutCheck(w, k, key)
             \/ \E w \in Writers : PutWrite(w)
             \/ UNCHANGED vars
    BY <1>1, <1>8 DEF Tick, TxRead, MemPut, PutCheck, PutWrite, recVars, vars
  <1>9. CASE (\E l \in Listers : List(l) \/ ListFails(l)) \/ StartReaping \/ EndSweep
    BY <1>1, <1>9, ListFrame DEF recVars
  <1> QED  BY <1>4, <1>5, <1>6, <1>7, <1>8, <1>9, NextCases

\* The snapshot of a sweep is stale, but what it says of a settled job that is
\* still there is true, and its reading of the clock is not in the future.
SnapshotInv ==
    /\ now \in Nat /\ now <= clock
    /\ DOMAIN seen = Ids
    /\ \A id \in Ids : seen[id] # Zero =>
          /\ seen[id] \in Nat /\ id \in created
          /\ Exists(id) => Terminal(GetJob(id).status) /\ GetJob(id).finished_at = seen[id]

\* The fields of a job that is not there say nothing.
LEMMA SettledExists ==
    ASSUME NEW id, Terminal(GetJob(id).status)
    PROVE  Exists(id)
  <1>1. GetJob(id).status = Field(hash[id], "status")
    BY DEF GetJob, jobFromFields, NewRecord, TimeFields
  <1>2. hash[id] = NoHash => Field(hash[id], "status") = ""
    BY DEF NoHash, Field
  <1> QED  BY <1>1, <1>2 DEF Terminal, Exists

\* A finish time that comes new into the snapshot was just read.
JustRead(id) ==
    /\ Exists(id) /\ Terminal(GetJob(id).status) /\ seen'[id] = GetJob(id).finished_at
    /\ UNCHANGED <<hash, created, gone>>

LEMMA SnapshotGrows ==
    ASSUME SnapshotInv, [Next]_vars
    PROVE  DOMAIN seen' = Ids /\ \A id \in Ids : seen'[id] \in {seen[id], Zero} \/ JustRead(id)
  <1>0. DOMAIN seen = Ids /\ DOMAIN NothingSeen = Ids /\ \A id \in Ids : NothingSeen[id] = Zero
    BY DEF SnapshotInv, NothingSeen
  <1>1. CASE UNCHANGED seen
    BY <1>0, <1>1
  <1>2. CASE seen' = NothingSeen
    BY <1>0, <1>2
  <1>3. CASE \E id \in Ids : Reap(id)
    <2>1. PICK id \in Ids : seen' = [seen EXCEPT ![id] = Zero]
      BY <1>3 DEF Reap
    <2> QED  BY <1>0, <2>1
  <1>4. CASE \E l \in Listers : List(l)
    <2>1. UNCHANGED <<hash, created, gone>>
      BY <1>4, ListFrame DEF recVars
    <2>2. UNCHANGED seen \/ \E l, found : seen' = SeenWith(l, found)
      <3>1. PICK l \in Listers : List(l)
        BY <1>4
      <3>2. ASSUME NEW n, PageIds(l, n) PROVE UNCHANGED seen
        BY <3>2 DEF PageIds
      <3>3. ASSUME NEW n, MemPage(l, n) PROVE UNCHANGED seen \/ \E found : seen' = SeenWith(l, found)
        BY <3>3 DEF MemPage
      <3>4. ASSUME PageRead(l) PROVE \E found : seen' = SeenWith(l, found)
        BY <3>4 DEF PageRead
      <3>5. ASSUME PageDone(l) PROVE UNCHANGED seen
        BY <3>5 DEF PageDone
      <3> QED  BY <3>1, <3>2, <3>3, <3>4, <3>5 DEF List
    <2>3. ASSUME NEW l, NEW found, seen' = SeenWith(l, found)
          PROVE  DOMAIN seen' = Ids /\ \A id \in Ids : seen'[id] \in {seen[id], Zero} \/ JustRead(id)
      BY <2>1, <2>3, SettledExists DEF SeenWith, JustRead
    <2> QED  BY <1>1, <2>2, <2>3
  <1>5. ASSUME NEW l \in Listers, ListFails(l) PROVE UNCHANGED seen \/ seen' = NothingSeen
    BY <1>5 DEF ListFails
  <1>6. ASSUME StartReaping \/ EndSweep PROVE UNCHANGED seen \/ seen' = NothingSeen
    BY <1>6 DEF StartReaping, EndSweep
  <1>7. CASE \/ Tick \/ \E id \in Ids : CreateJob(id) \/ MemCreateJob(id) \/ MemUpdate(id)
             \/ \E u \in Updaters : TxExec(u) \/ \E id \in Ids : TxRead(u, id)
             \/ \E id \in Ids, key \in Keys : MemPut(id, key) \/ \E w \in Writers : PutCheck(w, id, key)
             \/ \E w \in Writers : PutWrite(w)
             \/ UNCHANGED vars
    <2>1. UNCHANGED seen
      BY <1>7 DEF Tick, CreateJob, MemCreateJob, MemUpdate, TxExec, TxRead, MemPut, PutCheck, PutWrite, listVars, vars
    <2> QED  BY <1>1, <2>1
  <1> QED  BY <1>1, <1>2, <1>3, <1>4, <1>5, <1>6, <1>7, NextCases

LEMMA ListingKeepsNow ==
    ASSUME NEW l \in Listers, List(l) \/ ListFails(l)
    PROVE  UNCHANGED now
  <1>1. ASSUME NEW n, PageIds(l, n) \/ MemPage(l, n) PROVE UNCHANGED now
    BY <1>1 DEF PageIds, MemPage, timeVars
  <1>2. ASSUME PageRead(l) \/ PageDone(l) \/ ListFails(l) PROVE UNCHANGED now
    BY <1>2 DEF PageRead, PageDone, ListFails, timeVars
  <1> QED  BY <1>1, <1>2 DEF List

LEMMA SnapshotStep ==
    ASSUME RecordInv, CallInv, SnapshotInv, [Next]_vars
    PROVE  SnapshotInv'
  <1>1. now' \in Nat /\ now' <= clock'
    <2>1. now \in Nat /\ now <= clock /\ clock \in Nat
      BY DEF SnapshotInv, RecordInv
    <2>2. \/ UNCHANGED <<now, clock>> \/ (UNCHANGED now /\ clock' = clock + 1)
          \/ (now' = clock /\ UNCHANGED clock) \/ (now' = Zero /\ UNCHANGED clock)
      <3>1. CASE \E l \in Listers : List(l) \/ ListFails(l)
        BY <3>1, ListFrame, ListingKeepsNow
      <3>2. CASE StartReaping \/ EndSweep
        BY <3>2 DEF StartReaping, EndSweep
      <3>3. CASE Tick
        BY <3>3 DEF Tick
      <3> QED  BY <3>1, <3>2, <3>3, NextCases DEF CreateJob, MemCreateJob, MemUpdate, Reap, TxExec, TxRead,
                  MemPut, PutCheck, PutWrite, vars, timeVars
    <2> QED  BY <2>1, <2>2 DEF Zero
  <1>2. DOMAIN seen' = Ids /\ \A id \in Ids : seen'[id] \in {seen[id], Zero} \/ JustRead(id)
    BY SnapshotGrows
  <1>3. created \subseteq created' /\ created' \subseteq Ids /\ \A id \in Ids : Exists(id)' <=> id \in created' \ gone'
    <2>1. RecordInv'
      BY RecordStep
    <2>2. created \subseteq created'
      BY NextCases, ListFrame DEF CreateJob, MemCreateJob, Created, MemUpdate, Reap, Tick, TxExec, TxRead, MemPut,
         PutCheck, PutWrite, recVars, vars
    <2> QED  BY <2>1, <2>2 DEF RecordInv
  <1>4. ASSUME NEW id \in Ids, seen'[id] # Zero
        PROVE  /\ seen'[id] \in Nat /\ id \in created'
               /\ Exists(id)' => Terminal(GetJob(id)'.status) /\ GetJob(id)'.finished_at = seen'[id]
    <2>1. CASE JustRead(id)
      <3>1. GetJob(id) \in JobRecord /\ id \in created
        BY <2>1 DEF JustRead, RecordInv
      <3>2. GetJob(id).finished_at \in Nat
        BY <3>1 DEF JobRecord, Times
      <3>3. GetJob(id)' = GetJob(id)
        BY <2>1 DEF JustRead, GetJob
      <3> QED  BY <1>3, <2>1, <3>1, <3>2, <3>3 DEF JustRead
    <2>2. CASE seen'[id] = seen[id]
      <3>1. /\ seen[id] \in Nat /\ id \in created
            /\ Exists(id) => Terminal(GetJob(id).status) /\ GetJob(id).finished_at = seen[id]
        BY <1>4, <2>2 DEF SnapshotInv
      <3>2. Exists(id)' => Exists(id)
        <4>1. gone \subseteq gone'
          BY NextCases, ListFrame DEF CreateJob, MemCreateJob, Created, MemUpdate, Reap, DeleteJob, Tick, TxExec,
             TxRead, MemPut, PutCheck, PutWrite, recVars, vars
        <4> QED  BY <1>3, <3>1, <4>1 DEF RecordInv
      <3> QED  BY <1>3, <2>2, <3>1, <3>2, SettledStays
    <2> QED  BY <1>2, <1>4, <2>1, <2>2
  <1> QED  BY <1>1, <1>2, <1>4 DEF SnapshotInv

\* However old the snapshot a sweep works from, the job it deletes is, at that
\* moment, settled and past its retention by its own finish time: a settled
\* record is never reopened nor settled anew (reaper.go, reapRetention).
THEOREM DeletesOnlyExpired == Spec => OnlyExpiredDeleted
  <1>1. Init => SnapshotInv
    BY DEF Init, SnapshotInv, NothingSeen, Zero
  <1>2. SnapshotInv /\ RecordInv /\ CallInv /\ [Next]_vars => SnapshotInv'
    BY SnapshotStep
  <1>3. RecordInv /\ SnapshotInv /\ [Next]_vars => [\A id \in gone' \ gone : PastRetention(id)]_vars
    <2> SUFFICES ASSUME RecordInv, SnapshotInv, [Next]_vars, NEW id \in gone' \ gone
                 PROVE  PastRetention(id)
      OBVIOUS
    <2>1. PICK k \in Ids : Reap(k)
      BY NextCases, ListFrame DEF CreateJob, MemCreateJob, Tick, MemUpdate, TxExec, TxRead, MemPut,
                                  PutCheck, PutWrite, recVars, vars
    <2>2. k = id /\ Exists(id) /\ seen[id] # Zero /\ now - seen[id] > Retention
      BY <2>1 DEF Reap, DeleteJob, Expired
    <2>3. Terminal(GetJob(id).status) /\ GetJob(id).finished_at = seen[id] /\ seen[id] \in Nat
      BY <2>1, <2>2 DEF SnapshotInv
    <2>4. now \in Nat /\ now <= clock /\ clock \in Nat /\ Retention \in Nat
      BY StoreAssumption DEF SnapshotInv, RecordInv
    <2>5. clock - seen[id] > Retention
      BY <2>2, <2>3, <2>4
    <2> QED  BY <2>2, <2>3, <2>5 DEF PastRetention
  <1> QED  BY <1>1, <1>2, <1>3, RecordsHold, PTL DEF Spec, OnlyExpiredDeleted

-----------------------------------------------------------------------------
(***************************************************************************)
(* Pages of ids                                                            *)
(***************************************************************************)

LEMMA LeastNat ==
    ASSUME NEW T \in SUBSET Nat, T # {}
    PROVE  \E m \in T : \A k \in T : m <= k
  <1>1. \E m \in T : \A k \in T : <<k, m>> \notin OpToRel(<, Nat)
    BY NatLessThanWellFounded, WFMin, Zenon
  <1>2. PICK m \in T : \A k \in T : <<k, m>> \notin OpToRel(<, Nat)
    BY <1>1, Zenon
  <1>3. \A k \in T : ~(k < m)
    BY <1>2, Zenon DEF OpToRel
  <1> QED  BY <1>3

\* A set of ids has a least and a greatest member.
LEMMA Extremes ==
    ASSUME NEW T \in SUBSET Ids, T # {}
    PROVE  /\ \E m \in T : \A k \in T : m <= k
           /\ \E m \in T : \A k \in T : k <= m
  <1>0. MaxJobs \in Nat /\ T \in SUBSET Nat /\ \A k \in T : k <= MaxJobs
    BY StoreAssumption DEF Ids
  <1>1. \E m \in T : \A k \in T : m <= k
    BY <1>0, LeastNat
  <1> DEFINE D == {MaxJobs - k : k \in T}
  <1>2. D \in SUBSET Nat /\ D # {}
    <2>1. \A k \in T : k \in Nat /\ k <= MaxJobs
      BY <1>0
    <2>2. \A k \in T : MaxJobs - k \in Nat
      BY <1>0, <2>1
    <2> QED  BY <2>2
  <1>3. PICK d \in D : \A e \in D : d <= e
    BY <1>2, LeastNat
  <1>4. PICK m \in T : d = MaxJobs - m
    BY <1>3
  <1>5. \A k \in T : d <= MaxJobs - k
    BY <1>3
  <1>6. \A k \in T : k <= m
    BY <1>0, <1>4, <1>5
  <1> QED  BY <1>1, <1>6

Above(S, i) == {k \in S : k > i}

LEMMA AboveFinite ==
    ASSUME NEW S \in SUBSET Ids, NEW i
    PROVE  IsFiniteSet(Above(S, i)) /\ Cardinality(Above(S, i)) \in Nat
  <1>1. IsFiniteSet(Ids)
    BY StoreAssumption, FS_Interval DEF Ids
  <1>2. Above(S, i) \in SUBSET Ids
    BY DEF Above
  <1> QED  BY <1>1, <1>2, FS_Subset, FS_CardinalityType

\* The newest ids have only ids among them above them.
LEMMA NewestUpward ==
    ASSUME NEW S \in SUBSET Ids, NEW n \in Nat, NEW i \in Newest(S, n), NEW k \in S, k > i
    PROVE  k \in Newest(S, n)
  <1>1. \A x \in S : x \in Int
    BY DEF Ids
  <1>2. i \in S /\ Cardinality(Above(S, i)) < n
    BY DEF Newest, Above
  <1>3. Above(S, k) \in SUBSET Above(S, i)
    <2>1. \A x \in S : x > k => x > i
      BY <1>1, <1>2
    <2> QED  BY <2>1 DEF Above
  <1>4. Cardinality(Above(S, k)) <= Cardinality(Above(S, i))
    BY <1>3, AboveFinite, FS_Subset
  <1>5. Cardinality(Above(S, k)) < n
    BY <1>2, <1>4, AboveFinite
  <1> QED  BY <1>5 DEF Newest, Above

\* A page of n ids, found among the n + 1 newest: it is everything when there
\* was no more, else everything down to its oldest id, which is the cursor.
LEMMA PageCut ==
    ASSUME NEW S \in SUBSET Ids, NEW n \in Nat \ {0}
    PROVE  LET ids == Newest(S, n + 1)
               cut == Newest(ids, n)
           IN  /\ cut \subseteq S
               /\ ids = cut => cut = S
               /\ ids # cut => /\ Oldest(cut) \in cut
                               /\ \A k \in cut : Oldest(cut) <= k
                               /\ \A k \in S : k >= Oldest(cut) => k \in cut
  <1> DEFINE ids == Newest(S, n + 1)
             cut == Newest(ids, n)
  <1>0. \A x \in S : x \in Int
    BY DEF Ids
  <1>1. cut \subseteq ids /\ ids \subseteq S /\ ids \in SUBSET Ids /\ n + 1 \in Nat
    BY DEF Newest
  <1>2. \A i \in ids, k \in S : k > i => k \in ids
    BY <1>1, NewestUpward
  <1>3. \A i \in cut, k \in ids : k > i => k \in cut
    BY <1>1, NewestUpward
  <1>a. \A i \in S : i \in ids <=> Cardinality(Above(S, i)) < n + 1
    BY DEF Newest, Above
  <1>b. \A i \in ids : i \in cut <=> Cardinality(Above(ids, i)) < n
    BY DEF Newest, Above
  <1> HIDE DEF ids, cut
  <1>4. ASSUME ids # cut
        PROVE  /\ Oldest(cut) \in cut /\ \A k \in cut : Oldest(cut) <= k
               /\ \A k \in S : k >= Oldest(cut) => k \in cut
    <2>1. PICK g \in ids : \A k \in ids : k <= g
      BY <1>1, <1>4, Extremes
    <2>2. Above(ids, g) = {}
      <3>1. \A k \in ids : ~(k > g)
        BY <1>0, <1>1, <2>1
      <3> QED  BY <3>1 DEF Above
    <2>3. g \in cut
      BY <1>b, <2>1, <2>2, FS_EmptySet
    <2>4. \E m \in cut : \A k \in cut : m <= k
      BY <1>1, <2>3, Extremes
    <2>5. Oldest(cut) \in cut /\ \A k \in cut : Oldest(cut) <= k
      BY <2>4 DEF Oldest
    <2>6. ASSUME NEW k \in S, k >= Oldest(cut) PROVE k \in cut
      <3>1. Oldest(cut) \in S /\ Oldest(cut) \in ids /\ (k = Oldest(cut) \/ k > Oldest(cut))
        BY <1>0, <1>1, <2>5, <2>6
      <3> QED  BY <1>2, <1>3, <2>5, <3>1
    <2> QED  BY <2>5, <2>6
  <1>5. ASSUME ids = cut, ids # S PROVE FALSE
    <2>1. S \ ids # {} /\ S \ ids \in SUBSET Ids
      BY <1>1, <1>5
    <2>2. PICK m \in S \ ids : \A k \in S \ ids : k <= m
      BY <2>1, Extremes
    <2> DEFINE A == Above(S, m)
    <2>3. IsFiniteSet(A) /\ Cardinality(A) \in Nat /\ Cardinality(A) >= n + 1
      BY <1>1, <1>a, <2>2, AboveFinite
    <2>4. A # {} /\ A \in SUBSET Ids
      BY <2>3, FS_EmptySet DEF Above
    <2>5. A \subseteq ids
      <3>1. \A k \in S : k > m => k \in ids
        BY <1>0, <2>2
      <3> QED  BY <3>1 DEF Above
    <2>6. PICK o \in A : \A k \in A : o <= k
      BY <2>4, Extremes
    <2>7. Above(ids, o) = A \ {o}
      <3>1. \A k \in ids : k > o => k \in A
        BY <1>0, <1>1, <2>2, <2>6 DEF Above
      <3>2. \A k \in A : k # o => k \in ids /\ k > o
        BY <1>0, <1>1, <2>5, <2>6 DEF Above
      <3>3. o \notin Above(ids, o)
        BY <1>0, <1>1, <2>5, <2>6 DEF Above
      <3> QED  BY <3>1, <3>2, <3>3 DEF Above
    <2> HIDE DEF A
    <2>8. Cardinality(A \ {o}) = Cardinality(A) - 1
      BY <2>3, <2>6, FS_RemoveElement
    <2>9. Cardinality(Above(ids, o)) < n
      BY <1>5, <1>b, <2>5, <2>6
    <2> QED  BY <2>3, <2>7, <2>8, <2>9
  <1> QED  BY <1>1, <1>4, <1>5 DEF ids, cut

\* A page holds at least one job.
LEMMA LimitPositive ==
    ASSUME NEW l, NEW n \in Limits(l)
    PROVE  n \in Nat \ {0}
  <1>1. \A m \in Requested : ListLimit(m) \in Nat \ {0}
    BY StoreAssumption DEF ListLimit
  <1> QED  BY <1>1, StoreAssumption DEF Limits

-----------------------------------------------------------------------------
(***************************************************************************)
(* Listings                                                                *)
(***************************************************************************)

\* What a listing may look like at each point.
ListShape(l) ==
    /\ at[l] \in {"idle", "reading", "more", "done", "reaping", "failed", "panicked"}
    /\ token[l] \in Nat
    /\ todo[l] \subseteq Ids /\ page[l] \subseteq Ids /\ pages[l] \in Seq(SUBSET Ids)
    /\ first[l] \subseteq created
    /\ at[l] = "idle" => pages[l] = << >> /\ first[l] = {}
    /\ at[l] # "reading" => page[l] = {} /\ todo[l] = {}
    /\ at[l] \in {"idle", "done", "reaping", "failed"} => token[l] = 0
    /\ at[l] = "more" => token[l] # 0
    /\ at[l] = "reading" => backend = "redis"

\* Redis: what was read lies above what is being read, and the cursor below
\* both; a job of the start is on a page, on this one, or below the cursor.
Cursor(l) ==
    /\ \A i, k \in DOMAIN pages[l] : i < k => \A a \in pages[l][i], b \in pages[l][k] : a > b
    /\ \A a \in Listed(l), b \in page[l] \cup todo[l] : a > b
    /\ token[l] # 0 => \A a \in Listed(l) \cup page[l] \cup todo[l] : a >= token[l]
    /\ \A id \in first[l] \ gone :
          id \in Listed(l) \cup page[l] \cup todo[l] \/ (token[l] # 0 /\ id < token[l])
    /\ at[l] # "panicked"

\* No job of a client's listing was deleted; nothing is, while the reaper lists.
Steady(l) == l = Reaper \/ first[l] \cap gone = {}

\* In-memory: the positions above the token were read, and the ones up to it,
\* if none of them was shifted, hold jobs of the start that were not.
Positions(l) ==
    /\ at[l] \in {"more", "done", "reaping"} =>
          \A i \in DOMAIN order : i > token[l] => order[i] \in Listed(l) \/ order[i] \notin first[l]
    /\ at[l] = "more" /\ Steady(l) =>
          /\ token[l] <= Len(order)
          /\ \A i \in DOMAIN order : i <= token[l] => order[i] \in first[l] /\ order[i] \notin Listed(l)
    /\ Steady(l) => \A i, k \in DOMAIN pages[l] : i < k => pages[l][i] \cap pages[l][k] = {}
    /\ at[l] = "panicked" => ~Steady(l)

ListAt(l) ==
    /\ ListShape(l)
    /\ backend = "redis" => Cursor(l)
    /\ backend = "mem" => Positions(l)

ListInv ==
    /\ DOMAIN at = Listers /\ DOMAIN token = Listers /\ DOMAIN todo = Listers /\ DOMAIN page = Listers
    /\ DOMAIN pages = Listers /\ DOMAIN first = Listers
    /\ \A l \in Listers : ListAt(l)

\* The jobs on a sequence of pages; one more page adds its jobs.
All(q) == UNION {q[i] : i \in DOMAIN q}

LEMMA PageAdded ==
    ASSUME NEW q \in Seq(SUBSET Ids), NEW S \in SUBSET Ids
    PROVE  /\ Append(q, S) \in Seq(SUBSET Ids)
           /\ All(Append(q, S)) = All(q) \cup S
           /\ \A i, k \in DOMAIN Append(q, S) : i < k =>
                 /\ i \in DOMAIN q /\ Append(q, S)[i] = q[i]
                 /\ \/ k \in DOMAIN q /\ Append(q, S)[k] = q[k]
                    \/ Append(q, S)[k] = S
           /\ \A i \in DOMAIN q : q[i] \subseteq All(q)
  <1> DEFINE t == Append(q, S)
  <1>1. /\ t \in Seq(SUBSET Ids) /\ Len(q) \in Nat /\ DOMAIN q = 1 .. Len(q) /\ DOMAIN t = 1 .. Len(q) + 1
        /\ t[Len(q) + 1] = S /\ \A i \in 1 .. Len(q) : t[i] = q[i]
    BY AppendProperties, LenProperties
  <1> HIDE DEF t
  <1>2. All(t) = All(q) \cup S
    <2>1. \A i \in DOMAIN t : t[i] = S \/ (i \in DOMAIN q /\ t[i] = q[i])
      BY <1>1
    <2>2. \A i \in DOMAIN q : i \in DOMAIN t /\ t[i] = q[i]
      BY <1>1
    <2>3. Len(q) + 1 \in DOMAIN t /\ t[Len(q) + 1] = S
      BY <1>1
    <2> QED  BY <2>1, <2>2, <2>3 DEF All
  <1>3. \A i, k \in DOMAIN t : i < k =>
                 /\ i \in DOMAIN q /\ t[i] = q[i]
                 /\ \/ k \in DOMAIN q /\ t[k] = q[k]
                    \/ t[k] = S
    BY <1>1
  <1>4. \A i \in DOMAIN q : q[i] \subseteq All(q)
    BY DEF All
  <1> QED  BY <1>1, <1>2, <1>3, <1>4 DEF t

LEMMA ListedIsAll == \A l : Listed(l) = All(pages[l])
  BY DEF Listed, All

\* What a listing owns.
Own(l) == <<at[l], token[l], todo[l], page[l], pages[l], first[l]>>

\* A listing that does not move stays right while no job comes or goes.
LEMMA Unmoved ==
    ASSUME NEW l, ListAt(l), Own(l)' = Own(l), UNCHANGED <<backend, order, created, gone>>
    PROVE  ListAt(l)'
  <1>1. /\ at'[l] = at[l] /\ token'[l] = token[l] /\ todo'[l] = todo[l] /\ page'[l] = page[l]
        /\ pages'[l] = pages[l] /\ first'[l] = first[l]
    BY DEF Own
  <1>2. Listed(l)' = Listed(l)
    BY <1>1 DEF Listed
  <1> QED  BY <1>1, <1>2 DEF ListAt, ListShape, Cursor, Steady, Positions

\* A job is created: no listing has it among its jobs of the start.
LEMMA CreatedUnlisted ==
    ASSUME RecordInv, NEW l, ListAt(l), Own(l)' = Own(l), NEW id \in Ids, CreateJob(id) \/ MemCreateJob(id)
    PROVE  ListAt(l)'
  <1>1. /\ at'[l] = at[l] /\ token'[l] = token[l] /\ todo'[l] = todo[l] /\ page'[l] = page[l]
        /\ pages'[l] = pages[l] /\ first'[l] = first[l]
    BY DEF Own
  <1>2. Listed(l)' = Listed(l)
    BY <1>1 DEF Listed
  <1>3. id \notin created /\ created' = created \cup {id} /\ UNCHANGED <<gone, backend>>
    BY DEF CreateJob, MemCreateJob, Created
  <1>4. ListShape(l)'
    BY <1>1, <1>3 DEF ListAt, ListShape
  <1>5. backend = "redis" => Cursor(l)'
    BY <1>1, <1>2, <1>3 DEF ListAt, Cursor
  <1>6. ASSUME backend = "mem" PROVE Positions(l)'
    <2>1. order' = Append(order, id) /\ order \in Seq(Ids)
      BY <1>6 DEF CreateJob, MemCreateJob, RecordInv
    <2>2. /\ DOMAIN order' = 1 .. Len(order) + 1 /\ DOMAIN order = 1 .. Len(order) /\ Len(order) \in Nat
          /\ order'[Len(order) + 1] = id /\ \A i \in 1 .. Len(order) : order'[i] = order[i]
          /\ Len(order') = Len(order) + 1
      BY <2>1, AppendProperties, LenProperties
    <2>3. token[l] \in Nat /\ id \notin first[l] /\ Positions(l)
      BY <1>3, <1>6 DEF ListAt, ListShape
    <2>4. \A i \in DOMAIN order' : (i \in DOMAIN order /\ order'[i] = order[i]) \/ (i = Len(order) + 1 /\ order'[i] = id)
      BY <2>2
    <2>5. Steady(l)' <=> Steady(l)
      BY <1>1, <1>3 DEF Steady
    <2>6. at[l] = "more" /\ Steady(l) =>
              /\ token[l] <= Len(order')
              /\ \A i \in DOMAIN order' : i <= token[l] => order'[i] \in first[l] /\ order'[i] \notin Listed(l)
      BY <2>2, <2>3, <2>4 DEF Positions
    <2>7. at[l] \in {"more", "done", "reaping"} =>
              \A i \in DOMAIN order' : i > token[l] => order'[i] \in Listed(l) \/ order'[i] \notin first[l]
      BY <2>3, <2>4 DEF Positions
    <2> QED  BY <1>1, <1>2, <2>3, <2>5, <2>6, <2>7 DEF Positions
  <1> QED  BY <1>3, <1>4, <1>5, <1>6 DEF ListAt

\* A job is deleted, which the reaper does when its own listing is over: what
\* comes to stand at a position stood at it or above it.
LEMMA DeletedUnlisted ==
    ASSUME RecordInv, NEW l, ListAt(l), Own(l)' = Own(l), NEW id \in Ids, Reap(id), DeleteJob(id)
    PROVE  ListAt(l)'
  <1>1. /\ at'[l] = at[l] /\ token'[l] = token[l] /\ todo'[l] = todo[l] /\ page'[l] = page[l]
        /\ pages'[l] = pages[l] /\ first'[l] = first[l]
    BY DEF Own
  <1>2. Listed(l)' = Listed(l)
    BY <1>1 DEF Listed
  <1>3. gone' = gone \cup {id} /\ UNCHANGED <<created, backend>> /\ at[Reaper] = "reaping"
    BY DEF Reap, DeleteJob
  <1>4. ListShape(l)'
    BY <1>1, <1>3 DEF ListAt, ListShape
  <1>5. backend = "redis" => Cursor(l)'
    BY <1>1, <1>2, <1>3 DEF ListAt, Cursor
  <1>6. ASSUME backend = "mem" PROVE Positions(l)'
    <2>1. order \in Seq(Ids) /\ Distinct(order) /\ Exists(id)
      BY DEF RecordInv, DeleteJob
    <2>2. PICK p \in DOMAIN order : order[p] = id
      BY <1>6, <2>1 DEF RecordInv, IndexMatchesRecords
    <2>3. order' = Cut(order, order[p])
      BY <2>2 DEF DeleteJob
    <2>4. /\ order' \in Seq(Ids) /\ Len(order') = Len(order) - 1
          /\ \A k \in 1 .. Len(order) - 1 : order'[k] = IF k < p THEN order[k] ELSE order[k + 1]
      BY <2>1, <2>3, CutOut
    <2>5. DOMAIN order = 1 .. Len(order) /\ DOMAIN order' = 1 .. Len(order) - 1 /\ Len(order) \in Nat
      BY <2>1, <2>4, LenProperties
    <2>6. token[l] \in Nat /\ Positions(l)
      BY <1>6 DEF ListAt, ListShape
    <2>7. Steady(l)' => Steady(l) /\ (l # Reaper => id \notin first[l])
      BY <1>1, <1>3 DEF Steady
    <2>8. at[l] \in {"more", "done", "reaping"} =>
              \A i \in DOMAIN order' : i > token[l] => order'[i] \in Listed(l) \/ order'[i] \notin first[l]
      <3> SUFFICES ASSUME at[l] \in {"more", "done", "reaping"}, NEW i \in DOMAIN order', i > token[l]
                   PROVE  order'[i] \in Listed(l) \/ order'[i] \notin first[l]
        OBVIOUS
      <3>1. PICK k \in DOMAIN order : k >= i /\ order'[i] = order[k]
        <4>1. i \in DOMAIN order /\ i + 1 \in DOMAIN order
          BY <2>5
        <4> QED  BY <2>4, <2>5, <4>1
      <3>2. k > token[l]
        BY <2>5, <2>6, <3>1
      <3> QED  BY <2>6, <3>1, <3>2 DEF Positions
    <2>9. ASSUME at[l] = "more", Steady(l)'
          PROVE  /\ token[l] <= Len(order')
                 /\ \A i \in DOMAIN order' : i <= token[l] => order'[i] \in first[l] /\ order'[i] \notin Listed(l)
      <3>1. l # Reaper
        BY <1>3, <2>9
      <3>2. id \notin first[l] /\ Steady(l)
        BY <2>7, <2>9, <3>1
      <3>3. p > token[l]
        BY <2>2, <2>5, <2>6, <2>9, <3>2 DEF Positions
      <3>4. token[l] <= Len(order')
        BY <2>4, <2>5, <2>6, <3>3
      <3>5. \A i \in DOMAIN order' : i <= token[l] => i \in DOMAIN order /\ order'[i] = order[i]
        BY <2>4, <2>5, <2>6, <3>3
      <3> QED  BY <2>6, <2>9, <3>2, <3>4, <3>5 DEF Positions
    <2>10. at[l] = "panicked" => ~Steady(l)'
      BY <2>6, <2>7 DEF Positions
    <2> QED  BY <1>1, <1>2, <2>6, <2>7, <2>8, <2>9, <2>10 DEF Positions
  <1> QED  BY <1>3, <1>4, <1>5, <1>6 DEF ListAt

\* A listing moves, and only the one.
Moves(l) == \A m \in Listers : m # l => Own(m)' = Own(m)

\* The ids of a page are read: everything of the start that was left is on it
\* or below the new cursor.
LEMMA PageIdsOK ==
    ASSUME RecordInv, ListInv, NEW l \in Listers, NEW n \in Limits(l), PageIds(l, n)
    PROVE  ListAt(l)' /\ Moves(l)
  <1> DEFINE S   == After(token[l])
             ids == Newest(S, n + 1)
             cut == Newest(ids, n)
  <1>0. /\ DOMAIN at = Listers /\ DOMAIN token = Listers /\ DOMAIN todo = Listers /\ DOMAIN page = Listers
        /\ DOMAIN pages = Listers /\ DOMAIN first = Listers /\ ListAt(l)
    BY DEF ListInv
  <1>1. /\ backend = "redis" /\ at[l] \in {"idle", "more"}
        /\ at'[l] = "reading" /\ todo'[l] = cut /\ token'[l] = IF ids # cut THEN Oldest(cut) ELSE 0
        /\ first'[l] = IF at[l] = "idle" THEN created \ gone ELSE first[l]
        /\ page' = page /\ pages' = pages
        /\ UNCHANGED <<backend, order, created, gone, index>>
    BY <1>0 DEF PageIds, Call, recVars
  <1>2. Moves(l)
    BY <1>0 DEF PageIds, Call, Moves, Own
  <1>3. Listed(l)' = Listed(l)
    BY <1>1 DEF Listed
  <1>4. /\ index = created \ gone /\ index \subseteq Ids
        /\ \A k \in index : k \in S <=> (token[l] # 0 => k < token[l])
        /\ S \in SUBSET Ids
    <2>1. index = {k \in Ids : Exists(k)}
      BY <1>1 DEF RecordInv, IndexMatchesRecords
    <2>2. index = created \ gone /\ index \subseteq Ids
      BY <2>1 DEF RecordInv
    <2> QED  BY <2>2 DEF After
  <1>5. ListShape(l) /\ Cursor(l)
    BY <1>0, <1>1 DEF ListAt
  <1>6. /\ cut \subseteq S
        /\ ids = cut => cut = S
        /\ ids # cut => /\ Oldest(cut) \in cut
                        /\ \A k \in cut : Oldest(cut) <= k
                        /\ \A k \in S : k >= Oldest(cut) => k \in cut
    BY <1>4, LimitPositive, PageCut
  <1>7. \A k \in S : k \in Int /\ k > 0 /\ (token[l] # 0 => k < token[l])
    BY <1>4 DEF After, Ids
  <1> HIDE DEF S, ids, cut
  <1>8. page[l] = {} /\ todo[l] = {} /\ token[l] \in Nat /\ (token[l] = 0 => at[l] = "idle" /\ Listed(l) = {})
    BY <1>1, <1>5 DEF ListShape, Listed
  <1>9. \A a \in Listed(l) : a \in Int
    BY <1>5, <1>8 DEF ListShape, Listed, Ids
  <1>10. ListShape(l)'
    BY <1>0, <1>1, <1>4, <1>5, <1>6, <1>7, <1>8 DEF ListShape, RecordInv
  <1>11. \A a \in Listed(l), b \in cut : a > b
    BY <1>5, <1>6, <1>7, <1>8, <1>9 DEF Cursor
  <1>12. token'[l] # 0 => \A a \in Listed(l) \cup cut : a >= token'[l]
    BY <1>1, <1>5, <1>6, <1>7, <1>8, <1>9, <1>11
  <1>13. \A id \in first'[l] \ gone : id \in Listed(l) \cup cut \/ (token'[l] # 0 /\ id < token'[l])
    <2> SUFFICES ASSUME NEW id \in first'[l] \ gone, id \notin Listed(l)
                 PROVE  id \in cut \/ (token'[l] # 0 /\ id < token'[l])
      OBVIOUS
    <2>1. id \in index
      BY <1>1, <1>4, <1>5 DEF ListShape
    <2>2. id \in S
      <3>1. CASE at[l] = "idle"
        BY <1>4, <1>5, <2>1, <3>1 DEF ListShape
      <3>2. CASE at[l] # "idle"
        BY <1>1, <1>4, <1>5, <1>8, <2>1, <3>2 DEF Cursor
      <3> QED  BY <3>1, <3>2
    <2>3. CASE ids = cut
      BY <1>6, <2>2, <2>3
    <2>4. CASE ids # cut
      <3>1. token'[l] = Oldest(cut) /\ Oldest(cut) \in Int /\ Oldest(cut) > 0 /\ id \in Int
        BY <1>1, <1>6, <1>7, <2>2, <2>4
      <3> QED  BY <1>6, <2>2, <2>4, <3>1
    <2> QED  BY <2>3, <2>4
  <1>14. Cursor(l)'
    BY <1>1, <1>3, <1>5, <1>8, <1>11, <1>12, <1>13 DEF Cursor
  <1> QED  BY <1>1, <1>2, <1>10, <1>14 DEF ListAt

\* A job of the page is read, or skipped because it is gone.
LEMMA PageReadOK ==
    ASSUME RecordInv, ListInv, NEW l \in Listers, PageRead(l)
    PROVE  ListAt(l)' /\ Moves(l)
  <1> DEFINE id == CHOOSE i \in todo[l] : \A k \in todo[l] : k <= i
             found == {i \in {id} : Exists(i)}
  <1>0. /\ DOMAIN todo = Listers /\ DOMAIN page = Listers /\ ListAt(l)
    BY DEF ListInv
  <1>1. /\ at[l] = "reading" /\ todo[l] # {} /\ UNCHANGED <<at, token, pages, first, backend, order, created, gone>>
        /\ todo' = [todo EXCEPT ![l] = @ \ {id}] /\ page' = [page EXCEPT ![l] = @ \cup found]
    BY DEF PageRead, recVars
  <1>2. Moves(l)
    BY <1>0, <1>1 DEF Moves, Own
  <1>3. ListShape(l) /\ backend = "redis" /\ Cursor(l)
    BY <1>0, <1>1 DEF ListAt, ListShape
  <1>4. id \in todo[l] /\ id \in Ids
    BY <1>1, <1>3, Extremes DEF ListShape
  <1> HIDE DEF id
  <1>5. todo'[l] = todo[l] \ {id} /\ page'[l] = page[l] \cup found /\ found \subseteq {id}
    BY <1>0, <1>1
  <1>6. id \in found \/ id \in gone \/ id \notin created
    BY <1>4 DEF RecordInv
  <1> HIDE DEF found
  <1>7. Listed(l)' = Listed(l)
    BY <1>1 DEF Listed
  <1>8. ListShape(l)'
    BY <1>1, <1>3, <1>4, <1>5 DEF ListShape
  <1>9. page'[l] \cup todo'[l] \subseteq page[l] \cup todo[l]
    BY <1>4, <1>5
  <1>10. \A k \in first[l] \ gone : k \in page[l] \cup todo[l] => k \in page'[l] \cup todo'[l]
    BY <1>3, <1>5, <1>6 DEF ListShape
  <1>11. Cursor(l)'
    BY <1>1, <1>3, <1>7, <1>9, <1>10 DEF Cursor
  <1> QED  BY <1>1, <1>2, <1>3, <1>8, <1>11 DEF ListAt

\* The page goes to the caller, with the cursor for the next one.
LEMMA PageDoneOK ==
    ASSUME ListInv, NEW l \in Listers, PageDone(l)
    PROVE  ListAt(l)' /\ Moves(l)
  <1>0. DOMAIN at = Listers /\ DOMAIN page = Listers /\ DOMAIN pages = Listers /\ ListAt(l)
    BY DEF ListInv
  <1>1. /\ at[l] = "reading" /\ todo[l] = {} /\ UNCHANGED <<token, todo, first, backend, order, created, gone>>
        /\ pages'[l] = Append(pages[l], page[l]) /\ page'[l] = {}
        /\ at'[l] = IF token[l] = 0 THEN "done" ELSE "more"
    BY <1>0 DEF PageDone, LastPage, recVars
  <1>2. Moves(l)
    BY <1>0 DEF PageDone, Moves, Own
  <1>3. ListShape(l) /\ backend = "redis" /\ Cursor(l)
    BY <1>0, <1>1 DEF ListAt, ListShape
  <1> DEFINE q == pages[l]
             t == Append(q, page[l])
  <1>4. /\ t \in Seq(SUBSET Ids) /\ All(t) = All(q) \cup page[l]
        /\ \A i, k \in DOMAIN t : i < k =>
              /\ i \in DOMAIN q /\ t[i] = q[i]
              /\ \/ k \in DOMAIN q /\ t[k] = q[k]
                 \/ t[k] = page[l]
        /\ \A i \in DOMAIN q : q[i] \subseteq All(q)
    BY <1>3, PageAdded DEF ListShape
  <1> HIDE DEF t
  <1>5. pages'[l] = t /\ Listed(l)' = Listed(l) \cup page[l] /\ Listed(l) = All(q)
    BY <1>1, <1>4 DEF Listed, All, t
  <1>6. ListShape(l)'
    BY <1>1, <1>3, <1>4, <1>5 DEF ListShape
  <1>7. \A i, k \in DOMAIN t : i < k => \A a \in t[i], b \in t[k] : a > b
    <2> SUFFICES ASSUME NEW i \in DOMAIN t, NEW k \in DOMAIN t, i < k, NEW a \in t[i], NEW b \in t[k]
                 PROVE  a > b
      OBVIOUS
    <2>1. i \in DOMAIN q /\ a \in q[i] /\ a \in Listed(l)
      BY <1>4, <1>5
    <2> QED  BY <1>3, <1>4, <2>1 DEF Cursor
  <1>8. Cursor(l)'
    BY <1>1, <1>3, <1>5, <1>7 DEF Cursor
  <1> QED  BY <1>1, <1>2, <1>3, <1>6, <1>8 DEF ListAt

\* A listing that fails, and a sweep that is over, start anew.
LEMMA ResetOK ==
    ASSUME ListInv, NEW l \in Listers, ListFails(l) \/ (l = Reaper /\ EndSweep)
    PROVE  ListAt(l)' /\ Moves(l)
  <1>0. /\ DOMAIN at = Listers /\ DOMAIN token = Listers /\ DOMAIN todo = Listers /\ DOMAIN page = Listers
        /\ DOMAIN pages = Listers /\ DOMAIN first = Listers /\ ListAt(l)
    BY DEF ListInv
  <1>1. Moves(l)
    BY <1>0 DEF ListFails, EndSweep, Moves, Own
  <1>2. /\ at'[l] \in {"idle", "failed"} /\ token'[l] = 0 /\ todo'[l] = {} /\ page'[l] = {}
        /\ pages'[l] = << >> /\ first'[l] = {} /\ UNCHANGED <<backend, order, created, gone>>
    BY <1>0 DEF ListFails, EndSweep, ListAt, ListShape, recVars
  <1>3. Listed(l)' = {} /\ DOMAIN pages'[l] = {} /\ pages'[l] \in Seq(SUBSET Ids)
    BY <1>2 DEF Listed
  <1> QED  BY <1>1, <1>2, <1>3 DEF ListAt, ListShape, Cursor, Positions

\* A sweep that turns from listing to deleting has listed what it has listed.
LEMMA StartOK ==
    ASSUME ListInv, Reaper \in Listers, StartReaping
    PROVE  ListAt(Reaper)' /\ Moves(Reaper)
  <1>0. DOMAIN at = Listers /\ ListAt(Reaper)
    BY DEF ListInv
  <1>1. Moves(Reaper)
    BY <1>0 DEF StartReaping, Moves, Own
  <1>2. /\ at[Reaper] = "done" /\ at'[Reaper] = "reaping"
        /\ UNCHANGED <<token, todo, page, pages, first, backend, order, created, gone>>
    BY <1>0 DEF StartReaping, recVars
  <1>3. Listed(Reaper)' = Listed(Reaper) /\ (Steady(Reaper)' <=> Steady(Reaper))
    BY <1>2 DEF Listed, Steady
  <1> QED  BY <1>0, <1>1, <1>2, <1>3 DEF ListAt, ListShape, Cursor, Positions

\* A page of positions: they hold jobs that were not listed, unless one that
\* stood below was deleted meanwhile.
LEMMA MemPageOK ==
    ASSUME RecordInv, ListInv, NEW l \in Listers, NEW n \in Limits(l), MemPage(l, n)
    PROVE  ListAt(l)' /\ Moves(l)
  <1> DEFINE start == IF token[l] = 0 THEN Len(order) ELSE token[l]
             last  == IF start > n THEN start - n ELSE 0
             found == {order[i] : i \in (last + 1) .. start}
             begun == IF at[l] = "idle" THEN created \ gone ELSE first[l]
  <1>0. /\ DOMAIN at = Listers /\ DOMAIN token = Listers /\ DOMAIN pages = Listers /\ DOMAIN first = Listers
        /\ ListAt(l)
    BY DEF ListInv
  <1>1. /\ backend = "mem" /\ at[l] \in {"idle", "more"} /\ first'[l] = begun
        /\ UNCHANGED <<backend, order, created, gone, todo, page>>
    BY <1>0 DEF MemPage, Call, recVars
  <1>2. Moves(l)
    BY <1>0 DEF MemPage, Call, Moves, Own
  <1>3. ListShape(l) /\ Positions(l) /\ n \in Nat \ {0}
    BY <1>0, <1>1, LimitPositive DEF ListAt
  <1>4. /\ order \in Seq(Ids) /\ Distinct(order) /\ DOMAIN order = 1 .. Len(order) /\ Len(order) \in Nat
        /\ {order[i] : i \in DOMAIN order} = created \ gone
    <2>1. order \in Seq(Ids) /\ Distinct(order)
      BY DEF RecordInv
    <2>2. {order[i] : i \in DOMAIN order} = {id \in Ids : Exists(id)}
      BY <1>1 DEF RecordInv, IndexMatchesRecords
    <2> QED  BY <2>1, <2>2, LenProperties DEF RecordInv
  <1>5. /\ token[l] \in Nat /\ start \in Nat /\ last \in Nat /\ last <= start /\ (start > 0 => last < start)
        /\ at[l] = "idle" => token[l] = 0 /\ start = Len(order) /\ Listed(l) = {}
        /\ at[l] = "more" => start = token[l] /\ start > 0
        /\ page[l] = {} /\ todo[l] = {}
    BY <1>1, <1>3, <1>4 DEF ListShape, Listed
  <1>5a. /\ Len(order) \in Nat /\ start \in Nat /\ last \in Nat /\ token[l] \in Nat /\ last <= start
         /\ \A i \in DOMAIN order : i \in Nat /\ i <= Len(order)
         /\ at[l] = "idle" => start = Len(order)
         /\ at[l] = "more" => start = token[l]
    <2>1. \A i \in 1 .. Len(order) : i \in Nat /\ i <= Len(order)
      BY <1>4
    <2> HIDE DEF start, last
    <2> QED  BY ONLY <1>4, <1>5, <2>1, Zenon
  <1>6. Steady(l)' => (at[l] = "more" => Steady(l))
    BY <1>0, <1>1 DEF Steady
  <1>7. CASE start > Len(order)
    <2>1. at[l] = "more" /\ ~Steady(l)
      BY <1>1, <1>3, <1>4, <1>5, <1>7 DEF Positions
    <2>2. at'[l] = "panicked" /\ UNCHANGED <<token, pages>>
      BY <1>0, <1>4, <1>5, <1>7 DEF MemPage
    <2>3. Listed(l)' = Listed(l) /\ first'[l] = first[l]
      BY <1>1, <2>1, <2>2 DEF Listed
    <2>4. ListShape(l)'
      BY <1>1, <1>3, <1>5, <2>2, <2>3 DEF ListShape
    <2>5. Positions(l)'
      BY <1>6, <2>1, <2>2 DEF Positions
    <2> QED  BY <1>1, <1>2, <2>4, <2>5 DEF ListAt
  <1>8. CASE start <= Len(order)
    <2>1. /\ pages'[l] = Append(pages[l], found) /\ token'[l] = last
          /\ at'[l] = IF last = 0 THEN "done" ELSE "more"
      BY <1>0, <1>4, <1>5, <1>8 DEF MemPage
    <2>2. \A i \in (last + 1) .. start : i \in DOMAIN order
      BY <1>4, <1>5, <1>8
    <2>3. found \subseteq created \ gone /\ found \in SUBSET Ids
      BY <1>4, <2>2 DEF RecordInv
    <2>4. \A i \in DOMAIN order : order[i] \in found <=> (last < i /\ i <= start)
      BY <1>4, <1>5, <2>2 DEF Distinct
    <2>5. at[l] = "more" /\ Steady(l) => found \cap Listed(l) = {}
      BY <1>3, <1>4, <1>5, <2>2 DEF Positions
    <2> DEFINE q == pages[l]
               t == Append(q, found)
    <2> HIDE DEF start, last, found
    <2>6. /\ t \in Seq(SUBSET Ids) /\ All(t) = All(q) \cup found
          /\ \A i, k \in DOMAIN t : i < k =>
                /\ i \in DOMAIN q /\ t[i] = q[i]
                /\ \/ k \in DOMAIN q /\ t[k] = q[k]
                   \/ t[k] = found
          /\ \A i \in DOMAIN q : q[i] \subseteq All(q)
      BY <1>3, <2>3, PageAdded DEF ListShape
    <2> HIDE DEF t
    <2>7. pages'[l] = t /\ Listed(l)' = Listed(l) \cup found /\ Listed(l) = All(q)
      BY <2>1, <2>6 DEF Listed, All, t
    <2>8. ListShape(l)'
      BY <1>1, <1>3, <1>5, <2>1, <2>6, <2>7 DEF ListShape, RecordInv
    <2>9. \A i \in DOMAIN order : i > last => order[i] \in Listed(l) \cup found \/ order[i] \notin begun
      <3> SUFFICES ASSUME NEW i \in DOMAIN order, i > last, ~(i <= start)
                   PROVE  order[i] \in Listed(l) \/ order[i] \notin begun
        BY <2>4
      <3>1. at[l] = "more" /\ i > token[l]
        BY <1>1, <1>5a
      <3> QED  BY <1>3, <3>1 DEF Positions
    <2>10. ASSUME Steady(l)'
           PROVE  /\ last <= Len(order)
                  /\ \A i \in DOMAIN order : i <= last => order[i] \in begun /\ order[i] \notin Listed(l) \cup found
      <3>1. last <= Len(order)
        BY <1>5a, <1>8
      <3>2. ASSUME NEW i \in DOMAIN order, i <= last PROVE order[i] \in begun /\ order[i] \notin Listed(l) \cup found
        <4>1. order[i] \notin found
          BY <1>5a, <2>4, <3>2
        <4>2. CASE at[l] = "idle"
          BY <1>4, <1>5, <4>1, <4>2
        <4>3. CASE at[l] = "more"
          <5>1. i <= token[l]
            BY <1>4, <1>5, <3>2, <4>3
          <5> QED  BY <1>3, <1>6, <2>10, <4>1, <4>3, <5>1 DEF Positions
        <4> QED  BY <1>1, <4>2, <4>3
      <3> QED  BY <3>1, <3>2
    <2>11. ASSUME Steady(l)', NEW i \in DOMAIN t, NEW k \in DOMAIN t, i < k PROVE t[i] \cap t[k] = {}
      <3>1. i \in DOMAIN q /\ t[i] = q[i] /\ q[i] \subseteq Listed(l)
        BY <2>6, <2>7, <2>11
      <3>2. at[l] = "more"
        BY <1>1, <1>3, <3>1 DEF ListShape
      <3>3. CASE t[k] = found
        BY <1>6, <2>5, <2>11, <3>1, <3>2, <3>3
      <3>4. CASE k \in DOMAIN q /\ t[k] = q[k]
        BY <1>3, <1>6, <2>11, <3>1, <3>2, <3>4 DEF Positions
      <3> QED  BY <2>6, <2>11, <3>3, <3>4
    <2>12. Positions(l)'
      <3>1. at'[l] \in {"done", "more"} /\ token'[l] = last /\ first'[l] = begun /\ order' = order
        BY <1>1, <2>1
      <3> QED  BY <2>7, <2>9, <2>10, <2>11, <3>1 DEF Positions
    <2> QED  BY <1>1, <1>2, <2>8, <2>12 DEF ListAt
  <1> QED  BY <1>4, <1>5, <1>7, <1>8

\* Every step keeps every listing right.
LEMMA ListStep ==
    ASSUME RecordInv, ListInv, [Next]_vars
    PROVE  ListInv'
  <1>1. \A l \in Listers : ListAt(l)
    BY DEF ListInv
  <1> DEFINE Indexed == /\ DOMAIN at' = Listers /\ DOMAIN token' = Listers /\ DOMAIN todo' = Listers
                        /\ DOMAIN page' = Listers /\ DOMAIN pages' = Listers /\ DOMAIN first' = Listers
  <1>2. Indexed
    <2>1. CASE UNCHANGED <<at, token, todo, page, pages, first>>
      BY <2>1 DEF ListInv
    <2>2. CASE (\E l \in Listers : List(l) \/ ListFails(l)) \/ StartReaping \/ EndSweep
      <3>1. ASSUME NEW l \in Listers, NEW n, PageIds(l, n) \/ MemPage(l, n) PROVE Indexed
        BY <3>1 DEF ListInv, PageIds, MemPage, Call
      <3>2. ASSUME NEW l \in Listers, PageRead(l) \/ PageDone(l) \/ ListFails(l) PROVE Indexed
        BY <3>2 DEF ListInv, PageRead, PageDone, ListFails
      <3>3. CASE StartReaping \/ EndSweep
        BY <3>3 DEF ListInv, StartReaping, EndSweep
      <3> QED  BY <2>2, <3>1, <3>2, <3>3 DEF List
    <2> QED  BY <2>1, <2>2, NextCases DEF CreateJob, MemCreateJob, Tick, MemUpdate, Reap, TxExec, TxRead, MemPut,
                PutCheck, PutWrite, listVars, vars
  <1> SUFFICES \A l \in Listers : ListAt(l)'
    BY <1>2 DEF ListInv
  <1>3. ASSUME NEW l \in Listers, ListAt(l)' /\ Moves(l), UNCHANGED <<backend, recVars>>
        PROVE  \A m \in Listers : ListAt(m)'
    <2>1. UNCHANGED <<backend, order, created, gone>>
      BY <1>3 DEF recVars
    <2>2. \A m \in Listers : m # l => ListAt(m)'
      BY <1>1, <1>3, <2>1, Unmoved DEF Moves
    <2> QED  BY <1>3, <2>2
  <1>4. ASSUME NEW l \in Listers, List(l) \/ ListFails(l) PROVE \A m \in Listers : ListAt(m)'
    <2>1. UNCHANGED <<backend, recVars>>
      BY <1>4, ListFrame
    <2>2. ListAt(l)' /\ Moves(l)
      BY <1>4, PageIdsOK, PageReadOK, PageDoneOK, ResetOK, MemPageOK DEF List
    <2> QED  BY <1>3, <2>1, <2>2
  <1>5. CASE EndSweep
    <2>1. UNCHANGED <<backend, recVars>> /\ Reaper \in Listers
      BY <1>5, ListFrame DEF Listers
    <2>2. ListAt(Reaper)' /\ Moves(Reaper)
      BY <1>5, <2>1, ResetOK
    <2> QED  BY <1>3, <2>1, <2>2
  <1>5a. CASE StartReaping
    <2>1. UNCHANGED <<backend, recVars>> /\ Reaper \in Listers
      BY <1>5a, ListFrame DEF Listers
    <2>2. ListAt(Reaper)' /\ Moves(Reaper)
      BY <1>5a, <2>1, StartOK
    <2> QED  BY <1>3, <2>1, <2>2
  <1>6. ASSUME UNCHANGED <<at, token, todo, page, pages, first>> PROVE \A l : Own(l)' = Own(l)
    BY <1>6 DEF Own
  <1>7. CASE UNCHANGED <<at, token, todo, page, pages, first, backend, order, created, gone>>
    BY <1>1, <1>6, <1>7, Unmoved
  <1>8. CASE \E id \in Ids : CreateJob(id) \/ MemCreateJob(id)
    <2>1. UNCHANGED <<at, token, todo, page, pages, first>>
      BY <1>8 DEF CreateJob, MemCreateJob, listVars
    <2> QED  BY <1>1, <1>6, <1>8, <2>1, CreatedUnlisted
  <1>9. ASSUME NEW id \in Ids, Reap(id) PROVE \A l \in Listers : ListAt(l)'
    <2>1. UNCHANGED <<at, token, todo, page, pages, first, backend, created>>
      BY <1>9 DEF Reap
    <2>2. CASE DeleteJob(id)
      BY <1>1, <1>6, <1>9, <2>1, <2>2, DeletedUnlisted
    <2>3. CASE UNCHANGED <<order, gone>>
      BY <1>7, <2>1, <2>3
    <2> QED  BY <1>9, <2>2, <2>3 DEF Reap
  <1>10. CASE \/ Tick \/ \E id \in Ids : MemUpdate(id)
              \/ \E u \in Updaters : TxExec(u) \/ \E id \in Ids : TxRead(u, id)
              \/ \E id \in Ids, key \in Keys : MemPut(id, key) \/ \E w \in Writers : PutCheck(w, id, key)
              \/ \E w \in Writers : PutWrite(w)
              \/ UNCHANGED vars
    BY <1>7, <1>10 DEF Tick, MemUpdate, TxExec, TxRead, MemPut, PutCheck, PutWrite, recVars, listVars, vars
  <1> QED  BY <1>4, <1>5, <1>5a, <1>8, <1>9, <1>10, NextCases

LEMMA ListsHold == Spec => []ListInv
  <1>1. Init => ListInv
    <2> SUFFICES ASSUME Init PROVE ListInv
      OBVIOUS
    <2>1. ASSUME NEW l \in Listers PROVE ListAt(l)
      <3>1. /\ at[l] = "idle" /\ token[l] = 0 /\ todo[l] = {} /\ page[l] = {}
            /\ pages[l] = << >> /\ first[l] = {} /\ created = {}
        BY DEF Init
      <3>2. Listed(l) = {} /\ DOMAIN pages[l] = {} /\ pages[l] \in Seq(SUBSET Ids)
        BY <3>1 DEF Listed
      <3> QED  BY <3>1, <3>2 DEF ListAt, ListShape, Cursor, Positions
    <2> QED  BY <2>1 DEF Init, ListInv
  <1>2. RecordInv /\ ListInv /\ [Next]_vars => ListInv'
    BY ListStep
  <1> QED  BY <1>1, <1>2, RecordsHold, PTL DEF Spec

\* A listing that ran to its end holds every job that existed when it began
\* and still does, whatever was created, settled and deleted between its pages
\* (ListJobs of both stores).
THEOREM ListingsAreComplete == Spec => []ListingComplete
  <1>1. RecordInv /\ ListInv => ListingComplete
    <2> SUFFICES ASSUME RecordInv, ListInv, NEW l \in Listers, at[l] \in {"done", "reaping"},
                        NEW id \in first[l] \ gone
                 PROVE  id \in Listed(l)
      BY DEF ListingComplete
    <2>1. ListShape(l) /\ (backend = "redis" => Cursor(l)) /\ (backend = "mem" => Positions(l))
      BY DEF ListInv, ListAt
    <2>2. token[l] = 0 /\ page[l] = {} /\ todo[l] = {} /\ id \in created \ gone
      BY <2>1 DEF ListShape
    <2>3. CASE backend = "redis"
      BY <2>1, <2>2, <2>3 DEF Cursor
    <2>4. CASE backend = "mem"
      <3>1. PICK i \in DOMAIN order : order[i] = id
        BY <2>2, <2>4 DEF RecordInv, IndexMatchesRecords
      <3>2. i > 0
        BY LenProperties DEF RecordInv
      <3> QED  BY <2>1, <2>2, <2>4, <3>1, <3>2 DEF Positions
    <2> QED  BY <2>3, <2>4 DEF RecordInv
  <1> QED  BY <1>1, ListsHold, RecordsHold, PTL

\* Over Redis the pages of a listing descend; in memory they do not overlap,
\* and no token points past the end of the list, unless a job of the listing
\* was deleted under it, which cannot happen to the reaper's own.
THEOREM PagesAreOrdered == Spec => []PagesDescend
  <1>1. RecordInv /\ ListInv => PagesDescend
    <2> SUFFICES ASSUME RecordInv, ListInv, NEW l \in Listers
                 PROVE  /\ \A i, k \in DOMAIN pages[l] : i < k =>
                             IF backend = "redis"
                             THEN \A a \in pages[l][i], b \in pages[l][k] : a > b
                             ELSE l = Reaper \/ first[l] \cap gone = {} => pages[l][i] \cap pages[l][k] = {}
                        /\ at[l] = "panicked" => backend = "mem" /\ l # Reaper /\ first[l] \cap gone # {}
      BY DEF PagesDescend
    <2>1. (backend = "redis" => Cursor(l)) /\ (backend = "mem" => Positions(l))
      BY DEF ListInv, ListAt
    <2> QED  BY <2>1 DEF RecordInv, Cursor, Positions, Steady
  <1> QED  BY <1>1, ListsHold, RecordsHold, PTL


=============================================================================
