-------------------------- MODULE EventPumpProofs --------------------------
(***************************************************************************)
(* Proofs about EventPump, for a stream of any length, any set of request  *)
(* ids, any limits on memory calls and tokens, and any number of failing   *)
(* appends.                                                                *)
(***************************************************************************)
EXTENDS EventPump, TLAPS, FiniteSetTheorems, SequenceTheorems

Kinds == {"text", "plain", "ready", "token", "call", "foreign"}
Event == [kind : Kinds, id : Ids \cup {Other, Oversized}]

-----------------------------------------------------------------------------
(***************************************************************************)
(* Appending                                                               *)
(***************************************************************************)

\* The limits of a run are natural numbers.
LEMMA Limits ==
    /\ MaxEvents \in Nat /\ MaxInFlight \in Nat /\ MaxCalls \in Nat
    /\ MaxTokens \in Nat /\ MaxFaults \in Nat
  BY PumpAssumption

\* t is s without its entry j.
Without(t, s, j) ==
    /\ Len(t) = Len(s) - 1
    /\ \A h \in 1 .. Len(t) : t[h] = IF h < j THEN s[h] ELSE s[h + 1]

\* Cutting an entry out of a sequence, the way AppendAll does.
LEMMA CutOut ==
    ASSUME NEW s \in Seq(Entry), NEW t \in Seq(Entry), NEW i \in 1 .. Len(t)
    PROVE  LET cut == s \o SubSeq(t, 1, i - 1) \o SubSeq(t, i + 1, Len(t))
           IN  cut \in Seq(Entry) /\ Without(cut, s \o t, Len(s) + i)
  <1> DEFINE front == SubSeq(t, 1, i - 1)
             back  == SubSeq(t, i + 1, Len(t))
             cut   == s \o front \o back
  <1>1. Len(t) \in Nat /\ Len(s) \in Nat /\ \A k \in 1 .. Len(t) : t[k] \in Entry
    BY LenProperties, ElementOfSeq
  <1>2. /\ front \in Seq(Entry) /\ Len(front) = i - 1
        /\ \A k \in 1 .. i - 1 : front[k] = t[k]
    <2>1. \A k \in 1 .. i - 1 : t[k] \in Entry
      BY <1>1
    <2>2. /\ front \in Seq(Entry)
          /\ Len(front) = IF 1 <= i - 1 THEN (i - 1) - 1 + 1 ELSE 0
          /\ \A k \in 1 .. (i - 1) - 1 + 1 : front[k] = t[1 + k - 1]
      BY <2>1, <1>1, SubSeqProperties
    <2> QED  BY <2>2, <1>1
  <1>3. /\ back \in Seq(Entry) /\ Len(back) = Len(t) - i
        /\ \A k \in 1 .. Len(t) - i : back[k] = t[i + k]
    <2>1. \A k \in i + 1 .. Len(t) : t[k] \in Entry
      BY <1>1
    <2>2. /\ back \in Seq(Entry)
          /\ Len(back) = IF i + 1 <= Len(t) THEN Len(t) - (i + 1) + 1 ELSE 0
          /\ \A k \in 1 .. Len(t) - (i + 1) + 1 : back[k] = t[(i + 1) + k - 1]
      <3> HIDE DEF front
      <3> QED  BY <2>1, <1>1, SubSeqProperties
    <2> QED  BY <2>2, <1>1
  <1> HIDE DEF front, back
  <1>4. /\ s \o t \in Seq(Entry) /\ Len(s \o t) = Len(s) + Len(t)
        /\ \A k \in 1 .. Len(s) + Len(t) : (s \o t)[k] = IF k <= Len(s) THEN s[k] ELSE t[k - Len(s)]
    BY ConcatProperties
  <1>5. /\ s \o front \in Seq(Entry) /\ Len(s \o front) = Len(s) + (i - 1)
        /\ \A k \in 1 .. Len(s) + (i - 1) :
              (s \o front)[k] = IF k <= Len(s) THEN s[k] ELSE front[k - Len(s)]
    <2>1. /\ s \o front \in Seq(Entry) /\ Len(s \o front) = Len(s) + Len(front)
          /\ \A k \in 1 .. Len(s) + Len(front) :
                (s \o front)[k] = IF k <= Len(s) THEN s[k] ELSE front[k - Len(s)]
      BY <1>2, ConcatProperties
    <2> QED  BY <2>1, <1>2
  <1>6. /\ cut \in Seq(Entry) /\ Len(cut) = Len(s) + (i - 1) + (Len(t) - i)
        /\ \A k \in 1 .. Len(s) + (i - 1) + (Len(t) - i) :
              cut[k] = IF k <= Len(s) + (i - 1) THEN (s \o front)[k]
                                                ELSE back[k - (Len(s) + (i - 1))]
    <2>1. \A u, v \in Seq(Entry) :
             /\ u \o v \in Seq(Entry) /\ Len(u \o v) = Len(u) + Len(v)
             /\ \A k \in 1 .. Len(u) + Len(v) :
                   (u \o v)[k] = IF k <= Len(u) THEN u[k] ELSE v[k - Len(u)]
      BY ConcatProperties
    <2>2. /\ cut \in Seq(Entry) /\ Len(cut) = Len(s \o front) + Len(back)
          /\ \A k \in 1 .. Len(s \o front) + Len(back) :
                cut[k] = IF k <= Len(s \o front) THEN (s \o front)[k]
                                                 ELSE back[k - Len(s \o front)]
      BY <1>3, <1>5, <2>1, Zenon
    <2> QED  BY <2>2, <1>3, <1>5
  <1> HIDE DEF cut
  <1>7. Without(cut, s \o t, Len(s) + i)
    <2>1. Len(cut) = Len(s \o t) - 1
      BY <1>1, <1>4, <1>6
    <2>2. ASSUME NEW h \in 1 .. Len(cut)
          PROVE  cut[h] = IF h < Len(s) + i THEN (s \o t)[h] ELSE (s \o t)[h + 1]
      <3>1. CASE h <= Len(s)
        BY <3>1, <1>1, <1>4, <1>5, <1>6
      <3>2. CASE Len(s) < h /\ h < Len(s) + i
        <4>1. cut[h] = front[h - Len(s)] /\ h - Len(s) \in 1 .. i - 1
          BY <3>2, <1>1, <1>5, <1>6
        <4>2. (s \o t)[h] = t[h - Len(s)]
          BY <3>2, <1>1, <1>4
        <4> QED  BY <3>2, <4>1, <4>2, <1>2
      <3>3. CASE Len(s) + i <= h
        <4>1. cut[h] = back[h - (Len(s) + (i - 1))] /\ h - (Len(s) + (i - 1)) \in 1 .. Len(t) - i
          BY <3>3, <1>1, <1>6
        <4>2. back[h - (Len(s) + (i - 1))] = t[i + (h - (Len(s) + (i - 1)))]
          BY <4>1, <1>3
        <4>3. (s \o t)[h + 1] = t[h + 1 - Len(s)]
          BY <3>3, <1>1, <1>4, <1>6
        <4>4. i + (h - (Len(s) + (i - 1))) = h + 1 - Len(s)
          BY <1>1
        <4> QED  BY <3>3, <4>1, <4>2, <4>3, <4>4, <1>1
      <3> QED  BY <3>1, <3>2, <3>3, <1>1, <1>6
    <2> QED  BY <2>1, <2>2 DEF Without
  <1> QED  BY <1>6, <1>7 DEF cut, front, back

\* What AppendAll does: it appends everything, or everything but one entry,
\* which is lost.
LEMMA AppendAllEffect ==
    ASSUME timeline \in Seq(Entry), NEW entries \in Seq(Entry), AppendAll(entries)
    PROVE  /\ timeline \o entries \in Seq(Entry)
           /\ timeline' \in Seq(Entry)
           /\ \/ timeline' = timeline \o entries /\ lost' = lost /\ faults' = faults
              \/ \E j \in Len(timeline) + 1 .. Len(timeline \o entries) :
                    /\ Without(timeline', timeline \o entries, j)
                    /\ lost' = lost \cup {(timeline \o entries)[j]}
                    /\ faults < MaxFaults /\ faults' = faults + 1
  <1>1. /\ timeline \o entries \in Seq(Entry)
        /\ Len(timeline \o entries) = Len(timeline) + Len(entries)
        /\ \A k \in 1 .. Len(timeline) + Len(entries) : (timeline \o entries)[k] =
              IF k <= Len(timeline) THEN timeline[k] ELSE entries[k - Len(timeline)]
    BY ConcatProperties
  <1>2. CASE timeline' = timeline \o entries /\ UNCHANGED <<lost, faults>>
    BY <1>1, <1>2
  <1>3. ASSUME NEW i \in DOMAIN entries,
               faults < MaxFaults, faults' = faults + 1,
               timeline' = timeline \o SubSeq(entries, 1, i - 1)
                                    \o SubSeq(entries, i + 1, Len(entries)),
               lost' = lost \cup {entries[i]}
        PROVE  /\ timeline' \in Seq(Entry)
               /\ \E j \in Len(timeline) + 1 .. Len(timeline \o entries) :
                    /\ Without(timeline', timeline \o entries, j)
                    /\ lost' = lost \cup {(timeline \o entries)[j]}
    <2>1. i \in 1 .. Len(entries) /\ Len(entries) \in Nat /\ Len(timeline) \in Nat
      BY LenProperties
    <2>2. timeline' \in Seq(Entry) /\ Without(timeline', timeline \o entries, Len(timeline) + i)
      BY <1>3, <2>1, CutOut
    <2>3. (timeline \o entries)[Len(timeline) + i] = entries[i]
      BY <1>1, <2>1
    <2>4. Len(timeline) + i \in Len(timeline) + 1 .. Len(timeline \o entries)
      BY <1>1, <2>1
    <2> QED  BY <1>3, <2>2, <2>3, <2>4
  <1> QED  BY <1>1, <1>2, <1>3 DEF AppendAll

\* What the pump appends are entries.
LEMMA EntriesType ==
    /\ \A kind \in {"event", "answer"}, n \in 1 .. MaxEvents : Recorded(kind, n) \in Seq(Entry)
    /\ \A n \in 1 .. MaxEvents : RequestThenAnswer(n) \in Seq(Entry)
    /\ \A buffer \in Seq(1 .. MaxEvents) : FlushDeltas(buffer) \in Seq(Entry)
  <1>1. ASSUME NEW kind \in {"event", "answer"}, NEW n \in 1 .. MaxEvents
        PROVE  Recorded(kind, n) \in Seq(Entry)
    <2>1. <<n>> \in Seq(1 .. MaxEvents)
      OBVIOUS
    <2> QED  BY <2>1 DEF Recorded, Entry
  <1>2. ASSUME NEW n \in 1 .. MaxEvents PROVE RequestThenAnswer(n) \in Seq(Entry)
    <2>1. Recorded("event", n) \in Seq(Entry) /\ Recorded("answer", n) \in Seq(Entry)
      BY <1>1
    <2> QED  BY <2>1, ConcatProperties DEF RequestThenAnswer
  <1>3. ASSUME NEW buffer \in Seq(1 .. MaxEvents) PROVE FlushDeltas(buffer) \in Seq(Entry)
    <2>1. [kind |-> "event", evs |-> buffer] \in Entry
      BY DEF Entry
    <2> QED  BY <2>1 DEF FlushDeltas
  <1> QED  BY <1>1, <1>2, <1>3

\* AppendAll keeps the types.
LEMMA AppendAllType ==
    ASSUME timeline \in Seq(Entry), \A e \in lost : e \in Entry, faults \in 0 .. MaxFaults,
           NEW entries \in Seq(Entry), AppendAll(entries)
    PROVE  /\ timeline' \in Seq(Entry)
           /\ \A e \in lost' : e \in Entry
           /\ faults' \in 0 .. MaxFaults
  <1>1. timeline' \in Seq(Entry) /\ timeline \o entries \in Seq(Entry)
    BY AppendAllEffect
  <1>2. \A j \in Len(timeline) + 1 .. Len(timeline \o entries) : (timeline \o entries)[j] \in Entry
    <2>1. Len(timeline) \in Nat /\ Len(timeline \o entries) \in Nat
      BY <1>1, LenProperties
    <2> QED  BY <1>1, <2>1, ElementOfSeq
  <1>3. CASE lost' = lost /\ faults' = faults
    BY <1>1, <1>3
  <1>4. ASSUME NEW j \in Len(timeline) + 1 .. Len(timeline \o entries),
               lost' = lost \cup {(timeline \o entries)[j]},
               faults < MaxFaults, faults' = faults + 1
        PROVE  (\A e \in lost' : e \in Entry) /\ faults' \in 0 .. MaxFaults
    BY <1>2, <1>4, Limits
  <1> QED  BY <1>1, <1>3, <1>4, AppendAllEffect

-----------------------------------------------------------------------------
(***************************************************************************)
(* Types, slots and limits                                                 *)
(***************************************************************************)

\* The goroutines are those of events received, one slot each.
Bookkeeping ==
    /\ Len(received) <= MaxEvents
    /\ DOMAIN gpc \subseteq 1 .. Len(received)
    /\ slots = Cardinality(DOMAIN gpc)

\* Receiving an event adds it to the stream and leaves the others.
LEMMA ReceiveEffect ==
    ASSUME received \in Seq(Event), Receiving,
           NEW kind \in Kinds, NEW id \in Ids \cup {Other, Oversized}, Receive(kind, id)
    PROVE  /\ received' \in Seq(Event)
           /\ Len(received) \in Nat /\ Now = Len(received) + 1
           /\ Len(received') = Now /\ Now \in 1 .. MaxEvents
           /\ received'[Now] = [kind |-> kind, id |-> id]
           /\ \A n \in 1 .. Len(received) : received'[n] = received[n]
  <1>1. [kind |-> kind, id |-> id] \in Event
    BY DEF Event
  <1>2. Len(received) \in Nat
    BY LenProperties
  <1> QED  BY <1>1, <1>2, AppendProperties, Limits DEF Receive, Receiving, Now

\* The set of goroutines is finite.
LEMMA GoroutinesFinite ==
    ASSUME DOMAIN gpc \subseteq 1 .. MaxEvents
    PROVE  IsFiniteSet(DOMAIN gpc) /\ Cardinality(DOMAIN gpc) \in Nat
  <1>1. IsFiniteSet(1 .. MaxEvents)
    BY FS_Interval, Limits
  <1>2. IsFiniteSet(DOMAIN gpc)
    BY <1>1, FS_Subset
  <1> QED  BY <1>2, FS_CardinalityType

\* Every variable keeps its type and every counter its limit: at most
\* MaxInFlight memory calls, MaxCalls admissions and MaxTokens tokens, on a
\* stream of any length (pump.go).
THEOREM TypeCorrect == Spec => [](TypeOK /\ Bookkeeping)
  <1> USE Limits
  <1> USE DEF Kinds, Event
  <1>1. Init => TypeOK /\ Bookkeeping
    <2> SUFFICES ASSUME Init PROVE TypeOK /\ Bookkeeping
      OBVIOUS
    <2>1. DOMAIN gpc = {}
      BY DEF Init
    <2>2. Cardinality(DOMAIN gpc) = 0
      BY <2>1, FS_EmptySet
    <2> QED  BY <2>1, <2>2 DEF Init, TypeOK, Bookkeeping, Entry
  <1>2. TypeOK /\ Bookkeeping /\ [Next]_vars => (TypeOK /\ Bookkeeping)'
    <2> SUFFICES ASSUME TypeOK, Bookkeeping, [Next]_vars PROVE (TypeOK /\ Bookkeeping)'
      OBVIOUS
    <2> USE DEF TypeOK, Bookkeeping
    <2> DEFINE Typed == timeline' \in Seq(Entry) /\ (\A e \in lost' : e \in Entry)
                          /\ faults' \in 0 .. MaxFaults
    <2>0. ASSUME NEW entries \in Seq(Entry), AppendAll(entries) PROVE Typed
      BY <2>0, AppendAllType
    <2>1. ASSUME NEW f \in Seq(Entry), NEW g \in Seq(Entry) PROVE f \o g \in Seq(Entry)
      BY ConcatProperties
    <2>2. FlushDeltas(deltas) \in Seq(Entry) /\ <<>> \in Seq(1 .. MaxEvents)
      BY EntriesType, EmptySeq
    <2>a. ASSUME NEW n \in 1 .. MaxEvents, Answered(n) PROVE answers' \in [1 .. MaxEvents -> Nat]
      BY <2>a DEF Answered
    <2>3. CASE TextDelta
      <3>1. Receive("text", Oversized) /\ Receiving
        BY <2>3 DEF TextDelta
      <3>2. /\ received' \in Seq(Event) /\ Len(received') = Len(received) + 1
            /\ Now \in 1 .. MaxEvents /\ Now = Len(received) + 1 /\ Len(received) \in Nat
        BY <3>1, ReceiveEffect
      <3>3. Append(deltas, Now) \in Seq(1 .. MaxEvents)
        BY <3>2, AppendProperties
      <3>4. deltas' \in Seq(1 .. MaxEvents) /\ Typed
        <4>1. CASE deltas' = Append(deltas, Now) /\ UNCHANGED <<timeline, lost, faults>>
          BY <4>1, <3>3
        <4>2. CASE deltas' = <<>> /\ AppendAll(FlushDeltas(Append(deltas, Now)))
          BY <4>2, <3>3, <2>0, <2>2, EntriesType
        <4> QED  BY <4>1, <4>2, <2>3 DEF TextDelta
      <3>5. UNCHANGED <<slots, seen, calls, tokens, live, gpc, backend, answers>>
        BY <2>3 DEF TextDelta, callVars
      <3>6. TypeOK'
        BY <3>2, <3>4, <3>5
      <3>7. Bookkeeping'
        BY <3>2, <3>5
      <3> QED  BY <3>6, <3>7
    <2>4. ASSUME NEW kind \in {"plain", "ready"}, PlainEvent(kind)
          PROVE  (TypeOK /\ Bookkeeping)'
      <3>1. Receive(kind, Oversized) /\ Receiving
        BY <2>4 DEF PlainEvent
      <3>2. /\ received' \in Seq(Event) /\ Len(received') = Len(received) + 1
            /\ Now \in 1 .. MaxEvents /\ Now = Len(received) + 1 /\ Len(received) \in Nat
        BY <3>1, ReceiveEffect
      <3>3. Typed
        <4>1. (IF kind = "ready" THEN <<>> ELSE Recorded("event", Now)) \in Seq(Entry)
          BY <3>2, EntriesType
        <4>2. FlushDeltas(deltas) \o (IF kind = "ready" THEN <<>> ELSE Recorded("event", Now))
                 \in Seq(Entry)
          BY <4>1, <2>1, <2>2
        <4> QED  BY <4>2, <2>0, <2>4 DEF PlainEvent
      <3> QED  BY <2>4, <3>2, <3>3 DEF PlainEvent, callVars
    <2>5. ASSUME NEW id \in {Other, Oversized}, TokenRequest(id)
          PROVE  (TypeOK /\ Bookkeeping)'
      <3>1. Receive("token", id) /\ Receiving
        BY <2>5 DEF TokenRequest
      <3>2. /\ received' \in Seq(Event) /\ Len(received') = Len(received) + 1
            /\ Now \in 1 .. MaxEvents /\ Now = Len(received) + 1 /\ Len(received) \in Nat
        BY <3>1, ReceiveEffect
      <3>3. Typed
        <4>1. FlushDeltas(deltas) \o Recorded("event", Now) \in Seq(Entry)
          BY <3>2, <2>1, <2>2, EntriesType
        <4> QED  BY <4>1, <2>0, <2>5 DEF TokenRequest
      <3>4. answers' \in [1 .. MaxEvents -> Nat]
        BY <2>5, <3>2, <2>a DEF TokenRequest
      <3>5. tokens' \in 0 .. MaxTokens
        BY <2>5 DEF TokenRequest, MayMint
      <3>6. deltas' = <<>> /\ UNCHANGED <<slots, seen, calls, live, gpc, backend>>
        BY <2>5 DEF TokenRequest, callVars
      <3>7. TypeOK'
        BY <2>2, <3>2, <3>3, <3>4, <3>5, <3>6
      <3>8. Bookkeeping'
        BY <3>2, <3>6
      <3> QED  BY <3>7, <3>8
    <2>6. ASSUME NEW kind \in {"call", "foreign"}, NEW id \in Ids \cup {Other, Oversized},
                 kind = "call" => id \in Ids, ToolResultRequest(kind, id)
          PROVE  (TypeOK /\ Bookkeeping)'
      <3>1. Receive(kind, id) /\ Receiving
        BY <2>6 DEF ToolResultRequest
      <3>2. /\ received' \in Seq(Event) /\ Len(received') = Len(received) + 1
            /\ Now \in 1 .. MaxEvents /\ Now = Len(received) + 1 /\ Len(received) \in Nat
        BY <3>1, ReceiveEffect
      <3>3. /\ FlushDeltas(deltas) \o Recorded("event", Now) \in Seq(Entry)
            /\ FlushDeltas(deltas) \o RequestThenAnswer(Now) \in Seq(Entry)
        BY <3>2, <2>1, <2>2, EntriesType
      <3>4. Typed
        BY <3>3, <2>0, <2>6 DEF ToolResultRequest
      <3>5. CASE UNCHANGED <<slots, seen, calls, callVars>>
        <4>1. answers' \in [1 .. MaxEvents -> Nat]
          BY <2>6, <3>5, <3>2, <2>a DEF ToolResultRequest
        <4>2. deltas' = <<>> /\ UNCHANGED <<slots, seen, calls, gpc, backend, tokens, live>>
          BY <2>6, <3>5 DEF ToolResultRequest, callVars
        <4>3. TypeOK'
          BY <2>2, <3>2, <3>4, <4>1, <4>2
        <4>4. Bookkeeping'
          BY <3>2, <4>2
        <4> QED  BY <4>3, <4>4
      <3>6. CASE AdmitMemoryCall(kind, id) /\ slots' = slots + 1 /\ seen' = seen \cup {id}
                   /\ calls' = calls + 1 /\ UNCHANGED <<backend, answers>>
                   /\ gpc' = [n \in DOMAIN gpc \cup {Now} |-> IF n = Now THEN "backend" ELSE gpc[n]]
        <4>1. DOMAIN gpc' = DOMAIN gpc \cup {Now} /\ Now \notin DOMAIN gpc
          BY <3>2, <3>6
        <4>2. Cardinality(DOMAIN gpc') = Cardinality(DOMAIN gpc) + 1
          BY <4>1, GoroutinesFinite, FS_AddElement
        <4>3. slots' \in 0 .. MaxInFlight /\ calls' \in 0 .. MaxCalls /\ seen' \subseteq Ids
          BY <3>6, <2>6 DEF AdmitMemoryCall
        <4>4. \A n \in DOMAIN gpc' : gpc'[n] \in {"backend", "answer", "release"}
          BY <3>6
        <4>5. deltas' = <<>> /\ UNCHANGED <<backend, answers, tokens, live>>
          BY <2>6, <3>6 DEF ToolResultRequest
        <4>6. DOMAIN gpc' \subseteq 1 .. MaxEvents /\ DOMAIN gpc' \subseteq 1 .. Len(received')
          BY <3>2, <4>1
        <4>7. TypeOK'
          BY <2>2, <3>2, <3>4, <4>3, <4>4, <4>5, <4>6
        <4>8. Bookkeeping'
          BY <3>2, <3>6, <4>2, <4>6
        <4> QED  BY <4>7, <4>8
      <3> QED  BY <2>6, <3>5, <3>6 DEF ToolResultRequest
    <2>7. CASE StreamEnds
      <3>1. Typed
        BY <2>7, <2>0, <2>2 DEF StreamEnds
      <3> QED  BY <2>7, <2>2, <3>1 DEF StreamEnds, callVars
    <2>8. ASSUME NEW n \in 1 .. MaxEvents, Fulfil(n) PROVE (TypeOK /\ Bookkeeping)'
      <3>1. DOMAIN gpc' = DOMAIN gpc /\ \A m \in DOMAIN gpc' : gpc'[m] \in {"backend", "answer", "release"}
        BY <2>8 DEF Fulfil, GoroutineAt
      <3> QED  BY <2>8, <3>1 DEF Fulfil, CallBackend, pumpVars
    <2>9. ASSUME NEW n \in 1 .. MaxEvents, SendToolResult(n) PROVE (TypeOK /\ Bookkeeping)'
      <3>1. DOMAIN gpc' = DOMAIN gpc /\ \A m \in DOMAIN gpc' : gpc'[m] \in {"backend", "answer", "release"}
        BY <2>9 DEF SendToolResult, GoroutineAt
      <3>2. Typed
        BY <2>9, <2>0, EntriesType DEF SendToolResult
      <3>3. answers' \in [1 .. MaxEvents -> Nat]
        BY <2>9 DEF SendToolResult, Answered
      <3> QED  BY <2>9, <3>1, <3>2, <3>3 DEF SendToolResult, pumpVars
    <2>10. ASSUME NEW n \in 1 .. MaxEvents, Finish(n) PROVE (TypeOK /\ Bookkeeping)'
      <3>1. DOMAIN gpc' = DOMAIN gpc \ {n} /\ n \in DOMAIN gpc
              /\ \A m \in DOMAIN gpc' : gpc'[m] \in {"backend", "answer", "release"}
        BY <2>10 DEF Finish, GoroutineAt
      <3>2. Cardinality(DOMAIN gpc') = Cardinality(DOMAIN gpc) - 1 /\ Cardinality(DOMAIN gpc') \in Nat
        <4>1. IsFiniteSet(DOMAIN gpc \ {n})
          BY GoroutinesFinite, FS_RemoveElement
        <4> QED  BY <3>1, <4>1, GoroutinesFinite, FS_RemoveElement, FS_CardinalityType
      <3>3. slots' = slots - 1 /\ slots' \in 0 .. MaxInFlight
        BY <2>10, <3>2 DEF Finish, Release
      <3> QED  BY <2>10, <3>1, <3>2, <3>3 DEF Finish
    <2>11. CASE UNCHANGED vars
      BY <2>11 DEF vars, pumpVars, callVars
    <2> QED  BY <2>3, <2>4, <2>5, <2>6, <2>7, <2>8, <2>9, <2>10, <2>11 DEF Next, CallStep
  <1> QED  BY <1>1, <1>2, PTL DEF Spec

\* A slot is in use for each goroutine of a memory call, never more than
\* maxInFlightMemory, whatever the order in which calls are admitted, answered
\* and released.
THEOREM SlotsMatchCalls == Spec => []SlotPerCall
  <1>1. TypeOK /\ Bookkeeping => SlotPerCall
    BY Limits DEF TypeOK, Bookkeeping, SlotPerCall
  <1> QED  BY <1>1, TypeCorrect, PTL

-----------------------------------------------------------------------------
(***************************************************************************)
(* Memory calls: once per id, one answer each                              *)
(***************************************************************************)

\* A goroutine, and whatever it told the backend, is of a memory call whose
\* id has been seen; no two are of the same id.
Admitted ==
    /\ \A n \in DOMAIN gpc \cup backend :
          n \in 1 .. Len(received) /\ received[n].kind = "call" /\ received[n].id \in seen
    /\ \A m, n \in DOMAIN gpc \cup backend : received[m].id = received[n].id => m = n

\* No event is answered before it is received.
Unanswered == \A n \in 1 .. MaxEvents : n > Len(received) => answers[n] = 0

CallInv == Admitted /\ OneAnswer /\ Unanswered

\* The memory calls stay in order on every step: an event is handled with the
\* goroutines and the answers of earlier events as they are.
LEMMA CallInvStep ==
    ASSUME TypeOK, Bookkeeping, CallInv, [Next]_vars
    PROVE  CallInv'
  <1> USE Limits
  <1> USE DEF CallInv
  <1> DEFINE Request(kind, id) == kind \in {"call", "foreign", "token"} /\ id # Oversized
  <1>1. /\ received \in Seq(Event) /\ Len(received) \in Nat
        /\ answers \in [1 .. MaxEvents -> Nat]
        /\ DOMAIN gpc \subseteq 1 .. Len(received)
        /\ Len(received) <= MaxEvents
    BY LenProperties DEF Event, Kinds, TypeOK, Bookkeeping
  <1>2. ASSUME NEW kind \in Kinds, NEW id \in Ids \cup {Other, Oversized},
               Receiving, Receive(kind, id), UNCHANGED <<gpc, backend, seen>>,
               IF Request(kind, id) THEN Answered(Now) ELSE UNCHANGED answers
        PROVE  CallInv'
    <2>1. /\ Now = Len(received) + 1 /\ Len(received') = Now /\ Now \in 1 .. MaxEvents
          /\ received'[Now] = [kind |-> kind, id |-> id]
          /\ \A n \in 1 .. Len(received) : received'[n] = received[n]
      BY <1>1, <1>2, ReceiveEffect
    <2>2. Admitted'
      <3>1. \A n \in DOMAIN gpc \cup backend : n \in 1 .. Len(received)
        BY DEF Admitted
      <3>2. \A n \in DOMAIN gpc \cup backend : n \in 1 .. Len(received') /\ received'[n] = received[n]
        BY <1>1, <2>1, <3>1
      <3> QED  BY <1>2, <3>2 DEF Admitted
    <2>3. /\ answers'[Now] = IF Request(kind, id) THEN 1 ELSE 0
          /\ \A n \in 1 .. MaxEvents : n # Now => answers'[n] = answers[n]
      BY <1>1, <1>2, <2>1 DEF Answered, Unanswered
    <2>4. OneAnswer'
      BY <1>1, <1>2, <2>1, <2>3 DEF OneAnswer, GoroutineAt
    <2>5. Unanswered'
      BY <1>1, <2>1, <2>3 DEF Unanswered
    <2> QED  BY <2>2, <2>4, <2>5
  <1>3. CASE TextDelta
    BY <1>2, <1>3 DEF TextDelta, callVars, Kinds
  <1>4. ASSUME NEW kind \in {"plain", "ready"}, PlainEvent(kind) PROVE CallInv'
    BY <1>2, <1>4 DEF PlainEvent, callVars, Kinds
  <1>5. ASSUME NEW id \in {Other, Oversized}, TokenRequest(id) PROVE CallInv'
    BY <1>2, <1>5 DEF TokenRequest, callVars, Kinds
  <1>6. ASSUME NEW kind \in {"call", "foreign"}, NEW id \in Ids \cup {Other, Oversized},
               kind = "call" => id \in Ids, ToolResultRequest(kind, id)
        PROVE  CallInv'
    <2>1. Receiving /\ Receive(kind, id) /\ kind \in Kinds
      BY <1>6 DEF ToolResultRequest, Kinds
    <2>2. CASE id = Oversized /\ UNCHANGED <<seen, callVars, answers>>
      BY <1>2, <2>1, <2>2 DEF callVars
    <2>3. CASE id # Oversized /\ Answered(Now) /\ UNCHANGED <<seen, callVars>>
      BY <1>2, <2>1, <2>3 DEF callVars
    <2>4. CASE AdmitMemoryCall(kind, id) /\ seen' = seen \cup {id} /\ UNCHANGED <<backend, answers>>
                 /\ gpc' = [n \in DOMAIN gpc \cup {Now} |-> IF n = Now THEN "backend" ELSE gpc[n]]
      <3>1. /\ Now = Len(received) + 1 /\ Len(received') = Now /\ Now \in 1 .. MaxEvents
            /\ received'[Now] = [kind |-> "call", id |-> id]
            /\ \A n \in 1 .. Len(received) : received'[n] = received[n]
        BY <1>1, <2>1, <2>4, ReceiveEffect DEF AdmitMemoryCall
      <3>2. id \notin seen /\ id \in Ids
        BY <1>6, <2>4 DEF AdmitMemoryCall
      <3>3. Now \notin DOMAIN gpc \cup backend
        BY <1>1, <3>1 DEF Admitted
      <3>4. Admitted'
        <4>1. DOMAIN gpc' \cup backend' = (DOMAIN gpc \cup backend) \cup {Now}
          BY <2>4
        <4>2. \A n \in DOMAIN gpc \cup backend :
                 /\ n \in 1 .. Len(received) /\ n # Now
                 /\ received[n].kind = "call" /\ received[n].id \in seen
          BY <3>3 DEF Admitted
        <4>3. \A n \in DOMAIN gpc \cup backend :
                 n \in 1 .. Len(received') /\ received'[n] = received[n]
          BY <1>1, <3>1, <4>2
        <4>4. Now \in 1 .. Len(received') /\ received'[Now].kind = "call" /\ received'[Now].id = id
          BY <1>1, <3>1
        <4>5. \A n \in DOMAIN gpc' \cup backend' :
                 n \in 1 .. Len(received') /\ received'[n].kind = "call" /\ received'[n].id \in seen'
          BY <2>4, <4>1, <4>2, <4>3, <4>4
        <4>6. \A m, n \in DOMAIN gpc \cup backend : received[m].id = received[n].id => m = n
          BY DEF Admitted
        <4>7. \A m, n \in DOMAIN gpc' \cup backend' : received'[m].id = received'[n].id => m = n
          BY <3>2, <4>1, <4>2, <4>3, <4>4, <4>6
        <4> QED  BY <4>5, <4>7 DEF Admitted
      <3>5. /\ Now \in DOMAIN gpc' /\ gpc'[Now] = "backend"
            /\ \A n \in 1 .. Len(received), site \in {"backend", "answer"} :
                  GoroutineAt(n, site)' <=> GoroutineAt(n, site)
        <4>1. \A n \in 1 .. Len(received) : n # Now
          BY <1>1, <3>1
        <4>2. /\ DOMAIN gpc' = DOMAIN gpc \cup {Now} /\ gpc'[Now] = "backend"
              /\ \A n \in DOMAIN gpc : n # Now => gpc'[n] = gpc[n]
          BY <2>4
        <4> QED  BY <4>1, <4>2 DEF GoroutineAt
      <3>6. answers[Now] = 0
        BY <1>1, <3>1 DEF Unanswered
      <3>7. OneAnswer'
        <4>1. \A n \in 1 .. Len(received') : n = Now \/ n \in 1 .. Len(received)
          BY <1>1, <3>1
        <4>2. ASSUME NEW n \in 1 .. Len(received)
              PROVE  received'[n] = received[n] /\ answers'[n] = answers[n]
                       /\ \A site \in {"backend", "answer"} :
                             (n \in DOMAIN gpc' /\ gpc'[n] = site) <=> GoroutineAt(n, site)
          BY <2>4, <3>1, <3>5 DEF GoroutineAt
        <4> DEFINE Due(rec, g, n) ==
                     IF (rec[n].kind \in {"call", "foreign", "token"} /\ rec[n].id # Oversized)
                          /\ ~(n \in DOMAIN g /\ g[n] \in {"backend", "answer"})
                     THEN 1 ELSE 0
        <4>3. ASSUME NEW n \in 1 .. Len(received') PROVE answers'[n] = Due(received', gpc', n)
          <5>1. CASE n = Now
            BY <2>4, <3>5, <3>6, <5>1
          <5>2. CASE n \in 1 .. Len(received)
            <6>1. answers[n] = Due(received, gpc, n)
              BY <5>2 DEF OneAnswer, GoroutineAt
            <6> QED  BY <4>2, <5>2, <6>1 DEF GoroutineAt
          <5> QED  BY <4>1, <5>1, <5>2
        <4> QED  BY <4>3 DEF OneAnswer, GoroutineAt
      <3>8. Unanswered'
        BY <1>1, <2>4, <3>1 DEF Unanswered
      <3> QED  BY <3>4, <3>7, <3>8
    <2> QED  BY <1>6, <2>2, <2>3, <2>4 DEF ToolResultRequest
  <1>7. CASE StreamEnds
    BY <1>1, <1>7 DEF StreamEnds, callVars, Admitted, OneAnswer, Unanswered, GoroutineAt
  <1>8. ASSUME NEW n \in 1 .. MaxEvents, Fulfil(n) PROVE CallInv'
    <2>1. n \in DOMAIN gpc /\ DOMAIN gpc' = DOMAIN gpc /\ n \in 1 .. Len(received)
      BY <1>1, <1>8 DEF Fulfil, GoroutineAt
    <2>2. Admitted'
      BY <1>8, <2>1 DEF Fulfil, CallBackend, Admitted, pumpVars
    <2>3. \A m \in 1 .. Len(received) :
             (GoroutineAt(m, "backend") \/ GoroutineAt(m, "answer"))' <=>
                GoroutineAt(m, "backend") \/ GoroutineAt(m, "answer")
      BY <1>8, <2>1 DEF Fulfil, GoroutineAt
    <2>4. UNCHANGED <<received, answers>>
      BY <1>8 DEF Fulfil, pumpVars
    <2> QED  BY <1>1, <2>2, <2>3, <2>4 DEF OneAnswer, Unanswered
  <1>9. ASSUME NEW n \in 1 .. MaxEvents, SendToolResult(n) PROVE CallInv'
    <2>1. n \in DOMAIN gpc /\ gpc[n] = "answer" /\ DOMAIN gpc' = DOMAIN gpc /\ n \in 1 .. Len(received)
      BY <1>1, <1>9 DEF SendToolResult, GoroutineAt
    <2>2. UNCHANGED <<received, backend, seen>>
      BY <1>9 DEF SendToolResult, pumpVars
    <2>3. Admitted'
      BY <2>1, <2>2 DEF Admitted
    <2>4. received[n].kind = "call" /\ received[n].id \in Ids /\ received[n].id # Oversized
      BY <2>1, PumpAssumption DEF Admitted, TypeOK
    <2>5. answers[n] = 0 /\ answers' = [answers EXCEPT ![n] = 1]
      <3>1. answers[n] = 0
        BY <2>1, <2>4 DEF OneAnswer, GoroutineAt
      <3> QED  BY <1>1, <1>9, <3>1 DEF SendToolResult, Answered
    <2>6. /\ ~GoroutineAt(n, "backend")' /\ ~GoroutineAt(n, "answer")'
          /\ \A m \in 1 .. Len(received), site \in {"backend", "answer"} :
                m # n => (GoroutineAt(m, site)' <=> GoroutineAt(m, site))
      BY <1>9, <2>1 DEF SendToolResult, GoroutineAt
    <2>7. OneAnswer'
      BY <1>1, <2>1, <2>2, <2>4, <2>5, <2>6 DEF OneAnswer
    <2>8. Unanswered'
      BY <1>1, <2>1, <2>2, <2>5 DEF Unanswered
    <2> QED  BY <2>3, <2>7, <2>8
  <1>10. ASSUME NEW n \in 1 .. MaxEvents, Finish(n) PROVE CallInv'
    <2>1. /\ n \in DOMAIN gpc /\ gpc[n] = "release" /\ DOMAIN gpc' = DOMAIN gpc \ {n}
          /\ \A m \in DOMAIN gpc' : gpc'[m] = gpc[m]
          /\ UNCHANGED <<received, backend, seen, answers>>
      BY <1>10 DEF Finish, GoroutineAt
    <2>2. Admitted'
      BY <2>1 DEF Admitted
    <2>3. \A m \in 1 .. Len(received), site \in {"backend", "answer"} :
             GoroutineAt(m, site)' <=> GoroutineAt(m, site)
      BY <2>1 DEF GoroutineAt
    <2> QED  BY <1>1, <2>1, <2>2, <2>3 DEF OneAnswer, Unanswered
  <1>11. CASE UNCHANGED vars
    BY <1>11 DEF vars, pumpVars, callVars, Admitted, OneAnswer, Unanswered, GoroutineAt
  <1> QED  BY <1>3, <1>4, <1>5, <1>6, <1>7, <1>8, <1>9, <1>10, <1>11 DEF Next, CallStep

\* The invariant holds from the first event on.
LEMMA CallInvHolds == Spec => []CallInv
  <1>1. Init => CallInv
    BY Limits DEF Init, CallInv, Admitted, OneAnswer, Unanswered
  <1>2. TypeOK /\ Bookkeeping /\ CallInv /\ [Next]_vars => CallInv'
    BY CallInvStep
  <1> QED  BY <1>1, <1>2, TypeCorrect, PTL DEF Spec

\* Every request of the harness is answered exactly once, by the pump or by the
\* goroutine it was handed to, also when the stream has ended meanwhile
\* (handleToolResultRequest, runMemoryCall, sendToolResult).
THEOREM AnsweredOnce == Spec => []OneAnswer
  BY CallInvHolds, PTL DEF CallInv

\* The memory backend is called at most once for a request id, however often
\* the harness repeats the request and however long the first call takes
\* (admitMemoryCall).
THEOREM BackendCalledOnce == Spec => []OncePerId
  <1>1. CallInv => OncePerId
    BY DEF CallInv, Admitted, OncePerId
  <1> QED  BY <1>1, CallInvHolds, PTL

-----------------------------------------------------------------------------
(***************************************************************************)
(* The timeline                                                            *)
(***************************************************************************)

\* Appending one entry.
LEMMA OneMore ==
    ASSUME NEW tl \in Seq(Entry), NEW e \in Entry
    PROVE  /\ tl \o <<e>> \in Seq(Entry)
           /\ Len(tl) \in Nat /\ Len(tl \o <<e>>) = Len(tl) + 1
           /\ (tl \o <<e>>)[Len(tl) + 1] = e
           /\ \A i \in 1 .. Len(tl) : (tl \o <<e>>)[i] = tl[i]
           /\ \A n : OnRecord(n, tl \o <<e>>) <=>
                    OnRecord(n, tl) \/ (e.kind = "event" /\ n \in Numbers(e.evs))
  <1> DEFINE u == tl \o <<e>>
  <1>1. /\ u \in Seq(Entry) /\ Len(tl) \in Nat /\ Len(u) = Len(tl) + 1
        /\ u[Len(tl) + 1] = e /\ \A i \in 1 .. Len(tl) : u[i] = tl[i]
    BY LenProperties, AppendProperties, AppendIsConcat
  <1>2. DOMAIN u = 1 .. Len(tl) + 1 /\ DOMAIN tl = 1 .. Len(tl)
    BY <1>1, LenProperties
  <1>3. \A n : OnRecord(n, u) <=> OnRecord(n, tl) \/ (e.kind = "event" /\ n \in Numbers(e.evs))
    <2> HIDE DEF u
    <2>1. DOMAIN u = DOMAIN tl \cup {Len(tl) + 1}
      BY <1>1, <1>2
    <2> QED  BY <1>1, <1>2, <2>1 DEF OnRecord
  <1> QED  BY <1>1, <1>3

\* The numbers of an entry are event numbers.
LEMMA NumbersType ==
    ASSUME NEW evs \in Seq(1 .. MaxEvents)
    PROVE  Numbers(evs) \subseteq 1 .. MaxEvents
  BY ElementOfSeq, LenProperties DEF Numbers

\* An answer can be added to the timeline behind its request.
LEMMA AnswerFollows ==
    ASSUME NEW tl \in Seq(Entry), NEW buffer, NEW gone, NEW rec, NEW n \in 1 .. MaxEvents,
           Follows(tl, buffer, gone, rec),
           LET request == [kind |-> "event", evs |-> <<n>>]
           IN  request \in gone \/ \E h \in DOMAIN tl : tl[h] = request
    PROVE  Follows(tl \o Recorded("answer", n), buffer, gone, rec)
  <1> DEFINE e == [kind |-> "answer", evs |-> <<n>>]
             u == tl \o <<e>>
  <1>1. e \in Entry
    <2>1. <<n>> \in Seq(1 .. MaxEvents)
      OBVIOUS
    <2> QED  BY <2>1 DEF Entry
  <1> HIDE DEF e
  <1>2. /\ u \in Seq(Entry) /\ Len(tl) \in Nat /\ Len(u) = Len(tl) + 1 /\ u[Len(tl) + 1] = e
        /\ \A i \in 1 .. Len(tl) : u[i] = tl[i]
        /\ \A m : OnRecord(m, u) <=> OnRecord(m, tl) \/ (e.kind = "event" /\ m \in Numbers(e.evs))
    BY <1>1, OneMore
  <1> HIDE DEF u
  <1>3. DOMAIN tl = 1 .. Len(tl) /\ DOMAIN u = 1 .. Len(tl) + 1
    BY <1>2, LenProperties
  <1>4. e.kind = "answer" /\ e.evs = <<n>> /\ Ascends(e.evs)
    BY DEF e, Ascends
  <1>5. \A m : OnRecord(m, u) <=> OnRecord(m, tl)
    BY <1>2, <1>4
  <1>6. \A i \in DOMAIN u : i = Len(tl) + 1 \/ (i \in DOMAIN tl /\ i \in 1 .. Len(tl))
    BY <1>2, <1>3
  <1>7. Ordered(u)
    BY <1>2, <1>4, <1>6 DEF Follows, Ordered
  <1>8. Backed(u, gone)
    <2> SUFFICES ASSUME NEW i \in DOMAIN u, u[i].kind = "answer", RequestOf(u[i]) \notin gone
                 PROVE  \E h \in 1 .. i - 1 : u[h] = RequestOf(u[i])
      BY DEF Backed
    <2>1. CASE i = Len(tl) + 1
      <3>1. RequestOf(u[i]) = [kind |-> "event", evs |-> <<n>>]
        BY <1>2, <1>4, <2>1 DEF RequestOf
      <3>2. PICK h \in DOMAIN tl : tl[h] = RequestOf(u[i])
        BY <3>1
      <3> QED  BY <1>2, <1>3, <2>1, <3>2
    <2>2. CASE i \in 1 .. Len(tl)
      <3>1. u[i] = tl[i] /\ i \in DOMAIN tl
        BY <1>2, <1>3, <2>2
      <3>2. PICK h \in 1 .. i - 1 : tl[h] = RequestOf(tl[i])
        BY <3>1 DEF Follows, Backed
      <3> QED  BY <1>2, <2>2, <3>1, <3>2
    <2> QED  BY <1>6, <2>1, <2>2
  <1>9. Follows(u, buffer, gone, rec)
    BY <1>5, <1>7, <1>8 DEF Follows
  <1> QED  BY <1>9 DEF u, e, Recorded

\* An entry of later events keeps the timeline in order.
LEMMA EventEntry ==
    ASSUME NEW tl \in Seq(Entry), NEW gone, NEW evs \in Seq(1 .. MaxEvents),
           Ordered(tl), Backed(tl, gone), Ascends(evs),
           \A m \in 1 .. MaxEvents, n \in Numbers(evs) : OnRecord(m, tl) => m < n
    PROVE  LET u == tl \o <<[kind |-> "event", evs |-> evs]>>
           IN  /\ u \in Seq(Entry) /\ Ordered(u) /\ Backed(u, gone)
               /\ \A n : OnRecord(n, u) <=> OnRecord(n, tl) \/ n \in Numbers(evs)
  <1> DEFINE e == [kind |-> "event", evs |-> evs]
             u == tl \o <<e>>
  <1>1. e \in Entry /\ e.kind = "event" /\ e.evs = evs
    BY DEF Entry
  <1> HIDE DEF e
  <1>2. /\ u \in Seq(Entry) /\ Len(tl) \in Nat /\ Len(u) = Len(tl) + 1 /\ u[Len(tl) + 1] = e
        /\ \A i \in 1 .. Len(tl) : u[i] = tl[i]
        /\ \A m : OnRecord(m, u) <=> OnRecord(m, tl) \/ (e.kind = "event" /\ m \in Numbers(e.evs))
    BY <1>1, OneMore
  <1> HIDE DEF u
  <1>3. DOMAIN tl = 1 .. Len(tl) /\ DOMAIN u = 1 .. Len(tl) + 1
    BY <1>2, LenProperties
  <1>4. \A i \in DOMAIN u : i = Len(tl) + 1 \/ (i \in DOMAIN tl /\ i \in 1 .. Len(tl))
    BY <1>2, <1>3
  <1>5. Ordered(u)
    <2>1. \A i \in DOMAIN u : Ascends(u[i].evs)
      BY <1>1, <1>2, <1>4 DEF Ordered
    <2>2. ASSUME NEW h \in DOMAIN u, NEW i \in DOMAIN u,
                 h < i, u[h].kind = "event", u[i].kind = "event",
                 NEW m \in Numbers(u[h].evs), NEW n \in Numbers(u[i].evs)
          PROVE  m < n
      <3>1. h \in DOMAIN tl /\ u[h] = tl[h]
        BY <1>2, <1>3, <1>4, <2>2
      <3>2. CASE i \in DOMAIN tl
        BY <1>2, <1>3, <2>2, <3>1, <3>2 DEF Ordered
      <3>3. CASE i = Len(tl) + 1
        <4>1. tl[h] \in Entry
          BY <3>1, <1>3, ElementOfSeq
        <4>2. m \in 1 .. MaxEvents
          BY <4>1, <3>1, <2>2, NumbersType DEF Entry
        <4>3. OnRecord(m, tl)
          BY <2>2, <3>1 DEF OnRecord
        <4> QED  BY <1>1, <1>2, <2>2, <3>3, <4>2, <4>3
      <3> QED  BY <1>4, <3>2, <3>3
    <2> QED  BY <2>1, <2>2 DEF Ordered
  <1>6. Backed(u, gone)
    <2> SUFFICES ASSUME NEW i \in DOMAIN u, u[i].kind = "answer", RequestOf(u[i]) \notin gone
                 PROVE  \E h \in 1 .. i - 1 : u[h] = RequestOf(u[i])
      BY DEF Backed
    <2>1. u[i] = tl[i] /\ i \in DOMAIN tl
      BY <1>1, <1>2, <1>4
    <2>2. PICK h \in 1 .. i - 1 : tl[h] = RequestOf(tl[i])
      BY <2>1 DEF Backed
    <2> QED  BY <1>2, <1>3, <2>1, <2>2
  <1> QED  BY <1>1, <1>2, <1>5, <1>6 DEF u, e

\* flushDeltas moves the buffer to the timeline.
LEMMA FlushFollows ==
    ASSUME NEW tl \in Seq(Entry), NEW buffer \in Seq(1 .. MaxEvents), NEW gone, NEW rec,
           Follows(tl, buffer, gone, rec)
    PROVE  /\ tl \o FlushDeltas(buffer) \in Seq(Entry)
           /\ Follows(tl \o FlushDeltas(buffer), <<>>, gone, rec)
  <1>1. Numbers(<<>>) = {} /\ Ascends(<<>>)
    BY DEF Numbers, Ascends
  <1>2. CASE buffer = <<>>
    BY <1>2, ConcatEmptySeq DEF FlushDeltas
  <1>3. CASE buffer # <<>>
    <2> DEFINE u == tl \o <<[kind |-> "event", evs |-> buffer]>>
    <2>1. /\ u \in Seq(Entry) /\ Ordered(u) /\ Backed(u, gone)
          /\ \A n : OnRecord(n, u) <=> OnRecord(n, tl) \/ n \in Numbers(buffer)
      BY EventEntry DEF Follows
    <2>2. u = tl \o FlushDeltas(buffer)
      BY <1>3 DEF FlushDeltas
    <2> HIDE DEF u
    <2>3. Follows(u, <<>>, gone, rec)
      BY <1>1, <2>1 DEF Follows
    <2> QED  BY <2>1, <2>2, <2>3
  <1> QED  BY <1>2, <1>3

\* The stream rec goes on with an event of kind kind.
Continues(rec2, rec, kind) ==
    /\ Len(rec) \in Nat /\ Len(rec2) = Len(rec) + 1 /\ rec2[Len(rec) + 1].kind = kind
    /\ \A n \in 1 .. Len(rec) : rec2[n] = rec[n]

\* A second ready is received and not recorded.
LEMMA ReadyFollows ==
    ASSUME NEW tl, NEW buffer, NEW gone, NEW rec, NEW rec2,
           Follows(tl, buffer, gone, rec), Continues(rec2, rec, "ready")
    PROVE  Follows(tl, buffer, gone, rec2)
  <1>1. ASSUME NEW n \in 1 .. MaxEvents
        PROVE  (n <= Len(rec2) /\ rec2[n].kind # "ready") <=> (n <= Len(rec) /\ rec[n].kind # "ready")
    BY Limits DEF Continues
  <1>2. \A n \in 1 .. MaxEvents : n <= Len(rec) => n <= Len(rec2)
    BY Limits DEF Continues
  <1> QED  BY <1>1, <1>2 DEF Follows

\* The next event is recorded in an entry of its own.
LEMMA EventFollows ==
    ASSUME NEW tl \in Seq(Entry), NEW gone, NEW rec, NEW rec2,
           Follows(tl, <<>>, gone, rec), NEW kind, kind # "ready", Continues(rec2, rec, kind),
           NEW n \in 1 .. MaxEvents, n = Len(rec) + 1
    PROVE  /\ tl \o Recorded("event", n) \in Seq(Entry)
           /\ Follows(tl \o Recorded("event", n), <<>>, gone, rec2)
  <1> DEFINE u == tl \o <<[kind |-> "event", evs |-> <<n>>]>>
  <1>1. <<n>> \in Seq(1 .. MaxEvents) /\ Numbers(<<n>>) = {n} /\ Ascends(<<n>>)
    BY DEF Numbers, Ascends
  <1>2. Numbers(<<>>) = {} /\ Ascends(<<>>)
    BY DEF Numbers, Ascends
  <1>3. \A m \in 1 .. MaxEvents : OnRecord(m, tl) => m < n
    BY <1>2, Limits DEF Follows, Continues
  <1>4. /\ u \in Seq(Entry) /\ Ordered(u) /\ Backed(u, gone)
        /\ \A m : OnRecord(m, u) <=> OnRecord(m, tl) \/ m \in Numbers(<<n>>)
    <2>1. \A m \in 1 .. MaxEvents, k \in Numbers(<<n>>) : OnRecord(m, tl) => m < k
      BY <1>1, <1>3
    <2>2. Ordered(tl) /\ Backed(tl, gone)
      BY DEF Follows
    <2> HIDE DEF u
    <2>3. \A evs \in Seq(1 .. MaxEvents) :
             Ascends(evs) /\ (\A m \in 1 .. MaxEvents, k \in Numbers(evs) : OnRecord(m, tl) => m < k) =>
                LET v == tl \o <<[kind |-> "event", evs |-> evs]>>
                IN  /\ v \in Seq(Entry) /\ Ordered(v) /\ Backed(v, gone)
                    /\ \A m : OnRecord(m, v) <=> OnRecord(m, tl) \/ m \in Numbers(evs)
      BY <2>2, EventEntry
    <2> QED  BY <1>1, <2>1, <2>3 DEF u
  <1>5. u = tl \o Recorded("event", n)
    BY DEF Recorded
  <1> HIDE DEF u
  <1>6. ~Lost(n, gone)
    BY Limits DEF Follows, Continues
  <1>7. ASSUME NEW m \in 1 .. MaxEvents
        PROVE  /\ Lost(m, gone) => m <= Len(rec2)
               /\ OnRecord(m, u) <=> m <= Len(rec2) /\ rec2[m].kind # "ready" /\ ~Lost(m, gone)
    <2>1. CASE m = n
      BY <1>1, <1>4, <1>6, <2>1, Limits DEF Continues
    <2>2. CASE m # n
      <3>1. OnRecord(m, u) <=> OnRecord(m, tl)
        BY <1>1, <1>4, <2>2
      <3>2. m <= Len(rec2) <=> m <= Len(rec)
        BY <2>2, Limits DEF Continues
      <3>3. m <= Len(rec) => rec2[m] = rec[m]
        BY Limits DEF Continues
      <3> QED  BY <1>2, <3>1, <3>2, <3>3 DEF Follows
    <2> QED  BY <2>1, <2>2
  <1>8. Follows(u, <<>>, gone, rec2)
    BY <1>2, <1>4, <1>7 DEF Follows
  <1> QED  BY <1>4, <1>5, <1>8

\* A text is buffered behind everything else.
LEMMA TextFollows ==
    ASSUME NEW tl \in Seq(Entry), NEW buffer \in Seq(1 .. MaxEvents), NEW gone, NEW rec, NEW rec2,
           Follows(tl, buffer, gone, rec), Continues(rec2, rec, "text"),
           NEW n \in 1 .. MaxEvents, n = Len(rec) + 1
    PROVE  Follows(tl, Append(buffer, n), gone, rec2)
  <1> DEFINE b == Append(buffer, n)
  <1>1. /\ b \in Seq(1 .. MaxEvents) /\ Len(buffer) \in Nat /\ Len(b) = Len(buffer) + 1
        /\ b[Len(buffer) + 1] = n /\ \A k \in 1 .. Len(buffer) : b[k] = buffer[k]
    BY AppendProperties, LenProperties
  <1> HIDE DEF b
  <1>2. DOMAIN b = 1 .. Len(buffer) + 1 /\ DOMAIN buffer = 1 .. Len(buffer)
    BY <1>1, LenProperties
  <1>3. \A k \in DOMAIN b : k = Len(buffer) + 1 \/ (k \in DOMAIN buffer /\ b[k] = buffer[k])
    BY <1>1, <1>2
  <1>4. Numbers(b) = Numbers(buffer) \cup {n}
    BY <1>1, <1>2, <1>3 DEF Numbers
  <1>5. \A m \in 1 .. MaxEvents : OnRecord(m, tl) \/ m \in Numbers(buffer) => m < n
    BY Limits DEF Follows, Continues
  <1>6. \A k \in DOMAIN buffer : buffer[k] < n
    <2>1. Numbers(buffer) \subseteq 1 .. MaxEvents
      BY NumbersType
    <2> QED  BY <1>5, <2>1 DEF Numbers
  <1>7. Ascends(b)
    <2> SUFFICES ASSUME NEW k \in DOMAIN b, NEW l \in DOMAIN b, k < l PROVE b[k] < b[l]
      BY DEF Ascends
    <2>1. k \in DOMAIN buffer /\ b[k] = buffer[k]
      BY <1>1, <1>2, <1>3
    <2>2. CASE l = Len(buffer) + 1
      BY <1>1, <1>6, <2>1, <2>2
    <2>3. CASE l \in DOMAIN buffer /\ b[l] = buffer[l]
      BY <2>1, <2>3 DEF Follows, Ascends
    <2> QED  BY <1>3, <2>2, <2>3
  <1>8. ~Lost(n, gone)
    BY Limits DEF Follows, Continues
  <1>9. ASSUME NEW m \in 1 .. MaxEvents
        PROVE  /\ Lost(m, gone) => m <= Len(rec2)
               /\ OnRecord(m, tl) \/ m \in Numbers(b) <=>
                     m <= Len(rec2) /\ rec2[m].kind # "ready" /\ ~Lost(m, gone)
    <2>1. CASE m = n
      BY <1>4, <1>8, <2>1, Limits DEF Continues
    <2>2. CASE m # n
      <3>1. m \in Numbers(b) <=> m \in Numbers(buffer)
        BY <1>4, <2>2
      <3>2. m <= Len(rec2) <=> m <= Len(rec)
        BY <2>2, Limits DEF Continues
      <3>3. m <= Len(rec) => rec2[m] = rec[m]
        BY Limits DEF Continues
      <3> QED  BY <3>1, <3>2, <3>3 DEF Follows
    <2> QED  BY <2>1, <2>2
  <1>10. \A m \in 1 .. MaxEvents, k \in Numbers(b) : OnRecord(m, tl) => m < k
    BY <1>4, <1>5 DEF Follows
  <1>11. Follows(tl, b, gone, rec2)
    BY <1>7, <1>9, <1>10 DEF Follows
  <1> QED  BY <1>11 DEF b

\* Losing an entry loses its events and nothing else; an answer whose request
\* is lost is still accounted for.
LEMMA LossFollows ==
    ASSUME NEW full \in Seq(Entry), NEW t \in Seq(Entry), NEW j \in 1 .. Len(full),
           Without(t, full, j),
           NEW buffer, NEW gone, NEW rec, Follows(full, buffer, gone, rec)
    PROVE  Follows(t, buffer, gone \cup {full[j]}, rec)
  <1> DEFINE lost2 == gone \cup {full[j]}
             From(h) == IF h < j THEN h ELSE h + 1
  <1>1. /\ Len(full) \in Nat /\ DOMAIN full = 1 .. Len(full) /\ Len(t) = Len(full) - 1
        /\ DOMAIN t = 1 .. Len(t)
        /\ \A h \in DOMAIN t : t[h] = full[From(h)] /\ From(h) \in DOMAIN full /\ From(h) # j
        /\ \A h, i \in DOMAIN t : h < i => From(h) < From(i)
    BY LenProperties DEF Without
  <1>2. \A i \in DOMAIN full : i # j => \E h \in DOMAIN t : From(h) = i
    <2> SUFFICES ASSUME NEW i \in DOMAIN full, i # j PROVE \E h \in DOMAIN t : From(h) = i
      OBVIOUS
    <2>1. CASE i < j
      BY <1>1, <2>1
    <2>2. CASE i > j
      <3>1. i - 1 \in DOMAIN t /\ From(i - 1) = i
        BY <1>1, <2>2
      <3> QED  BY <3>1
    <2> QED  BY <1>1, <2>1, <2>2
  <1> HIDE DEF From
  <1>3. Ordered(t)
    BY <1>1 DEF Follows, Ordered
  <1>4. Backed(t, lost2)
    <2> SUFFICES ASSUME NEW i \in DOMAIN t, t[i].kind = "answer", RequestOf(t[i]) \notin lost2
                 PROVE  \E h \in 1 .. i - 1 : t[h] = RequestOf(t[i])
      BY DEF Backed
    <2>1. t[i] = full[From(i)] /\ From(i) \in DOMAIN full
      BY <1>1
    <2>2. PICK k \in 1 .. From(i) - 1 : full[k] = RequestOf(t[i])
      BY <2>1 DEF Follows, Backed
    <2>3. k \in DOMAIN full /\ k # j /\ k < From(i)
      BY <1>1, <2>1, <2>2
    <2>4. PICK h \in DOMAIN t : From(h) = k
      BY <1>2, <2>3
    <2>5. h < i
      BY <1>1, <2>3, <2>4
    <2> QED  BY <1>1, <2>2, <2>4, <2>5
  <1>5. \A n : OnRecord(n, t) => OnRecord(n, full)
    BY <1>1 DEF OnRecord
  <1>6. \A n : OnRecord(n, full) => OnRecord(n, t) \/ (full[j].kind = "event" /\ n \in Numbers(full[j].evs))
    <2> SUFFICES ASSUME NEW n, NEW i \in DOMAIN full, full[i].kind = "event",
                        n \in Numbers(full[i].evs), i # j
                 PROVE  OnRecord(n, t)
      BY DEF OnRecord
    <2>1. PICK h \in DOMAIN t : From(h) = i
      BY <1>2
    <2> QED  BY <1>1, <2>1 DEF OnRecord
  <1>7. ASSUME NEW n \in 1 .. MaxEvents, full[j].kind = "event", n \in Numbers(full[j].evs)
        PROVE  ~OnRecord(n, t) /\ n \notin Numbers(buffer) /\ n <= Len(rec)
    <2>1. OnRecord(n, full)
      BY <1>1, <1>7 DEF OnRecord
    <2>2. ~OnRecord(n, t)
      <3> SUFFICES ASSUME NEW h \in DOMAIN t, t[h].kind = "event", n \in Numbers(t[h].evs) PROVE FALSE
        BY DEF OnRecord
      <3>1. t[h] = full[From(h)] /\ From(h) \in DOMAIN full /\ From(h) # j
        BY <1>1
      <3>2. From(h) < j \/ j < From(h)
        BY <1>1, <3>1
      <3>3. n < n
        BY <1>1, <1>7, <3>1, <3>2 DEF Follows, Ordered
      <3> QED  BY <3>3
    <2>3. n \notin Numbers(buffer)
      BY <2>1 DEF Follows
    <2> QED  BY <2>1, <2>2, <2>3 DEF Follows
  <1>8. \A n : Lost(n, lost2) <=> Lost(n, gone) \/ (full[j].kind = "event" /\ n \in Numbers(full[j].evs))
    BY DEF Lost
  <1>9. ASSUME NEW n \in 1 .. MaxEvents
        PROVE  /\ Lost(n, lost2) => n <= Len(rec)
               /\ OnRecord(n, t) \/ n \in Numbers(buffer) <=>
                     n <= Len(rec) /\ rec[n].kind # "ready" /\ ~Lost(n, lost2)
    BY <1>5, <1>6, <1>7, <1>8 DEF Follows
  <1>10. \A m \in 1 .. MaxEvents, n \in Numbers(buffer) : OnRecord(m, t) => m < n
    BY <1>5 DEF Follows
  <1> QED  BY <1>3, <1>4, <1>9, <1>10 DEF Follows

\* The request n is in the timeline, or was lost.
Filed(n, tl, gone) ==
    LET request == [kind |-> "event", evs |-> <<n>>]
    IN  request \in gone \/ \E h \in DOMAIN tl : tl[h] = request

\* What holds of the timeline with everything appended, holds of the one that
\* AppendAll leaves.
LEMMA AppendFollows ==
    ASSUME timeline \in Seq(Entry), NEW entries \in Seq(Entry), AppendAll(entries)
    PROVE  /\ \A buffer, rec : Follows(timeline \o entries, buffer, lost, rec) =>
                               Follows(timeline', buffer, lost', rec)
           /\ \A n : Filed(n, timeline \o entries, lost) => Filed(n, timeline', lost')
  <1> DEFINE full == timeline \o entries
  <1>1. full \in Seq(Entry) /\ timeline' \in Seq(Entry)
    BY AppendAllEffect
  <1>2. CASE timeline' = full /\ lost' = lost
    BY <1>2
  <1>3. ASSUME NEW j \in Len(timeline) + 1 .. Len(full),
               Without(timeline', full, j), lost' = lost \cup {full[j]}
        PROVE  /\ \A buffer, rec : Follows(full, buffer, lost, rec) =>
                                   Follows(timeline', buffer, lost', rec)
               /\ \A n : Filed(n, full, lost) => Filed(n, timeline', lost')
    <2>1. Len(timeline) \in Nat /\ Len(full) \in Nat /\ DOMAIN full = 1 .. Len(full)
            /\ DOMAIN timeline' = 1 .. Len(timeline')
      BY <1>1, LenProperties
    <2>2. j \in 1 .. Len(full)
      BY <2>1
    <2> HIDE DEF full
    <2>3. \A buffer, rec : Follows(full, buffer, lost, rec) => Follows(timeline', buffer, lost', rec)
      BY <1>1, <1>3, <2>2, LossFollows
    <2>4. ASSUME NEW n, Filed(n, full, lost) PROVE Filed(n, timeline', lost')
      <3> DEFINE request == [kind |-> "event", evs |-> <<n>>]
      <3>1. CASE request \in lost
        BY <1>3, <3>1 DEF Filed
      <3>2. ASSUME NEW h \in DOMAIN full, full[h] = request PROVE Filed(n, timeline', lost')
        <4>1. CASE h = j
          BY <1>3, <3>2, <4>1 DEF Filed
        <4>2. CASE h < j
          <5>1. h \in DOMAIN timeline' /\ timeline'[h] = full[h]
            BY <1>3, <2>1, <2>2, <4>2 DEF Without
          <5> QED  BY <3>2, <5>1 DEF Filed
        <4>3. CASE h > j
          <5>1. h - 1 \in DOMAIN timeline' /\ timeline'[h - 1] = full[h]
            BY <1>3, <2>1, <2>2, <4>3 DEF Without
          <5> QED  BY <3>2, <5>1 DEF Filed
        <4> QED  BY <2>1, <2>2, <4>1, <4>2, <4>3
      <3> QED  BY <2>4, <3>1, <3>2 DEF Filed
    <2> QED  BY <2>3, <2>4
  <1> QED  BY <1>2, <1>3, AppendAllEffect

\* A request stays on file while the timeline grows.
LEMMA FiledStays ==
    ASSUME NEW tl \in Seq(Entry), NEW entries \in Seq(Entry), NEW gone, NEW n
    PROVE  /\ Filed(n, tl, gone) => Filed(n, tl \o entries, gone)
           /\ (\E h \in DOMAIN entries : entries[h] = [kind |-> "event", evs |-> <<n>>]) =>
                 Filed(n, tl \o entries, gone)
  <1>1. /\ tl \o entries \in Seq(Entry) /\ Len(tl) \in Nat /\ Len(entries) \in Nat
        /\ DOMAIN tl = 1 .. Len(tl) /\ DOMAIN entries = 1 .. Len(entries)
        /\ Len(tl \o entries) = Len(tl) + Len(entries)
        /\ \A k \in 1 .. Len(tl) + Len(entries) :
              (tl \o entries)[k] = IF k <= Len(tl) THEN tl[k] ELSE entries[k - Len(tl)]
    BY LenProperties, ConcatProperties
  <1>2. DOMAIN (tl \o entries) = 1 .. Len(tl) + Len(entries)
    BY <1>1, LenProperties
  <1>3. \A h \in DOMAIN tl : h \in DOMAIN (tl \o entries) /\ (tl \o entries)[h] = tl[h]
    BY <1>1, <1>2
  <1>4. \A h \in DOMAIN entries :
           Len(tl) + h \in DOMAIN (tl \o entries) /\ (tl \o entries)[Len(tl) + h] = entries[h]
    BY <1>1, <1>2
  <1> QED  BY <1>3, <1>4 DEF Filed

\* A goroutine that has yet to answer finds its request on file.
RequestsFiled ==
    \A n \in DOMAIN gpc : gpc[n] \in {"backend", "answer"} => Filed(n, timeline, lost)

TimelineInv == TimelineFollowsStream /\ RequestsFiled

\* Every step keeps the timeline in stream order: the handler flushes the
\* buffer before it records anything else, and an answer that a goroutine
\* slips in stands behind its request.
LEMMA TimelineStep ==
    ASSUME TypeOK, Bookkeeping, TimelineInv, [Next]_vars
    PROVE  TimelineInv'
  <1> USE Limits
  <1> USE DEF TimelineInv, TimelineFollowsStream, RequestsFiled
  <1>1. /\ received \in Seq(Event) /\ timeline \in Seq(Entry) /\ deltas \in Seq(1 .. MaxEvents)
        /\ DOMAIN gpc \subseteq 1 .. Len(received) /\ Len(received) \in Nat
    BY LenProperties DEF TypeOK, Bookkeeping, Event, Kinds
  <1>2. ASSUME NEW kind \in Kinds, NEW id \in Ids \cup {Other, Oversized},
               Receiving, Receive(kind, id)
        PROVE  Continues(received', received, kind) /\ Now = Len(received) + 1 /\ Now \in 1 .. MaxEvents
    <2>1. /\ Now = Len(received) + 1 /\ Now \in 1 .. MaxEvents /\ Len(received') = Now
          /\ received'[Now] = [kind |-> kind, id |-> id]
          /\ \A n \in 1 .. Len(received) : received'[n] = received[n]
      BY <1>1, <1>2, ReceiveEffect
    <2> QED  BY <1>1, <2>1 DEF Continues
  <1> DEFINE flushed == timeline \o FlushDeltas(deltas)
  <1>3. /\ FlushDeltas(deltas) \in Seq(Entry) /\ flushed \in Seq(Entry)
        /\ Follows(flushed, <<>>, lost, received)
    BY <1>1, EntriesType, FlushFollows
  <1>4. ASSUME NEW entries \in Seq(Entry)
        PROVE  /\ FlushDeltas(deltas) \o entries \in Seq(Entry)
               /\ timeline \o (FlushDeltas(deltas) \o entries) = flushed \o entries
    <2>1. \A a, b, c \in Seq(Entry) : a \o b \in Seq(Entry) /\ (a \o b) \o c = a \o (b \o c)
      BY ConcatProperties, ConcatAssociative
    <2> QED  BY <1>1, <1>3, <2>1, Zenon
  <1>5. ASSUME NEW entries \in Seq(Entry), AppendAll(entries), NEW n, Filed(n, timeline, lost)
        PROVE  Filed(n, timeline', lost')
    BY <1>1, <1>5, AppendFollows, FiledStays
  <1>6. ASSUME NEW entries \in Seq(Entry), AppendAll(entries), UNCHANGED gpc
        PROVE  RequestsFiled'
    BY <1>5, <1>6
  <1> HIDE DEF flushed
  <1>7. CASE TextDelta
    <2>1. Continues(received', received, "text") /\ Now = Len(received) + 1 /\ Now \in 1 .. MaxEvents
      BY <1>2, <1>7 DEF TextDelta, Kinds
    <2>2. Append(deltas, Now) \in Seq(1 .. MaxEvents)
      BY <1>1, <2>1, AppendProperties
    <2>3. Follows(timeline, Append(deltas, Now), lost, received')
      BY <1>1, <2>1, TextFollows
    <2>4. CASE deltas' = Append(deltas, Now) /\ UNCHANGED <<timeline, lost>>
      BY <1>7, <2>3, <2>4 DEF TextDelta, callVars
    <2>5. CASE deltas' = <<>> /\ AppendAll(FlushDeltas(Append(deltas, Now)))
      <3>1. FlushDeltas(Append(deltas, Now)) \in Seq(Entry)
        BY <2>2, EntriesType
      <3>2. Follows(timeline \o FlushDeltas(Append(deltas, Now)), <<>>, lost, received')
        BY <1>1, <2>2, <2>3, FlushFollows
      <3>3. Follows(timeline', <<>>, lost', received')
        BY <1>1, <2>5, <3>1, <3>2, AppendFollows
      <3>4. RequestsFiled'
        BY <1>6, <1>7, <2>5, <3>1 DEF TextDelta, callVars
      <3> QED  BY <2>5, <3>3, <3>4
    <2> QED  BY <1>7, <2>4, <2>5 DEF TextDelta
  \* The handlers of the other events flush the buffer and append entries.
  <1>8. ASSUME NEW entries \in Seq(Entry), Follows(flushed \o entries, <<>>, lost, received'),
               deltas' = <<>>, AppendAll(FlushDeltas(deltas) \o entries)
        PROVE  TimelineFollowsStream'
    <2>1. Follows(timeline \o (FlushDeltas(deltas) \o entries), <<>>, lost, received')
      BY <1>4, <1>8
    <2> QED  BY <1>1, <1>4, <1>8, <2>1, AppendFollows
  <1>9. ASSUME NEW kind \in Kinds \ {"ready"}, NEW id \in Ids \cup {Other, Oversized},
               Receiving, Receive(kind, id)
        PROVE  /\ Recorded("event", Now) \in Seq(Entry)
               /\ Follows(flushed \o Recorded("event", Now), <<>>, lost, received')
    BY <1>2, <1>3, <1>9, EventFollows, EntriesType
  <1>10. ASSUME NEW kind \in {"plain", "ready"}, PlainEvent(kind) PROVE TimelineInv'
    <2>1. Receiving /\ Receive(kind, Oversized) /\ deltas' = <<>> /\ UNCHANGED gpc
            /\ AppendAll(FlushDeltas(deltas) \o IF kind = "ready" THEN <<>> ELSE Recorded("event", Now))
      BY <1>10 DEF PlainEvent, callVars
    <2>2. CASE kind = "ready"
      <3>1. <<>> \in Seq(Entry) /\ flushed \o <<>> = flushed
        BY <1>3, EmptySeq, ConcatEmptySeq
      <3>2. Follows(flushed \o <<>>, <<>>, lost, received')
        BY <1>2, <1>3, <2>1, <2>2, <3>1, ReadyFollows DEF Kinds
      <3> QED  BY <1>4, <1>6, <1>8, <2>1, <2>2, <3>1, <3>2
    <2>3. CASE kind = "plain"
      <3>1. /\ Recorded("event", Now) \in Seq(Entry)
            /\ Follows(flushed \o Recorded("event", Now), <<>>, lost, received')
        BY <1>9, <2>1, <2>3 DEF Kinds
      <3> QED  BY <1>4, <1>6, <1>8, <2>1, <2>3, <3>1
    <2> QED  BY <2>2, <2>3
  <1>11. ASSUME NEW id \in {Other, Oversized}, TokenRequest(id) PROVE TimelineInv'
    <2>1. Receiving /\ Receive("token", id) /\ deltas' = <<>> /\ UNCHANGED gpc
            /\ AppendAll(FlushDeltas(deltas) \o Recorded("event", Now))
      BY <1>11 DEF TokenRequest, callVars
    <2>2. /\ Recorded("event", Now) \in Seq(Entry)
          /\ Follows(flushed \o Recorded("event", Now), <<>>, lost, received')
      BY <1>9, <2>1 DEF Kinds
    <2> QED  BY <1>4, <1>6, <1>8, <2>1, <2>2
  <1>12. ASSUME NEW kind \in {"call", "foreign"}, NEW id \in Ids \cup {Other, Oversized},
                ToolResultRequest(kind, id)
         PROVE  TimelineInv'
    <2>1. Receiving /\ Receive(kind, id) /\ deltas' = <<>>
      BY <1>12 DEF ToolResultRequest
    <2>2. /\ Recorded("event", Now) \in Seq(Entry)
          /\ Follows(flushed \o Recorded("event", Now), <<>>, lost, received')
      BY <1>9, <2>1 DEF Kinds
    <2>3. Now = Len(received) + 1 /\ Now \in 1 .. MaxEvents
      BY <1>2, <2>1 DEF Kinds
    <2>4. CASE AppendAll(FlushDeltas(deltas) \o Recorded("event", Now)) /\ UNCHANGED callVars
      BY <1>4, <1>6, <1>8, <2>1, <2>2, <2>4 DEF callVars
    <2>5. CASE AppendAll(FlushDeltas(deltas) \o RequestThenAnswer(Now)) /\ UNCHANGED callVars
      <3> DEFINE q == flushed \o Recorded("event", Now)
      <3>1. q \in Seq(Entry) /\ Recorded("answer", Now) \in Seq(Entry)
        BY <1>3, <2>2, <2>3, ConcatProperties, EntriesType
      <3>2. RequestThenAnswer(Now) \in Seq(Entry)
              /\ flushed \o RequestThenAnswer(Now) = q \o Recorded("answer", Now)
        <4>1. \A a, b, c \in Seq(Entry) : (a \o b) \o c = a \o (b \o c)
          BY ConcatAssociative
        <4>2. (flushed \o Recorded("event", Now)) \o Recorded("answer", Now) =
                 flushed \o (Recorded("event", Now) \o Recorded("answer", Now))
          BY <1>3, <2>2, <3>1, <4>1
        <4>3. RequestThenAnswer(Now) = Recorded("event", Now) \o Recorded("answer", Now)
          BY DEF RequestThenAnswer
        <4> QED  BY <2>3, <4>2, <4>3, EntriesType
      <3>3. Filed(Now, q, lost)
        <4>1. \E h \in DOMAIN Recorded("event", Now) :
                 Recorded("event", Now)[h] = [kind |-> "event", evs |-> <<Now>>]
          BY DEF Recorded
        <4> QED  BY <1>3, <2>2, <4>1, FiledStays
      <3> HIDE DEF q
      <3>4. Follows(q \o Recorded("answer", Now), <<>>, lost, received')
        <4>1. Follows(q, <<>>, lost, received')
          BY <2>2 DEF q
        <4> QED  BY <2>3, <3>1, <3>3, <4>1, AnswerFollows DEF Filed
      <3> QED  BY <1>4, <1>6, <1>8, <2>1, <2>5, <3>2, <3>4 DEF callVars
    <2>6. CASE /\ AppendAll(FlushDeltas(deltas) \o Recorded("event", Now))
               /\ gpc' = [n \in DOMAIN gpc \cup {Now} |-> IF n = Now THEN "backend" ELSE gpc[n]]
      <3>1. TimelineFollowsStream'
        BY <1>8, <2>1, <2>2, <2>6
      <3>2. FlushDeltas(deltas) \o Recorded("event", Now) \in Seq(Entry)
        BY <1>4, <2>2
      <3>3. Filed(Now, timeline \o (FlushDeltas(deltas) \o Recorded("event", Now)), lost)
        <4>1. \E h \in DOMAIN Recorded("event", Now) :
                 Recorded("event", Now)[h] = [kind |-> "event", evs |-> <<Now>>]
          BY DEF Recorded
        <4>2. Filed(Now, flushed \o Recorded("event", Now), lost)
          BY <1>3, <2>2, <4>1, FiledStays
        <4> QED  BY <1>4, <2>2, <4>2
      <3>4. \A n : Filed(n, timeline \o (FlushDeltas(deltas) \o Recorded("event", Now)), lost) =>
                     Filed(n, timeline', lost')
        BY <1>1, <2>6, <3>2, AppendFollows
      <3>5. \A n \in DOMAIN gpc : gpc[n] \in {"backend", "answer"} => Filed(n, timeline', lost')
        BY <1>5, <2>6, <3>2
      <3>6. RequestsFiled'
        BY <2>6, <3>3, <3>4, <3>5
      <3> QED  BY <3>1, <3>6
    <2> QED  BY <1>12, <2>4, <2>5, <2>6 DEF ToolResultRequest
  <1>13. CASE StreamEnds
    <2>1. deltas' = <<>> /\ AppendAll(FlushDeltas(deltas)) /\ UNCHANGED <<received, gpc>>
      BY <1>13 DEF StreamEnds, callVars
    <2>2. TimelineFollowsStream'
      BY <1>1, <1>3, <2>1, AppendFollows DEF flushed
    <2> QED  BY <1>3, <1>6, <2>1, <2>2
  <1>14. ASSUME NEW n \in 1 .. MaxEvents, Fulfil(n) PROVE TimelineInv'
    BY <1>14 DEF Fulfil, GoroutineAt, pumpVars
  <1>15. ASSUME NEW n \in 1 .. MaxEvents, SendToolResult(n) PROVE TimelineInv'
    <2>1. /\ AppendAll(Recorded("answer", n)) /\ UNCHANGED <<received, deltas>>
          /\ n \in DOMAIN gpc /\ gpc[n] = "answer" /\ gpc' = [gpc EXCEPT ![n] = "release"]
      BY <1>15 DEF SendToolResult, GoroutineAt, pumpVars
    <2>2. Recorded("answer", n) \in Seq(Entry)
      BY EntriesType
    <2>3. Follows(timeline \o Recorded("answer", n), deltas, lost, received)
      <3>1. Filed(n, timeline, lost)
        BY <2>1
      <3> QED  BY <1>1, <3>1, AnswerFollows DEF Filed
    <2>4. TimelineFollowsStream'
      BY <1>1, <2>1, <2>2, <2>3, AppendFollows
    <2>5. \A m \in DOMAIN gpc : gpc[m] \in {"backend", "answer"} => Filed(m, timeline', lost')
      BY <1>5, <2>1, <2>2
    <2>6. RequestsFiled'
      BY <2>1, <2>5
    <2> QED  BY <2>4, <2>6
  <1>16. ASSUME NEW n \in 1 .. MaxEvents, Finish(n) PROVE TimelineInv'
    BY <1>16 DEF Finish
  <1>17. CASE UNCHANGED vars
    BY <1>17 DEF vars, pumpVars, callVars
  <1> QED  BY <1>7, <1>10, <1>11, <1>12, <1>13, <1>14, <1>15, <1>16, <1>17 DEF Next, CallStep

\* The timeline follows the stream: however texts are coalesced, calls overlap
\* and appends fail, every harness event that was not itself lost is on record
\* exactly once and in stream order, and every answer behind its request.
THEOREM StreamOrderKept == Spec => []TimelineFollowsStream
  <1>1. Init => TimelineInv
    BY Limits DEF Init, TimelineInv, TimelineFollowsStream, RequestsFiled, Follows, Ordered,
                  Backed, Ascends, OnRecord, Numbers, Lost
  <1>2. TypeOK /\ Bookkeeping /\ TimelineInv /\ [Next]_vars => TimelineInv'
    BY TimelineStep
  <1>3. TimelineInv => TimelineFollowsStream
    BY DEF TimelineInv
  <1> QED  BY <1>1, <1>2, <1>3, TypeCorrect, PTL DEF Spec

=============================================================================
