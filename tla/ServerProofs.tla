---------------------------- MODULE ServerProofs ----------------------------
(***************************************************************************)
(* Proofs about Server, for any command lines, streams, jobs, callers and  *)
(* memory calls.                                                           *)
(***************************************************************************)
EXTENDS Server, TLAPS, FiniteSetTheorems

-----------------------------------------------------------------------------
(***************************************************************************)
(* Which steps touch what                                                  *)
(***************************************************************************)

\* The steps of serve itself that concern no stream: everything but the
\* cancels that it sends when it is told to stop.
MainStep ==
    \/ \E f \in Flags, detected \in {"", "ns"} : Start(f, detected)
    \/ Boot \/ Signal \/ ListenError \/ StopReaper
    \/ StartDrain \/ Shutdown \/ WaitReaper \/ WaitForLaunches \/ WaitForMemoryCalls \/ Unwind

\* They leave streams, sends, API calls and memory calls alone.
LEMMA MainStepFrame ==
    ASSUME MainStep
    PROVE  UNCHANGED <<streamVars, sendVars, workVars>>
  <1>1. ASSUME NEW f, NEW detected, Start(f, detected)
        PROVE  UNCHANGED <<streamVars, sendVars, workVars>>
    BY <1>1 DEF Start
  <1>2. CASE Boot
    <2>1. \A part, why : Failed(part, why) => UNCHANGED <<streamVars, sendVars, workVars>>
      BY DEF Failed
    <2>2. \A part, deferred, to : Built(part, deferred, to) => UNCHANGED <<streamVars, sendVars, workVars>>
      BY DEF Built
    <2> QED  BY <1>2, <2>1, <2>2 DEF Boot, SetupTelemetry, ExporterFails, buildStore, LoadProfiles,
                buildLauncher, NewK8sFails, buildTokenIssuer, Wire
  <1>3. CASE Signal \/ ListenError \/ StopReaper \/ Unwind
    BY <1>3 DEF Signal, ListenError, StopReaper, Unwind, Proceed
  <1>4. CASE StartDrain \/ Shutdown \/ WaitReaper \/ WaitForLaunches \/ WaitForMemoryCalls
    BY <1>4 DEF StartDrain, Shutdown, WaitReaper, WaitForLaunches, WaitForMemoryCalls, Proceed
  <1> QED  BY <1>1, <1>2, <1>3, <1>4 DEF MainStep

\* The steps of one stream's goroutine ...
StreamStep(s) ==
    \/ Open(s) \/ Refuse(s) \/ Register(s) \/ Unusable(s) \/ Assign(s) \/ MarkRunning(s)
    \/ BareCancel(s) \/ Reply(s) \/ EndPump(s) \/ EndSession(s) \/ CloseSession(s) \/ Unregister(s)

\* ... of one memory call, from the pump that starts it ...
MemoryStep(m) == (\E s \in Streams : StartMemoryCall(s, m)) \/ BackendAnswers(m) \/ EndMemoryCall(m)

\* ... and of one API handler.
CallerStep(c) == Submit(c) \/ EndLaunch(c) \/ Call(c) \/ Finish(c)

\* The steps, by who takes them.
LEMMA NextCases ==
    ASSUME [Next]_vars
    PROVE  \/ MainStep \/ CancelRuns
           \/ \E s \in Streams : StreamStep(s)
           \/ \E m \in Workers : MemoryStep(m)
           \/ \E c \in Callers : CallerStep(c)
           \/ UNCHANGED vars
  BY DEF Next, MainStep, Stop, runTask, StreamStep, MemoryStep, CallerStep

\* A stream's step is its own affair: serve, API calls and memory calls do not
\* see it, and nobody changes what it is to send.
LEMMA StreamFrame ==
    ASSUME NEW s, StreamStep(s)
    PROVE  UNCHANGED <<bootVars, phase, endVars, target, workVars>>
  <1>1. CASE Open(s) \/ Refuse(s) \/ Register(s) \/ Unusable(s) \/ Assign(s) \/ MarkRunning(s)
    BY <1>1 DEF Open, Refuse, Register, Unusable, Assign, MarkRunning, sendVars
  <1>2. CASE BareCancel(s) \/ Reply(s) \/ EndPump(s) \/ EndSession(s) \/ CloseSession(s) \/ Unregister(s)
    BY <1>2 DEF BareCancel, Reply, EndPump, EndSession, CloseSession, Unregister, sendVars
  <1> QED  BY <1>1, <1>2 DEF StreamStep

\* A memory call and an API handler leave serve and the streams alone.
LEMMA MemoryFrame ==
    ASSUME NEW m, MemoryStep(m)
    PROVE  UNCHANGED <<bootVars, phase, endVars, streamVars, calls, launches>>
  BY DEF MemoryStep, StartMemoryCall, BackendAnswers, EndMemoryCall

LEMMA CallerFrame ==
    ASSUME NEW c, CallerStep(c)
    PROVE  UNCHANGED <<bootVars, phase, endVars, streamVars, memory>>
  BY DEF CallerStep, Submit, EndLaunch, Call, Finish, workVars

-----------------------------------------------------------------------------
(***************************************************************************)
(* Types                                                                   *)
(***************************************************************************)

Locations == {"away", "open", "gone"} \cup Registered

\* The types of what streams and senders work on.
TypeOK ==
    /\ spc \in [Streams -> Locations]
    /\ claim \in [Streams -> Jobs \cup {None}]
    /\ registry \in [Jobs -> Streams \cup {None}]
    /\ mutex \in [Streams -> Senders \cup {None}]
    /\ inSend \in [Streams -> SUBSET Senders]
    /\ target \in [Routers -> Streams \cup {None}]
    /\ memory \in [Workers -> {"none", "calling", "answering", "done"}]
    /\ counted \in [Streams -> Nat]
    /\ \A s \in Streams : spc[s] \in InProgress => claim[s] \in Jobs
    /\ todo \subseteq Jobs

\* Only finitely many harnesses have dialled in.
FinitelyMany == IsFiniteSet({s \in Streams : spc[s] # "away"})

\* What a send through the session does to the mutexes.
LEMMA DeliverTypes ==
    ASSUME TypeOK, NEW p \in Routers, Deliver(p)
    PROVE  /\ mutex' \in [Streams -> Senders \cup {None}]
           /\ inSend' \in [Streams -> SUBSET Senders]
           /\ target' \in [Routers -> Streams \cup {None}]
  <1>1. PICK s \in Streams :
          \/ EnterSend(p, s) /\ UNCHANGED target
          \/ LeaveSend(p, s) /\ target' = [target EXCEPT ![p] = None]
          \/ target' = [target EXCEPT ![p] = None] /\ UNCHANGED <<mutex, inSend>>
    BY DEF Deliver, NotConnected
  <1>2. p \in Senders
    BY DEF Senders
  <1>3. CASE EnterSend(p, s) /\ UNCHANGED target
    BY <1>2, <1>3 DEF TypeOK, EnterSend
  <1>4. CASE LeaveSend(p, s) /\ target' = [target EXCEPT ![p] = None]
    <2>1. \A t \in Streams : mutex[t] \in Senders \cup {None} /\ inSend[t] \ {p} \in SUBSET Senders
      BY DEF TypeOK
    <2> QED  BY <1>4, <2>1 DEF TypeOK, LeaveSend
  <1>5. CASE target' = [target EXCEPT ![p] = None] /\ UNCHANGED <<mutex, inSend>>
    BY <1>5 DEF TypeOK
  <1> QED  BY <1>1, <1>3, <1>4, <1>5

\* Every step keeps the types.
LEMMA TypeStep ==
    ASSUME TypeOK, [Next]_vars
    PROVE  TypeOK'
  <1> USE ServerAssumption
  <1>1. CASE MainStep
    <2>1. UNCHANGED <<spc, claim, registry, mutex, inSend, target, memory, counted>>
      BY <1>1, MainStepFrame DEF streamVars, sendVars, workVars
    <2>2. todo' \in {todo, JobIDs}
      BY <1>1 DEF MainStep, Start, Boot, SetupTelemetry, ExporterFails, buildStore, LoadProfiles,
                  buildLauncher, NewK8sFails, buildTokenIssuer, Wire, Built, Failed, Signal,
                  ListenError, StopReaper, StartDrain, Shutdown, WaitReaper, WaitForLaunches,
                  WaitForMemoryCalls, Unwind, endVars
    <2> QED  BY <2>1, <2>2 DEF TypeOK, JobIDs
  <1>2. CASE UNCHANGED vars
    <2>1. UNCHANGED <<spc, claim, registry, mutex, inSend, target, memory, counted, todo>>
      BY <1>2 DEF vars, streamVars, sendVars, workVars, endVars
    <2> QED  BY <2>1 DEF TypeOK
  <1>3. CASE CancelRuns
    <2>1. UNCHANGED <<spc, claim, registry, memory, counted>> /\ todo' \subseteq Jobs
      BY <1>3 DEF CancelRuns, streamVars, workVars, TypeOK
    <2>2. CASE \E j \in todo : IF registry[j] = None THEN UNCHANGED sendVars ELSE Route(Main, j)
      <3>1. PICK j \in todo : IF registry[j] = None THEN UNCHANGED sendVars ELSE Route(Main, j)
        BY <2>2
      <3>2. CASE UNCHANGED sendVars
        BY <2>1, <3>2 DEF TypeOK, sendVars
      <3>3. CASE Route(Main, j)
        BY <2>1, <3>3 DEF TypeOK, Route, Routers
      <3> QED  BY <3>1, <3>2, <3>3
    <2>3. CASE Deliver(Main)
      <3>1. Main \in Routers
        BY DEF Routers
      <3> QED  BY <2>1, <2>3, <3>1, DeliverTypes DEF TypeOK
    <2> QED  BY <1>3, <2>2, <2>3 DEF CancelRuns
  <1>4. ASSUME NEW c \in Callers, CallerStep(c) PROVE TypeOK'
    <2>1. UNCHANGED <<spc, claim, registry, memory, counted, todo>> /\ c \in Routers
      BY <1>4, CallerFrame DEF streamVars, endVars, Routers
    <2>2. CASE Submit(c) \/ EndLaunch(c)
      BY <2>1, <2>2 DEF Submit, EndLaunch, TypeOK, sendVars
    <2>3. CASE Call(c)
      BY <2>1, <2>3 DEF Call, Route, TypeOK
    <2>4. CASE Finish(c)
      BY <2>1, <2>4, DeliverTypes DEF Finish, TypeOK
    <2> QED  BY <1>4, <2>2, <2>3, <2>4 DEF CallerStep
  <1>6. ASSUME NEW m \in Workers, MemoryStep(m) PROVE TypeOK'
    <2>1. UNCHANGED <<spc, claim, registry, counted, todo>> /\ m \in Routers
      BY <1>6, MemoryFrame DEF streamVars, endVars, Routers
    <2>2. ASSUME NEW s \in Streams, StartMemoryCall(s, m) PROVE TypeOK'
      BY <2>1, <2>2 DEF StartMemoryCall, TypeOK
    <2>3. CASE BackendAnswers(m)
      BY <2>1, <2>3 DEF BackendAnswers, TypeOK, sendVars
    <2>4. CASE EndMemoryCall(m)
      <3>1. memory' \in [Workers -> {"none", "calling", "answering", "done"}]
        BY <2>4 DEF EndMemoryCall, TypeOK
      <3> QED  BY <2>1, <2>4, <3>1, DeliverTypes DEF EndMemoryCall, TypeOK
    <2> QED  BY <1>6, <2>2, <2>3, <2>4 DEF MemoryStep
  <1>5. ASSUME NEW s \in Streams, StreamStep(s) PROVE TypeOK'
    <2>1. s \in Senders /\ counted \in [Streams -> Nat]
      BY DEF Senders, TypeOK
    <2>2. ASSUME Count(s) PROVE counted' \in [Streams -> Nat]
      BY <2>1, <2>2 DEF Count
    <2>a. mutex \in [Streams -> Senders \cup {None}] /\ inSend \in [Streams -> SUBSET Senders]
      BY DEF TypeOK
    <2>b. [inSend EXCEPT ![s] = @ \cup {s}] \in [Streams -> SUBSET Senders]
            /\ [inSend EXCEPT ![s] = @ \ {s}] \in [Streams -> SUBSET Senders]
      BY <2>1, <2>a
    <2>3. ASSUME EnterSend(s, s) \/ LeaveSend(s, s)
          PROVE  mutex' \in [Streams -> Senders \cup {None}] /\ inSend' \in [Streams -> SUBSET Senders]
      <3>1. mutex' \in [Streams -> Senders \cup {None}]
        BY <2>1, <2>a, <2>3 DEF EnterSend, LeaveSend
      <3> QED  BY <2>b, <2>3, <3>1 DEF EnterSend, LeaveSend
    <2> USE DEF TypeOK, Locations, Registered, InProgress, To
    <2>4. CASE Open(s)
      <3>1. PICK j \in Jobs : claim' = [claim EXCEPT ![s] = j]
        BY <2>4 DEF Open
      <3> QED  BY <2>4, <3>1 DEF Open, sendVars, workVars, endVars
    <2>5. CASE Refuse(s)
      BY <2>2, <2>5 DEF Refuse, Dismiss, sendVars, workVars, endVars
    <2>6. CASE Register(s)
      BY <2>6 DEF Register, sendVars, workVars, endVars
    <2>7. CASE Unusable(s)
      BY <2>2, <2>7 DEF Unusable, sendVars, workVars, endVars
    <2>8. CASE Assign(s)
      <3>1. UNCHANGED <<claim, registry, target, memory, todo>>
        BY <2>8 DEF Assign, workVars, endVars
      <3>2. counted' \in [Streams -> Nat]
        BY <2>2, <2>8 DEF Assign
      <3>3. mutex' \in [Streams -> Senders \cup {None}] /\ inSend' \in [Streams -> SUBSET Senders]
        BY <2>3, <2>8 DEF Assign
      <3>4. spc[s] \in InProgress /\ spc' \in [Streams -> Locations]
              /\ \A t \in Streams : t # s => spc'[t] = spc[t]
        BY <2>8 DEF Assign
      <3> QED  BY <3>1, <3>2, <3>3, <3>4
    <2>9. CASE MarkRunning(s) \/ EndPump(s) \/ EndSession(s) \/ CloseSession(s)
      BY <2>9 DEF MarkRunning, EndPump, EndSession, CloseSession, sendVars, workVars, endVars
    <2>11. CASE Reply(s)
      <3>1. UNCHANGED <<claim, registry, target, memory, todo, counted>>
        BY <2>11 DEF Reply, workVars, endVars
      <3>2. mutex' \in [Streams -> Senders \cup {None}] /\ inSend' \in [Streams -> SUBSET Senders]
        BY <2>3, <2>11 DEF Reply
      <3>3. spc[s] \in InProgress /\ spc' \in [Streams -> Locations]
              /\ \A t \in Streams : t # s => spc'[t] = spc[t]
        BY <2>11 DEF Reply
      <3> QED  BY <3>1, <3>2, <3>3
    <2>10. CASE BareCancel(s)
      <3>1. inSend' \in [Streams -> SUBSET Senders]
        BY <2>b, <2>10 DEF BareCancel
      <3>2. spc[s] \in InProgress
        BY <2>10 DEF BareCancel
      <3>3. spc' \in [Streams -> Locations] /\ \A t \in Streams : t # s => spc'[t] = spc[t]
        BY <2>10 DEF BareCancel
      <3>4. UNCHANGED <<claim, registry, target, memory, todo, mutex, counted>>
        BY <2>10 DEF BareCancel, workVars, endVars
      <3> QED  BY <3>1, <3>2, <3>3, <3>4
    <2>12. CASE Unregister(s)
      <3>1. spc' = [spc EXCEPT ![s] = "gone"] /\ claim' = [claim EXCEPT ![s] = None]
        BY <2>12 DEF Unregister
      <3>2. registry' \in [Jobs -> Streams \cup {None}]
        <4>1. registry' = [registry EXCEPT ![claim[s]] = IF @ = s THEN None ELSE @]
          BY <2>12 DEF Unregister
        <4>2. \A j \in Jobs : registry'[j] \in Streams \cup {None}
          BY <4>1
        <4> QED  BY <4>1, <4>2
      <3>3. UNCHANGED <<mutex, inSend, target, memory, counted, todo>>
        BY <2>12 DEF Unregister, workVars, endVars
      <3>4. claim' \in [Streams -> Jobs \cup {None}] /\ spc' \in [Streams -> Locations]
        BY <3>1
      <3>5. \A t \in Streams : spc'[t] \in InProgress => claim'[t] \in Jobs
        BY <3>1
      <3> QED  BY <3>2, <3>3, <3>4, <3>5
    <2> QED  BY <1>5, <2>4, <2>5, <2>6, <2>7, <2>8, <2>9, <2>10, <2>11, <2>12 DEF StreamStep
  <1> QED  BY <1>1, <1>2, <1>3, <1>4, <1>5, <1>6, NextCases

\* A step moves one stream at most.
LEMMA SpcStep ==
    ASSUME TypeOK, [Next]_vars
    PROVE  spc' = spc \/ \E s \in Streams, to \in Locations : spc' = [spc EXCEPT ![s] = to]
  <1>1. CASE MainStep
    BY <1>1, MainStepFrame DEF streamVars
  <1>2. CASE CancelRuns \/ UNCHANGED vars
    BY <1>2 DEF CancelRuns, vars, streamVars
  <1>3. CASE (\E m \in Workers : MemoryStep(m)) \/ (\E c \in Callers : CallerStep(c))
    BY <1>3, MemoryFrame, CallerFrame DEF streamVars
  <1>4. ASSUME NEW s \in Streams, StreamStep(s)
        PROVE  spc' = spc \/ \E to \in Locations : spc' = [spc EXCEPT ![s] = to]
    <2> USE DEF To, Locations, Registered
    <2>1. CASE Open(s) \/ Refuse(s) \/ Register(s) \/ Unusable(s) \/ Assign(s) \/ MarkRunning(s)
      BY <2>1 DEF Open, Refuse, Dismiss, Register, Unusable, Assign, MarkRunning
    <2>2. CASE BareCancel(s) \/ Reply(s) \/ EndPump(s) \/ EndSession(s) \/ CloseSession(s) \/ Unregister(s)
      BY <2>2 DEF BareCancel, Reply, EndPump, EndSession, CloseSession, Unregister
    <2> QED  BY <1>4, <2>1, <2>2 DEF StreamStep
  <1> QED  BY <1>1, <1>2, <1>3, <1>4, NextCases

\* The types hold of every reachable state, and the streams that have dialled
\* in are finitely many.
LEMMA TypeHolds == Spec => [](TypeOK /\ FinitelyMany)
  <1>1. Init => TypeOK /\ FinitelyMany
    <2> SUFFICES ASSUME Init PROVE TypeOK /\ FinitelyMany
      OBVIOUS
    <2>1. {s \in Streams : spc[s] # "away"} = {}
      BY DEF Init
    <2>2. FinitelyMany
      BY <2>1, FS_EmptySet DEF FinitelyMany
    <2> QED  BY <2>2, ServerAssumption DEF Init, TypeOK, Locations, Registered, InProgress
  <1>2. TypeOK /\ [Next]_vars => TypeOK'
    BY TypeStep
  <1>3. TypeOK /\ FinitelyMany /\ [Next]_vars => FinitelyMany'
    <2> SUFFICES ASSUME TypeOK, FinitelyMany, [Next]_vars PROVE FinitelyMany'
      OBVIOUS
    <2> DEFINE Known == {t \in Streams : spc[t] # "away"}
    <2>1. CASE spc' = spc
      BY <2>1 DEF FinitelyMany
    <2>2. ASSUME NEW s \in Streams, NEW to \in Locations, spc' = [spc EXCEPT ![s] = to]
          PROVE  FinitelyMany'
      <3>1. {t \in Streams : spc'[t] # "away"} \in SUBSET (Known \cup {s})
        BY <2>2 DEF TypeOK
      <3>2. IsFiniteSet(Known \cup {s})
        BY FS_AddElement DEF FinitelyMany
      <3>3. IsFiniteSet({t \in Streams : spc'[t] # "away"})
        BY <3>1, <3>2, FS_Subset
      <3> QED  BY <3>3 DEF FinitelyMany
    <2> QED  BY <2>1, <2>2, SpcStep
  <1> QED  BY <1>1, <1>2, <1>3, PTL DEF Spec

-----------------------------------------------------------------------------
(***************************************************************************)
(* Sends on a stream                                                       *)
(***************************************************************************)

\* Whoever is inside a send on s: another goroutine holds the mutex, and s is
\* what it is to send on; runTask itself holds it during the assignment and
\* its pump's replies, and sends its bare cancel without it.
SendAt(s) ==
    /\ \A p \in inSend[s] : p # s => p \in Routers /\ mutex[s] = p /\ target[p] = s
    /\ s \in inSend[s] => \/ spc[s] \in {"assigning", "replying"} /\ mutex[s] = s
                          \/ spc[s] \in {"dismiss", "cancelling"}

SendInv == \A s \in Streams : SendAt(s)

\* A memory call that has not begun is to send on no stream.
FreshInv == \A m \in Workers : memory[m] = "none" => target[m] = None

\* A send through the session keeps the others' places.
LEMMA DeliverSends ==
    ASSUME TypeOK, SendInv, NEW p \in Routers, Deliver(p), UNCHANGED spc
    PROVE  SendInv'
  <1> USE ServerAssumption
  <1>0. /\ mutex \in [Streams -> Senders \cup {None}] /\ inSend \in [Streams -> SUBSET Senders]
        /\ target \in [Routers -> Streams \cup {None}]
    BY DEF TypeOK
  <1>1. PICK s \in Streams : target[p] = s /\
          \/ EnterSend(p, s) /\ UNCHANGED target
          \/ LeaveSend(p, s) /\ target' = [target EXCEPT ![p] = None]
          \/ /\ target' = [target EXCEPT ![p] = None] /\ p \notin inSend[s]
             /\ UNCHANGED <<mutex, inSend>>
    BY DEF Deliver, NotConnected
  <1>2. p \notin Streams /\ p # None /\ None \notin Senders
    BY DEF Senders, Routers
  <1>3. \A t \in Streams : t # s => p \notin inSend[t]
    BY <1>1, <1>2 DEF SendInv, SendAt
  <1> SUFFICES ASSUME NEW t \in Streams PROVE SendAt(t)'
    BY DEF SendInv
  <1>4. SendAt(t) /\ SendAt(s)
    BY DEF SendInv
  <1>5. CASE t # s
    <2>1. mutex'[t] = mutex[t] /\ inSend'[t] = inSend[t]
      BY <1>0, <1>1, <1>5 DEF EnterSend, LeaveSend
    <2>2. \A q \in inSend[t] : q # t => q # p /\ q \in Routers
      BY <1>3, <1>4, <1>5 DEF SendAt
    <2>3. \A q \in Routers : q # p => target'[q] = target[q]
      BY <1>0, <1>1
    <2> QED  BY <1>4, <2>1, <2>2, <2>3 DEF SendAt
  <1>6. CASE t = s /\ EnterSend(p, s) /\ UNCHANGED target
    <2>1. mutex[s] = None /\ mutex'[s] = p /\ inSend'[s] = inSend[s] \cup {p}
      BY <1>0, <1>6 DEF EnterSend, Takes
    <2>2. \A q \in inSend[s] : q = s /\ spc[s] \in {"dismiss", "cancelling"}
      <3>1. \A q \in inSend[s] : q # None
        BY <1>0, <1>2
      <3> QED  BY <1>4, <2>1, <3>1 DEF SendAt
    <2>3. \A q \in inSend'[s] : q # s => q = p
      BY <2>1, <2>2
    <2>4. s \in inSend'[s] => spc'[s] \in {"dismiss", "cancelling"}
      BY <1>2, <2>1, <2>2
    <2> QED  BY <1>1, <1>6, <2>1, <2>3, <2>4 DEF SendAt
  <1>7. CASE t = s /\ LeaveSend(p, s) /\ target' = [target EXCEPT ![p] = None]
    <2>1. p \in inSend[s] /\ mutex[s] = p /\ inSend'[s] = inSend[s] \ {p}
      BY <1>0, <1>2, <1>4, <1>7 DEF LeaveSend, SendAt
    <2>2. \A q \in inSend[s] : q # p => q = s /\ spc[s] \in {"dismiss", "cancelling"}
      BY <1>2, <1>4, <2>1 DEF SendAt
    <2> QED  BY <1>7, <2>1, <2>2 DEF SendAt
  <1>8. CASE t = s /\ target' = [target EXCEPT ![p] = None] /\ p \notin inSend[s] /\ UNCHANGED <<mutex, inSend>>
    <2>1. \A q \in inSend[s] : q # p
      BY <1>8
    <2>2. \A q \in Routers : q # p => target'[q] = target[q]
      BY <1>0, <1>8
    <2> QED  BY <1>4, <1>8, <2>1, <2>2 DEF SendAt
  <1> QED  BY <1>1, <1>5, <1>6, <1>7, <1>8

\* Starting a send from outside touches no send under way.
LEMMA RouteSends ==
    ASSUME TypeOK, SendInv, NEW p \in Routers, NEW j \in Jobs, Route(p, j), UNCHANGED spc
    PROVE  SendInv'
  <1>1. p \notin Streams /\ target[p] = None /\ None \notin Streams
    BY ServerAssumption DEF Route, Routers
  <1>2. \A t \in Streams : p \notin inSend[t]
    BY <1>1 DEF SendInv, SendAt
  <1>3. \A q \in Routers : q # p => target'[q] = target[q]
    BY DEF TypeOK, Route
  <1>4. UNCHANGED <<mutex, inSend>>
    BY DEF Route
  <1> QED  BY <1>2, <1>3, <1>4 DEF SendInv, SendAt

\* So does starting a memory call.
LEMMA StartSends ==
    ASSUME TypeOK, SendInv, FreshInv, NEW s \in Streams, NEW m \in Workers, StartMemoryCall(s, m)
    PROVE  SendInv'
  <1>1. m \notin Streams /\ m \in Routers /\ target[m] = None /\ None \notin Streams
    BY ServerAssumption DEF StartMemoryCall, FreshInv, Routers
  <1>2. \A t \in Streams : m \notin inSend[t]
    BY <1>1 DEF SendInv, SendAt
  <1>3. \A q \in Routers : q # m => target'[q] = target[q]
    BY DEF TypeOK, StartMemoryCall
  <1>4. UNCHANGED <<mutex, inSend, spc>>
    BY DEF StartMemoryCall, streamVars
  <1> QED  BY <1>2, <1>3, <1>4 DEF SendInv, SendAt

\* Only its start gives a memory call a stream to send on.
LEMMA FreshStep ==
    ASSUME TypeOK, FreshInv, [Next]_vars
    PROVE  FreshInv'
  <1> USE ServerAssumption
  <1>0. /\ target \in [Routers -> Streams \cup {None}] /\ Workers \subseteq Routers
        /\ memory \in [Workers -> {"none", "calling", "answering", "done"}]
    BY DEF TypeOK, Routers
  <1>1. ASSUME \A m \in Workers : target'[m] \in {target[m], None},
               \A m \in Workers : memory'[m] = "none" => memory[m] = "none"
        PROVE  FreshInv'
    BY <1>1 DEF FreshInv
  <1>2. CASE MainStep \/ UNCHANGED vars
    <2>1. UNCHANGED <<target, memory>>
      BY <1>2, MainStepFrame DEF vars, sendVars, workVars
    <2> QED  BY <2>1 DEF FreshInv
  <1>3. ASSUME NEW p \in Routers, Deliver(p) PROVE \A m \in Workers : target'[m] \in {target[m], None}
    <2>1. UNCHANGED target \/ target' = [target EXCEPT ![p] = None]
      BY <1>3 DEF Deliver
    <2> QED  BY <1>0, <2>1
  <1>4. ASSUME NEW p \in Routers, p \notin Workers, NEW j, Route(p, j) 
        PROVE  \A m \in Workers : target'[m] = target[m]
    BY <1>0, <1>4 DEF Route
  <1>5. CASE CancelRuns
    <2>1. UNCHANGED memory /\ Main \in Routers /\ Main \notin Workers
      BY <1>5 DEF CancelRuns, workVars, Routers
    <2>2. CASE Deliver(Main)
      BY <1>1, <1>3, <2>1, <2>2
    <2>3. CASE UNCHANGED sendVars \/ \E j \in todo : Route(Main, j)
      BY <1>1, <1>4, <2>1, <2>3 DEF sendVars
    <2> QED  BY <1>5, <2>2, <2>3 DEF CancelRuns
  <1>6. ASSUME NEW c \in Callers, CallerStep(c) PROVE FreshInv'
    <2>1. UNCHANGED memory /\ c \in Routers /\ c \notin Workers
      BY <1>6, CallerFrame DEF Routers
    <2>2. CASE Finish(c)
      BY <1>1, <1>3, <2>1, <2>2 DEF Finish
    <2>3. CASE Submit(c) \/ EndLaunch(c) \/ Call(c)
      BY <1>1, <1>4, <2>1, <2>3 DEF Submit, EndLaunch, Call, sendVars
    <2> QED  BY <1>6, <2>2, <2>3 DEF CallerStep
  <1>7. ASSUME NEW s \in Streams, StreamStep(s) PROVE FreshInv'
    BY <1>7, StreamFrame DEF FreshInv, workVars
  <1>8. ASSUME NEW n \in Workers, MemoryStep(n) PROVE FreshInv'
    <2>1. ASSUME NEW s \in Streams, StartMemoryCall(s, n) PROVE FreshInv'
      BY <1>0, <2>1 DEF StartMemoryCall, FreshInv
    <2>2. CASE BackendAnswers(n)
      BY <1>0, <2>2 DEF BackendAnswers, FreshInv, sendVars
    <2>3. CASE EndMemoryCall(n)
      <3>1. \A m \in Workers : memory'[m] = "none" => memory[m] = "none"
        BY <1>0, <2>3 DEF EndMemoryCall
      <3> QED  BY <1>0, <1>1, <1>3, <2>3, <3>1 DEF EndMemoryCall
    <2> QED  BY <1>8, <2>1, <2>2, <2>3 DEF MemoryStep
  <1> QED  BY <1>2, <1>5, <1>6, <1>7, <1>8, NextCases

\* No step breaks into a send: the mutex is free before another goroutine
\* enters, and runTask has left its own send before it goes on.
LEMMA SendStep ==
    ASSUME TypeOK, SendInv, FreshInv, [Next]_vars
    PROVE  SendInv'
  <1> USE ServerAssumption
  <1>1. CASE MainStep
    BY <1>1, MainStepFrame DEF SendInv, SendAt, streamVars, sendVars
  <1>2. CASE UNCHANGED vars
    BY <1>2 DEF SendInv, SendAt, vars, streamVars, sendVars
  <1>3. CASE CancelRuns
    <2>1. UNCHANGED spc /\ Main \in Routers
      BY <1>3 DEF CancelRuns, streamVars, Routers
    <2>2. ASSUME NEW j \in todo, IF registry[j] = None THEN UNCHANGED sendVars ELSE Route(Main, j)
          PROVE  SendInv'
      <3>1. CASE UNCHANGED sendVars
        BY <2>1, <3>1 DEF SendInv, SendAt, sendVars
      <3>2. CASE Route(Main, j)
        <4>1. j \in Jobs
          BY DEF TypeOK
        <4> QED  BY <2>1, <3>2, <4>1, RouteSends
      <3> QED  BY <2>2, <3>1, <3>2
    <2>3. CASE Deliver(Main)
      BY <2>1, <2>3, DeliverSends
    <2> QED  BY <1>3, <2>2, <2>3 DEF CancelRuns
  <1>4. ASSUME NEW c \in Callers, CallerStep(c) PROVE SendInv'
    <2>1. UNCHANGED spc /\ c \in Routers
      BY <1>4, CallerFrame DEF streamVars, Routers
    <2>2. CASE Submit(c) \/ EndLaunch(c)
      BY <2>1, <2>2 DEF Submit, EndLaunch, SendInv, SendAt, sendVars
    <2>3. CASE Call(c)
      BY <2>1, <2>3, RouteSends DEF Call
    <2>4. CASE Finish(c)
      BY <2>1, <2>4, DeliverSends DEF Finish
    <2> QED  BY <1>4, <2>2, <2>3, <2>4 DEF CallerStep
  <1>6. ASSUME NEW m \in Workers, MemoryStep(m) PROVE SendInv'
    <2>1. UNCHANGED spc /\ m \in Routers
      BY <1>6, MemoryFrame DEF streamVars, Routers
    <2>2. CASE BackendAnswers(m)
      BY <2>1, <2>2 DEF BackendAnswers, SendInv, SendAt, sendVars
    <2>3. CASE EndMemoryCall(m)
      BY <2>1, <2>3, DeliverSends DEF EndMemoryCall
    <2> QED  BY <1>6, <2>2, <2>3, StartSends DEF MemoryStep
  <1>5. ASSUME NEW s \in Streams, StreamStep(s) PROVE SendInv'
    <2>1. /\ mutex \in [Streams -> Senders \cup {None}] /\ inSend \in [Streams -> SUBSET Senders]
          /\ spc \in [Streams -> Locations]
      BY DEF TypeOK
    <2>2. s # None /\ s \notin Routers /\ None \notin Senders
      BY DEF Routers, Senders
    <2>3. UNCHANGED target
      BY <1>5, StreamFrame
    <2>4. \A t \in Streams : t # s => mutex'[t] = mutex[t] /\ inSend'[t] = inSend[t] /\ spc'[t] = spc[t]
      <3> USE <2>1 DEF To, EnterSend, LeaveSend, sendVars
      <3>1. CASE Open(s) \/ Refuse(s) \/ Register(s) \/ Unusable(s) \/ MarkRunning(s)
        BY <3>1 DEF Open, Refuse, Dismiss, Register, Unusable, MarkRunning
      <3>2. CASE Assign(s) \/ Reply(s)
        BY <3>2 DEF Assign, Reply
      <3>3. CASE BareCancel(s) \/ EndPump(s) \/ EndSession(s) \/ CloseSession(s) \/ Unregister(s)
        BY <3>3 DEF BareCancel, EndPump, EndSession, CloseSession, Unregister
      <3> QED  BY <1>5, <3>1, <3>2, <3>3 DEF StreamStep
    <2>5. \A t \in Streams : t # s => SendAt(t)'
      BY <2>3, <2>4 DEF SendInv, SendAt
    <2>6. SendAt(s)
      BY DEF SendInv
    <2> SUFFICES SendAt(s)'
      BY <2>5 DEF SendInv
    <2>7. CASE UNCHANGED <<mutex, inSend>> /\ spc[s] \notin {"assigning", "replying", "dismiss", "cancelling"}
      BY <2>3, <2>6, <2>7 DEF SendAt
    <2>8. CASE Assign(s) \/ Reply(s)
      <3>1. CASE EnterSend(s, s) /\ spc'[s] \in {"assigning", "replying"}
        <4>1. mutex[s] = None /\ mutex'[s] = s /\ inSend'[s] = inSend[s] \cup {s}
          BY <2>1, <3>1 DEF EnterSend, Takes
        <4>2. \A q \in inSend[s] : q # None
          BY <2>1, <2>2
        <4> QED  BY <2>6, <3>1, <4>1, <4>2 DEF SendAt
      <3>2. CASE LeaveSend(s, s) /\ spc[s] \in {"assigning", "replying"}
        <4>1. s \in inSend[s] /\ mutex[s] = s /\ inSend'[s] = inSend[s] \ {s}
          BY <2>1, <2>6, <3>2 DEF LeaveSend, SendAt
        <4>2. inSend'[s] = {}
          BY <2>6, <4>1 DEF SendAt
        <4> QED  BY <4>2 DEF SendAt
      <3> QED  BY <2>1, <2>8, <3>1, <3>2 DEF Assign, Reply, To
    <2>9. CASE BareCancel(s)
      <3>1. CASE inSend' = [inSend EXCEPT ![s] = @ \cup {s}] /\ UNCHANGED spc
        <4>1. spc[s] \in {"dismiss", "cancelling"} /\ inSend'[s] = inSend[s] \cup {s} /\ UNCHANGED mutex
          BY <2>1, <2>9, <3>1 DEF BareCancel
        <4> QED  BY <2>3, <2>6, <3>1, <4>1 DEF SendAt
      <3>2. CASE inSend' = [inSend EXCEPT ![s] = @ \ {s}]
        <4>1. inSend'[s] = inSend[s] \ {s} /\ UNCHANGED mutex
          BY <2>1, <2>9, <3>2 DEF BareCancel
        <4> QED  BY <2>3, <2>6, <4>1 DEF SendAt
      <3> QED  BY <2>9, <3>1, <3>2 DEF BareCancel
    <2>10. CASE Open(s) \/ Refuse(s) \/ Register(s) \/ Unusable(s) \/ MarkRunning(s)
      BY <2>7, <2>10 DEF Open, Refuse, Dismiss, Register, Unusable, MarkRunning, sendVars, To
    <2>11. CASE EndPump(s) \/ EndSession(s) \/ CloseSession(s) \/ Unregister(s)
      BY <2>7, <2>11 DEF EndPump, EndSession, CloseSession, Unregister, sendVars, To
    <2> QED  BY <1>5, <2>8, <2>9, <2>10, <2>11 DEF StreamStep
  <1> QED  BY <1>1, <1>2, <1>3, <1>4, <1>5, <1>6, NextCases

\* Two goroutines write to one stream at a time only while runTask sends its
\* bare cancel: its assignment and its pump's replies, the results of memory
\* calls that may outlive it, the API handlers and the shutdown are kept apart
\* (session.Send, sendCancel).
THEOREM SendsAreSerialized == Spec => []SendsSerialized
  <1>1. Init => SendInv /\ FreshInv
    BY DEF Init, SendInv, SendAt, FreshInv, Routers
  <1>2. TypeOK /\ SendInv /\ FreshInv /\ [Next]_vars => SendInv' /\ FreshInv'
    BY SendStep, FreshStep
  <1>3. SendInv => SendsSerialized
    BY DEF SendInv, SendAt, SendsSerialized
  <1> QED  BY <1>1, <1>2, <1>3, TypeHolds, PTL DEF Spec

-----------------------------------------------------------------------------
(***************************************************************************)
(* Sessions counted                                                        *)
(***************************************************************************)

\* A stream whose fate is not known yet.
Undecided == {"away", "open", "registered", "assigning"}

\* A stream that moves is counted if its fate becomes known.
LEMMA Counting ==
    ASSUME TypeOK, SessionsTally, NEW s \in Streams, NEW to \in Locations,
           spc' = [spc EXCEPT ![s] = to],
           \/ (spc[s] \in Undecided <=> to \in Undecided) /\ UNCHANGED counted
           \/ spc[s] \in Undecided /\ to \notin Undecided /\ Count(s)
    PROVE  \A t \in Streams : counted'[t] = IF spc'[t] \in Undecided THEN 0 ELSE 1
  <1>1. spc \in [Streams -> Locations] /\ counted \in [Streams -> Nat]
    BY DEF TypeOK
  <1>2. \A t \in Streams : counted[t] = IF spc[t] \in Undecided THEN 0 ELSE 1
    BY DEF SessionsTally, Undecided
  <1>3. CASE (spc[s] \in Undecided <=> to \in Undecided) /\ UNCHANGED counted
    BY <1>1, <1>2, <1>3
  <1>4. CASE spc[s] \in Undecided /\ to \notin Undecided /\ Count(s)
    BY <1>1, <1>2, <1>4 DEF Count
  <1> QED  BY <1>3, <1>4

\* The gauge follows a stream that moves.
LEMMA Gauging ==
    ASSUME TypeOK, FinitelyMany, SessionsTally, NEW s \in Streams, NEW to \in Locations,
           spc' = [spc EXCEPT ![s] = to],
           \/ (spc[s] \in Active <=> to \in Active) /\ UNCHANGED active
           \/ spc[s] \notin Active /\ to \in Active /\ SessionOpened
           \/ spc[s] \in Active /\ to \notin Active /\ SessionClosed
    PROVE  active' = Cardinality({t \in Streams : spc'[t] \in Active})
  <1> DEFINE Before == {t \in Streams : spc[t] \in Active}
             Now    == {t \in Streams : spc'[t] \in Active}
  <1>1. spc \in [Streams -> Locations]
    BY DEF TypeOK
  <1>2. IsFiniteSet(Before) /\ Cardinality(Before) \in Nat /\ active = Cardinality(Before)
    <2>1. Before \in SUBSET {t \in Streams : spc[t] # "away"}
      BY DEF Active
    <2>2. IsFiniteSet(Before)
      BY <2>1, FS_Subset DEF FinitelyMany
    <2> QED  BY <2>2, FS_CardinalityType DEF SessionsTally
  <1>3. CASE (spc[s] \in Active <=> to \in Active) /\ UNCHANGED active
    <2>1. Now = Before
      BY <1>1, <1>3
    <2> QED  BY <1>2, <1>3, <2>1
  <1>4. CASE spc[s] \notin Active /\ to \in Active /\ SessionOpened
    <2>1. Now = Before \cup {s} /\ s \notin Before
      BY <1>1, <1>4
    <2>2. Cardinality(Now) = Cardinality(Before) + 1
      BY <1>2, <2>1, FS_AddElement
    <2> QED  BY <1>2, <1>4, <2>2 DEF SessionOpened
  <1>5. CASE spc[s] \in Active /\ to \notin Active /\ SessionClosed
    <2>1. Now = Before \ {s} /\ s \in Before
      BY <1>1, <1>5
    <2> HIDE DEF Before, Now
    <2>2. Cardinality(Now) = Cardinality(Before) - 1
      BY <1>2, <2>1, FS_RemoveElement
    <2> QED  BY <1>2, <1>5, <2>2 DEF SessionClosed, Now
  <1> QED  BY <1>3, <1>4, <1>5

\* Each stream is counted when its fate is known, and not again; the gauge
\* goes up with SessionOpened and down with SessionClosed, on every way a
\* stream can end (runTask).
THEOREM SessionsAreTallied == Spec => []SessionsTally
  <1>1. Init => SessionsTally
    <2> SUFFICES ASSUME Init PROVE SessionsTally
      OBVIOUS
    <2>1. {s \in Streams : spc[s] \in Active} = {}
      BY DEF Init, Active
    <2> QED  BY <2>1, FS_EmptySet DEF Init, SessionsTally
  <1>2. TypeOK /\ FinitelyMany /\ SessionsTally /\ [Next]_vars => SessionsTally'
    <2> SUFFICES ASSUME TypeOK, FinitelyMany, SessionsTally, [Next]_vars PROVE SessionsTally'
      OBVIOUS
    <2>1. CASE UNCHANGED <<spc, counted, active>>
      BY <2>1 DEF SessionsTally
    <2>2. ASSUME NEW s \in Streams, NEW to \in Locations, spc' = [spc EXCEPT ![s] = to],
                 \/ (spc[s] \in Undecided <=> to \in Undecided) /\ UNCHANGED counted
                 \/ spc[s] \in Undecided /\ to \notin Undecided /\ Count(s),
                 \/ (spc[s] \in Active <=> to \in Active) /\ UNCHANGED active
                 \/ spc[s] \notin Active /\ to \in Active /\ SessionOpened
                 \/ spc[s] \in Active /\ to \notin Active /\ SessionClosed
          PROVE  SessionsTally'
      BY <2>2, Counting, Gauging DEF SessionsTally, Undecided
    <2>3. ASSUME NEW s \in Streams, StreamStep(s) PROVE SessionsTally'
      <3> USE DEF To, Active, Undecided, Locations, Registered
      <3>1. CASE Open(s)
        BY <2>2, <3>1 DEF Open
      <3>2. CASE Refuse(s)
        BY <2>2, <3>2 DEF Refuse, Dismiss
      <3>3. CASE Register(s)
        BY <2>2, <3>3 DEF Register
      <3>4. CASE Unusable(s)
        BY <2>2, <3>4 DEF Unusable
      <3>5. CASE MarkRunning(s) \/ EndPump(s)
        BY <2>2, <3>5 DEF MarkRunning, EndPump
      <3>6. CASE Reply(s)
        BY <2>2, <3>6 DEF Reply
      <3>7. CASE BareCancel(s)
        BY <2>1, <2>2, <3>7 DEF BareCancel
      <3>8. CASE Assign(s)
        BY <2>2, <3>8 DEF Assign
      <3>9. CASE EndSession(s)
        BY <2>2, <3>9 DEF EndSession
      <3>10. CASE CloseSession(s) \/ Unregister(s)
        BY <2>2, <3>10 DEF CloseSession, Unregister
      <3> QED  BY <2>3, <3>1, <3>2, <3>3, <3>4, <3>5, <3>6, <3>7, <3>8, <3>9, <3>10 DEF StreamStep
    <2>4. CASE MainStep
      BY <2>1, <2>4, MainStepFrame DEF streamVars
    <2>5. CASE CancelRuns \/ UNCHANGED vars
      BY <2>1, <2>5 DEF CancelRuns, vars, streamVars
    <2>6. CASE (\E m \in Workers : MemoryStep(m)) \/ (\E c \in Callers : CallerStep(c))
      BY <2>1, <2>6, MemoryFrame, CallerFrame DEF streamVars
    <2> QED  BY <2>3, <2>4, <2>5, <2>6, NextCases
  <1> QED  BY <1>1, <1>2, TypeHolds, PTL DEF Spec

-----------------------------------------------------------------------------
(***************************************************************************)
(* Every run is told to stop                                               *)
(***************************************************************************)

BootPhases == {"start", "telemetry", "store", "profiles", "launcher", "issuer", "wire"}
StopPhases == {"draining", "stopping", "launches", "memory"}

\* Start-up goes from part to part, to serving, or out.
LEMMA BootPhase ==
    ASSUME (\E f \in Flags, detected \in {"", "ns"} : Start(f, detected)) \/ Boot
    PROVE  /\ phase \in BootPhases /\ phase' \in BootPhases \cup {"serving", "unwinding", "exited"}
           /\ UNCHANGED endVars
           /\ phase' = "serving" \/ reaper' = reaper
  BY DEF Start, Boot, SetupTelemetry, ExporterFails, buildStore, LoadProfiles, buildLauncher,
         NewK8sFails, buildTokenIssuer, Wire, Built, Failed, BootPhases

\* A stream that is registered is found under the job it claims; its session
\* is open until runTask has closed it.
RegistryInv ==
    \A s \in Streams :
        /\ spc[s] \in Registered => registry[claim[s]] = s
        /\ s \in shut => spc[s] \in {"closed", "gone"}

\* While the shutdown sends its cancels, each registered stream was told, came
\* too late to be, is being told, or is still on the list.
ToldInv ==
    /\ phase = "cancelling" =>
          \A s \in Streams : spc[s] \in Registered =>
              s \in told \cup missed \cup unsent \/ claim[s] \in todo \/ target[Main] = s
    /\ RunsToldToStop

\* Register and Unregister keep the registry of the streams at work.
LEMMA RegistryStep ==
    ASSUME TypeOK, RegistryInv, [Next]_vars
    PROVE  RegistryInv'
  <1> USE ServerAssumption
  <1>1. CASE UNCHANGED <<spc, claim, registry, shut>>
    BY <1>1 DEF RegistryInv
  <1>2. CASE MainStep \/ CancelRuns \/ UNCHANGED vars
               \/ (\E c \in Callers : CallerStep(c)) \/ (\E m \in Workers : MemoryStep(m))
    BY <1>1, <1>2, MainStepFrame, CallerFrame, MemoryFrame DEF CancelRuns, vars, streamVars
  <1>3. ASSUME NEW s \in Streams, StreamStep(s) PROVE RegistryInv'
    <2>1. /\ spc \in [Streams -> Locations] /\ claim \in [Streams -> Jobs \cup {None}]
          /\ registry \in [Jobs -> Streams \cup {None}]
          /\ \A t \in Streams : spc[t] \in InProgress => claim[t] \in Jobs
      BY DEF TypeOK
    <2>2. Registered \subseteq InProgress /\ {"away", "open", "gone"} \cap Registered = {}
      BY DEF InProgress, Registered
    <2>3. ASSUME NEW to \in Registered \cup {"open"}, spc' = [spc EXCEPT ![s] = to],
                 registry' = registry, spc[s] \notin {"gone", "closed"},
                 shut' = IF to = "closed" THEN shut \cup {s} ELSE shut,
                 to \in Registered => UNCHANGED claim /\ spc[s] \in Registered,
                 \A t \in Streams : t # s => claim'[t] = claim[t]
          PROVE  RegistryInv'
      BY <2>1, <2>2, <2>3 DEF RegistryInv
    <2>4. CASE Open(s)
      <3>1. \A t \in Streams : t # s => claim'[t] = claim[t]
        BY <2>1, <2>4 DEF Open
      <3> QED  BY <2>2, <2>3, <2>4, <3>1 DEF Open, To
    <2>5. CASE Refuse(s)
      BY <2>1, <2>2, <2>5 DEF Refuse, Dismiss, To, RegistryInv
    <2>6. CASE Register(s)
      <3>1. /\ spc[s] = "open" /\ spc' = [spc EXCEPT ![s] = "registered"] /\ claim[s] \in Jobs
            /\ registry[claim[s]] = None /\ registry' = [registry EXCEPT ![claim[s]] = s]
            /\ UNCHANGED <<claim, shut>>
        BY <2>1, <2>6 DEF Register, To, InProgress
      <3>2. \A t \in Streams : spc[t] \in Registered => claim[t] # claim[s] /\ claim[t] \in Jobs
        BY <2>1, <2>2, <3>1 DEF RegistryInv
      <3> QED  BY <2>1, <2>2, <3>1, <3>2 DEF RegistryInv
    <2>7. CASE Unusable(s) \/ MarkRunning(s) \/ EndPump(s) \/ Assign(s)
      BY <2>3, <2>7 DEF Unusable, MarkRunning, EndPump, Assign, To, Registered
    <2>8. CASE BareCancel(s)
      BY <1>1, <2>3, <2>8 DEF BareCancel, To, Registered
    <2>9. CASE Reply(s) \/ EndSession(s) \/ CloseSession(s)
      BY <2>3, <2>9 DEF Reply, EndSession, CloseSession, To, Registered
    <2>10. CASE Unregister(s)
      <3>1. /\ spc[s] \in Registered /\ spc' = [spc EXCEPT ![s] = "gone"] /\ shut' = shut
            /\ registry' = [registry EXCEPT ![claim[s]] = IF @ = s THEN None ELSE @]
            /\ claim' = [claim EXCEPT ![s] = None]
        BY <2>10 DEF Unregister, To, Registered
      <3>2. \A t \in Streams : t # s /\ spc[t] \in Registered => claim[t] # claim[s] /\ claim[t] \in Jobs
        BY <2>1, <2>2, <3>1 DEF RegistryInv
      <3> QED  BY <2>1, <2>2, <3>1, <3>2 DEF RegistryInv
    <2> QED  BY <1>3, <2>4, <2>5, <2>6, <2>7, <2>8, <2>9, <2>10 DEF StreamStep
  <1> QED  BY <1>2, <1>3, NextCases

\* No step leaves a registered stream out.
LEMMA ToldStep ==
    ASSUME TypeOK, RegistryInv, ToldInv, [Next]_vars
    PROVE  ToldInv'
  <1> USE ServerAssumption DEF StopPhases
  <1>0. /\ spc \in [Streams -> Locations] /\ claim \in [Streams -> Jobs \cup {None}]
        /\ registry \in [Jobs -> Streams \cup {None}]
        /\ target \in [Routers -> Streams \cup {None}]
        /\ \A t \in Streams : spc[t] \in Registered => claim[t] \in Jobs
        /\ \A t \in Streams : t # None
        /\ Main \in Routers /\ Main \notin Workers /\ Main \notin Callers
    BY DEF TypeOK, InProgress, Routers
  <1> DEFINE Spoken(t) == t \in told \cup missed \cup unsent
             Pending(t) == claim[t] \in todo \/ target[Main] = t
  <1>1. \A t \in Streams : spc[t] \in Registered =>
            /\ phase = "cancelling" => Spoken(t) \/ Pending(t)
            /\ phase \in StopPhases => Spoken(t)
    BY DEF ToldInv, RunsToldToStop
  <1>2. ASSUME \A t \in Streams : spc'[t] \in Registered =>
                   /\ phase' = "cancelling" => Spoken(t)' \/ Pending(t)'
                   /\ phase' \in StopPhases => Spoken(t)'
        PROVE  ToldInv'
    BY <1>2 DEF ToldInv, RunsToldToStop
  <1>3. CASE MainStep
    <2>1. UNCHANGED <<spc, claim, registry, told, missed, unsent, target>>
      BY <1>3, MainStepFrame DEF streamVars, sendVars
    <2>2. CASE (\E f \in Flags, detected \in {"", "ns"} : Start(f, detected)) \/ Boot
      BY <1>2, <2>2, BootPhase DEF BootPhases
    <2>3. CASE Signal
      BY <1>0, <1>2, <2>1, <2>3 DEF Signal, Proceed, JobIDs, RegistryInv
    <2>4. CASE StartDrain
      BY <1>0, <1>1, <1>2, <2>1, <2>4 DEF StartDrain, Proceed, SentAll
    <2>5. CASE ListenError \/ WaitForMemoryCalls
      BY <1>2, <2>5 DEF ListenError, WaitForMemoryCalls, Proceed
    <2>6. CASE StopReaper
      BY <1>1, <1>2, <2>1, <2>6 DEF StopReaper, endVars
    <2>7. CASE Shutdown \/ WaitReaper \/ WaitForLaunches
      BY <1>1, <1>2, <2>1, <2>7 DEF Shutdown, WaitReaper, WaitForLaunches, Proceed
    <2>8. CASE Unwind
      BY <1>2, <2>8 DEF Unwind
    <2> QED  BY <1>3, <2>2, <2>3, <2>4, <2>5, <2>6, <2>7, <2>8 DEF MainStep
  <1>4. CASE UNCHANGED vars
    <2>1. UNCHANGED <<spc, claim, told, missed, unsent, target, todo, phase>>
      BY <1>4 DEF vars, streamVars, sendVars, endVars
    <2> QED  BY <1>1, <1>2, <2>1
  <1>5. CASE CancelRuns
    <2>1. UNCHANGED <<spc, claim, registry, missed, phase>> /\ phase = "cancelling"
      BY <1>5 DEF CancelRuns, streamVars
    <2>2. ASSUME NEW j \in todo, target[Main] = None, todo' = todo \ {j},
                 IF registry[j] = None THEN UNCHANGED sendVars ELSE Route(Main, j)
          PROVE  ToldInv'
      <3>1. \A t \in Streams : spc[t] \in Registered => Spoken(t) \/ claim[t] \in todo
        BY <1>0, <1>1, <2>1, <2>2
      <3>2. UNCHANGED <<told, unsent>>
        BY <2>2 DEF sendVars, Route
      <3>3. \A t \in Streams : spc[t] \in Registered /\ claim[t] = j => target'[Main] = t
        BY <1>0, <2>2 DEF Route, RegistryInv
      <3> QED  BY <1>2, <2>1, <2>2, <3>1, <3>2, <3>3
    <2>3. CASE Deliver(Main) /\ UNCHANGED todo
      <3>1. PICK s \in Streams : target[Main] = s /\
              \/ UNCHANGED <<target, told, unsent>>
              \/ told' = told \cup {s} /\ unsent' = unsent
              \/ told' = told /\ unsent' = unsent \cup {s}
        BY <2>3 DEF Deliver, Outcome, NotConnected
      <3>2. CASE UNCHANGED <<target, told, unsent>>
        BY <1>1, <1>2, <2>1, <2>3, <3>2
      <3>3. CASE (told' = told \cup {s} /\ unsent' = unsent) \/ (told' = told /\ unsent' = unsent \cup {s})
        <4>1. \A t \in Streams : Spoken(t) \/ t = s => Spoken(t)'
          BY <2>1, <3>3
        <4>2. \A t \in Streams : spc[t] \in Registered => Spoken(t) \/ t = s \/ claim[t] \in todo
          BY <1>1, <2>1, <3>1
        <4>3. \A t \in Streams : spc'[t] \in Registered => Spoken(t)' \/ claim'[t] \in todo'
          BY <2>1, <2>3, <4>1, <4>2
        <4> QED  BY <1>2, <2>1, <4>3
      <3> QED  BY <3>1, <3>2, <3>3
    <2> QED  BY <1>5, <2>2, <2>3 DEF CancelRuns
  <1>6. ASSUME UNCHANGED <<spc, claim, missed, todo, phase, told, unsent>>, target'[Main] = target[Main]
        PROVE  ToldInv'
    BY <1>1, <1>2, <1>6
  <1>8. ASSUME NEW p \in Routers, p # Main, Deliver(p) PROVE UNCHANGED <<told, unsent>> /\ target'[Main] = target[Main]
    <2>1. UNCHANGED <<told, unsent>>
      BY <1>8 DEF Deliver, Outcome, NotConnected
    <2>2. UNCHANGED target \/ target' = [target EXCEPT ![p] = None]
      BY <1>8 DEF Deliver
    <2> QED  BY <1>0, <1>8, <2>1, <2>2
  <1>9. ASSUME NEW c \in Callers, CallerStep(c) PROVE ToldInv'
    <2>1. UNCHANGED <<spc, claim, missed, todo, phase>> /\ c \in Routers /\ c # Main
      BY <1>0, <1>9, CallerFrame DEF streamVars, endVars, Routers
    <2>2. CASE Finish(c)
      BY <1>6, <1>8, <2>1, <2>2 DEF Finish
    <2>3. CASE Submit(c) \/ EndLaunch(c) \/ Call(c)
      <3>1. UNCHANGED <<told, unsent>> /\ target'[Main] = target[Main]
        BY <1>0, <2>1, <2>3 DEF Submit, EndLaunch, Call, Route, sendVars
      <3> QED  BY <1>6, <2>1, <3>1
    <2> QED  BY <1>9, <2>2, <2>3 DEF CallerStep
  <1>10. ASSUME NEW m \in Workers, MemoryStep(m) PROVE ToldInv'
    <2>1. UNCHANGED <<spc, claim, missed, todo, phase>> /\ m \in Routers /\ m # Main
      BY <1>0, <1>10, MemoryFrame DEF streamVars, endVars, Routers
    <2>2. CASE EndMemoryCall(m)
      BY <1>6, <1>8, <2>1, <2>2 DEF EndMemoryCall
    <2>3. CASE BackendAnswers(m)
      BY <1>6, <2>1, <2>3 DEF BackendAnswers, sendVars
    <2>4. ASSUME NEW s \in Streams, StartMemoryCall(s, m) PROVE ToldInv'
      <3>1. UNCHANGED <<told, unsent>> /\ target'[Main] = target[Main]
        BY <1>0, <2>1, <2>4 DEF StartMemoryCall
      <3> QED  BY <1>6, <2>1, <3>1
    <2> QED  BY <1>10, <2>2, <2>3, <2>4 DEF MemoryStep
  <1>7. ASSUME NEW s \in Streams, StreamStep(s) PROVE ToldInv'
    <2>1. UNCHANGED <<phase, todo, target>>
      BY <1>7, StreamFrame DEF endVars
    <2>2. \A t \in Streams : t # s =>
              /\ spc'[t] = spc[t] /\ claim'[t] = claim[t]
              /\ Spoken(t) => Spoken(t)'
      <3>1. CASE Open(s) \/ Refuse(s) \/ Register(s)
        BY <1>0, <3>1 DEF Open, Refuse, Dismiss, Register, sendVars, To
      <3>2. CASE Unusable(s) \/ Assign(s) \/ MarkRunning(s)
        BY <1>0, <3>2 DEF Unusable, Assign, MarkRunning, sendVars, To
      <3>3. CASE BareCancel(s) \/ Reply(s) \/ EndPump(s)
        BY <1>0, <3>3 DEF BareCancel, Reply, EndPump, sendVars, To
      <3>4. CASE EndSession(s) \/ CloseSession(s)
        BY <1>0, <3>4 DEF EndSession, CloseSession, sendVars, To
      <3>5. CASE Unregister(s)
        BY <1>0, <3>5 DEF Unregister, To
      <3> QED  BY <1>7, <3>1, <3>2, <3>3, <3>4, <3>5 DEF StreamStep
    <2>3. ASSUME spc'[s] \notin Registered PROVE ToldInv'
      BY <1>1, <1>2, <2>1, <2>2, <2>3
    <2>4. ASSUME spc[s] \in Registered, UNCHANGED <<claim, missed, told, unsent>> PROVE ToldInv'
      BY <1>1, <1>2, <2>1, <2>2, <2>4
    <2>5. CASE Open(s) \/ Refuse(s) \/ Unregister(s)
      BY <1>0, <2>3, <2>5 DEF Open, Refuse, Dismiss, Unregister, To, Registered
    <2>6. CASE Register(s)
      <3>1. phase \notin {"start", "serving"} => s \in missed'
        BY <2>6 DEF Register
      <3> QED  BY <1>1, <1>2, <2>1, <2>2, <3>1
    <2>7. CASE Unusable(s) \/ Assign(s) \/ MarkRunning(s) \/ BareCancel(s)
      BY <2>4, <2>7 DEF Unusable, Assign, MarkRunning, BareCancel, To, Registered, sendVars
    <2>8. CASE Reply(s) \/ EndPump(s) \/ EndSession(s) \/ CloseSession(s)
      BY <2>4, <2>8 DEF Reply, EndPump, EndSession, CloseSession, To, Registered, sendVars
    <2> QED  BY <1>7, <2>5, <2>6, <2>7, <2>8 DEF StreamStep
  <1> QED  BY <1>3, <1>4, <1>5, <1>7, <1>9, <1>10, NextCases

\* When the listener starts to drain, every harness registered at the signal
\* has left, has been sent its cancel, or is one for which that send failed and
\* was logged, however its own stream, other senders and the shutdown
\* interleave (serve, registry.JobIDs, registry.Send, session.Send).
THEOREM RunsAreToldToStop == Spec => []RunsToldToStop
  <1>1. Init => RegistryInv /\ ToldInv
    BY DEF Init, RegistryInv, ToldInv, RunsToldToStop, Registered
  <1>2. TypeOK /\ RegistryInv /\ [Next]_vars => RegistryInv'
    BY RegistryStep
  <1>3. TypeOK /\ RegistryInv /\ ToldInv /\ [Next]_vars => ToldInv'
    BY ToldStep
  <1>4. ToldInv => RunsToldToStop
    BY DEF ToldInv
  <1> QED  BY <1>1, <1>2, <1>3, <1>4, TypeHolds, PTL DEF Spec

-----------------------------------------------------------------------------
(***************************************************************************)
(* The store is closed last                                                *)
(***************************************************************************)

\* The stages of a shutdown, each from the point where one more kind of work
\* is over.
AfterDrain    == {"stopping", "launches", "memory", "unwinding", "exited"}
AfterReaper   == AfterDrain \ {"stopping"}
AfterLaunches == AfterReaper \ {"launches"}
AfterMemory   == AfterLaunches \ {"memory"}

\* What a shutdown that began with a signal has waited for by each stage.
DrainInv ==
    /\ ending = "signal" => phase \in AfterDrain \cup {"cancelling", "draining"}
    /\ ending = "signal" /\ phase \in AfterReaper => reaper = "stopped"
    /\ ending = "signal" /\ ~expired =>
          /\ phase \in AfterDrain => Drained
          /\ phase \in AfterLaunches => launches = {}
          /\ phase \in AfterMemory => InFlight = {}

\* Once every request is over and no more are taken, streams and callers stay
\* at rest, and no new launch or memory call begins.
LEMMA RestStays ==
    ASSUME TypeOK, [Next]_vars, Drained, ~Serving
    PROVE  /\ Drained'
           /\ launches' \subseteq launches
           /\ InFlight' \subseteq InFlight
  <1> USE ServerAssumption
  <1>0. /\ \A s \in Streams : spc[s] \notin InProgress /\ s # None
        /\ \A c \in Callers : c \notin calls /\ target[c] = None
        /\ target \in [Routers -> Streams \cup {None}]
        /\ memory \in [Workers -> {"none", "calling", "answering", "done"}]
        /\ Workers \subseteq Routers /\ Callers \subseteq Routers /\ Workers \cap Callers = {}
    BY DEF Drained, Streaming, TypeOK, Routers
  <1>1. ASSUME UNCHANGED <<spc, calls>>, \A c \in Callers : target'[c] = target[c] PROVE Drained'
    BY <1>0, <1>1 DEF Drained, Streaming
  <1>2. CASE MainStep \/ UNCHANGED vars
    <2>1. UNCHANGED <<spc, calls, target, launches, memory>>
      BY <1>2, MainStepFrame DEF vars, streamVars, sendVars, workVars
    <2> QED  BY <1>1, <2>1 DEF InFlight
  <1>3. CASE CancelRuns
    BY <1>3 DEF CancelRuns, Serving
  <1>4. ASSUME NEW s \in Streams, StreamStep(s) PROVE FALSE
    <2> USE <1>0 DEF To, InProgress, Registered, Serving
    <2>1. ~(Open(s) \/ Refuse(s) \/ Register(s) \/ Unusable(s) \/ Assign(s) \/ MarkRunning(s))
      BY DEF Open, Refuse, Dismiss, Register, Unusable, Assign, MarkRunning
    <2>2. ~(BareCancel(s) \/ Reply(s) \/ EndPump(s) \/ EndSession(s) \/ CloseSession(s) \/ Unregister(s))
      BY DEF BareCancel, Reply, EndPump, EndSession, CloseSession, Unregister
    <2> QED  BY <1>4, <2>1, <2>2 DEF StreamStep
  <1>5. ASSUME NEW m \in Workers, MemoryStep(m)
        PROVE  /\ UNCHANGED <<spc, calls, launches>>
               /\ \A c \in Callers : target'[c] = target[c]
               /\ InFlight' \subseteq InFlight
    <2>1. UNCHANGED <<spc, calls, launches>> /\ m \notin Callers
      BY <1>5, MemoryFrame DEF streamVars
    <2>2. \A s \in Streams : ~StartMemoryCall(s, m)
      BY <1>0 DEF StartMemoryCall, InProgress, Registered
    <2>3. CASE BackendAnswers(m)
      BY <1>0, <2>1, <2>3 DEF BackendAnswers, InFlight, sendVars
    <2>4. CASE EndMemoryCall(m)
      <3>1. UNCHANGED target \/ target' = [target EXCEPT ![m] = None]
        BY <2>4 DEF EndMemoryCall, Deliver
      <3>2. InFlight' \subseteq InFlight
        BY <1>0, <2>4 DEF EndMemoryCall, InFlight
      <3> QED  BY <1>0, <2>1, <3>1, <3>2
    <2> QED  BY <1>5, <2>2, <2>3, <2>4 DEF MemoryStep
  <1>6. ASSUME NEW c \in Callers, CallerStep(c)
        PROVE  UNCHANGED <<spc, calls, target, memory>> /\ launches' \subseteq launches
    <2>1. ~Submit(c) /\ ~Call(c) /\ ~Finish(c)
      BY <1>0 DEF Submit, Call, Finish, Idle, Deliver
    <2> QED  BY <1>6, <2>1 DEF CallerStep, EndLaunch, streamVars, sendVars
  <1>7. (\E c \in Callers : CallerStep(c)) => Drained' /\ launches' \subseteq launches /\ InFlight' \subseteq InFlight
    BY <1>1, <1>6 DEF InFlight
  <1> QED  BY <1>1, <1>2, <1>3, <1>4, <1>5, <1>7, NextCases

\* Each stage of the shutdown is entered when its wait is over.
LEMMA DrainStep ==
    ASSUME TypeOK, DrainInv, [Next]_vars
    PROVE  DrainInv'
  <1> USE DEF AfterDrain, AfterReaper, AfterLaunches, AfterMemory
  <1>1. phase \in AfterDrain => ~Serving
    BY DEF Serving
  <1>2. ASSUME UNCHANGED <<phase, ending, expired>>, reaper' = reaper \/ reaper' = "stopped"
        PROVE  DrainInv'
    <2>1. CASE ending = "signal" /\ ~expired /\ phase \in AfterDrain
      <3>1. Drained
        BY <2>1 DEF DrainInv
      <3>2. /\ Drained' /\ launches' \subseteq launches
            /\ InFlight' \subseteq InFlight
        BY <1>1, <2>1, <3>1, RestStays
      <3>3. phase \in AfterLaunches => launches' = {}
        BY <2>1, <3>2 DEF DrainInv
      <3>4. phase \in AfterMemory => InFlight' = {}
        BY <2>1, <3>2 DEF DrainInv
      <3> QED  BY <1>2, <2>1, <3>2, <3>3, <3>4 DEF DrainInv
    <2>2. CASE ~(ending = "signal" /\ ~expired /\ phase \in AfterDrain)
      BY <1>2, <2>2 DEF DrainInv
    <2> QED  BY <2>1, <2>2
  <1>3. CASE MainStep
    <2>1. /\ launches' = launches /\ InFlight' = InFlight /\ Drained' = Drained
      BY <1>3, MainStepFrame DEF streamVars, sendVars, workVars, Drained, Streaming, InFlight
    <2>2. CASE (\E f \in Flags, detected \in {"", "ns"} : Start(f, detected)) \/ Boot
      <3>1. ending' # "signal"
        BY <2>2, BootPhase DEF BootPhases, endVars, DrainInv
      <3> QED  BY <3>1 DEF DrainInv
    <2>3. CASE Signal
      BY <2>3 DEF Signal, Proceed, DrainInv
    <2>4. CASE ListenError
      BY <2>4 DEF ListenError, DrainInv
    <2>5. CASE StopReaper
      BY <1>2, <2>5 DEF StopReaper, endVars
    <2>6. CASE StartDrain
      BY <2>6 DEF StartDrain, Proceed, endVars, DrainInv
    <2>7. CASE Shutdown
      BY <2>1, <2>7 DEF Shutdown, Proceed, DrainInv
    <2>8. CASE WaitReaper
      BY <2>1, <2>8 DEF WaitReaper, Proceed, bootVars, endVars, DrainInv
    <2>9. CASE WaitForLaunches
      BY <2>1, <2>9 DEF WaitForLaunches, Proceed, bootVars, endVars, DrainInv
    <2>10. CASE WaitForMemoryCalls
      BY <2>1, <2>10 DEF WaitForMemoryCalls, Proceed, bootVars, endVars, DrainInv
    <2>11. CASE Unwind
      BY <2>1, <2>11 DEF Unwind, endVars, DrainInv
    <2> QED  BY <1>3, <2>2, <2>3, <2>4, <2>5, <2>6, <2>7, <2>8, <2>9, <2>10, <2>11 DEF MainStep
  <1>4. CASE CancelRuns \/ UNCHANGED vars
    BY <1>2, <1>4 DEF CancelRuns, vars, bootVars, endVars
  <1>5. CASE (\E s \in Streams : StreamStep(s)) \/ (\E m \in Workers : MemoryStep(m))
               \/ (\E c \in Callers : CallerStep(c))
    BY <1>2, <1>5, StreamFrame, MemoryFrame, CallerFrame DEF bootVars, endVars
  <1> QED  BY <1>3, <1>4, <1>5, NextCases

\* After a signal the store is closed when the reaper has stopped and, unless
\* the grace ran out, no request, launch or memory call is left to use it
\* (the order of the waits and of the deferred calls in serve).
THEOREM StoreIsClosedLast == Spec => []StoreClosedLast
  <1>1. Init => DrainInv
    BY DEF Init, DrainInv
  <1>2. TypeOK /\ DrainInv /\ [Next]_vars => DrainInv'
    BY DrainStep
  <1>3. DrainInv => StoreClosedLast
    BY DEF DrainInv, StoreClosedLast, StoreClosed, AfterDrain, AfterReaper, AfterLaunches, AfterMemory
  <1> QED  BY <1>1, <1>2, <1>3, TypeHolds, PTL DEF Spec

-----------------------------------------------------------------------------
(***************************************************************************)
(* Start-up                                                                *)
(***************************************************************************)

\* From the parsed flags to the wired server, the configuration at hand is one
\* that Validate let through.
BuildPhases == BootPhases \ {"start"}

ConfigInv ==
    /\ phase \in BuildPhases => TokenValid(cfg)
    /\ ValidatedBuilds

\* What parseServeFlags returns, if anything, passed Validate.
LEMMA ParsedIsValid ==
    ASSUME NEW f, NEW detected, parseServeFlags(f, detected) # NoConfig
    PROVE  TokenValid(parseServeFlags(f, detected))
  <1> DEFINE c == Normalised(WithNamespace(f, detected))
  <1>1. parseServeFlags(f, detected) = c /\ Validate(c)
    BY DEF parseServeFlags
  <1> QED  BY <1>1 DEF Validate

\* A part that is built or fails keeps the configuration.
LEMMA ConfigStep ==
    ASSUME ConfigInv, [Next]_vars
    PROVE  ConfigInv'
  <1> USE DEF BuildPhases, BootPhases
  <1>1. ASSUME NEW f, NEW detected, Start(f, detected) PROVE ConfigInv'
    BY <1>1, ParsedIsValid DEF Start, ConfigInv, ValidatedBuilds
  <1>2. CASE Boot
    <2>1. ASSUME NEW part \in BuildPhases, NEW deferred, NEW to, Built(part, deferred, to) PROVE ConfigInv'
      BY <2>1 DEF Built, ConfigInv, ValidatedBuilds
    <2>2. ASSUME NEW part, NEW why, Failed(part, why),
                 why # "issuer settings"
          PROVE  ConfigInv'
      BY <2>2 DEF Failed, ConfigInv, ValidatedBuilds
    <2>3. CASE SetupTelemetry
      BY <2>1, <2>2, <2>3 DEF SetupTelemetry, ExporterFails
    <2>4. CASE buildStore
      BY <2>1, <2>2, <2>4 DEF buildStore
    <2>5. CASE LoadProfiles
      BY <2>1, <2>2, <2>5 DEF LoadProfiles
    <2>6. CASE buildLauncher
      BY <2>1, <2>2, <2>6 DEF buildLauncher, NewK8sFails
    <2>7. CASE buildTokenIssuer
      <3>1. cfg.keyPath # "" => IssuerArgsOK(cfg)
        BY <2>7 DEF buildTokenIssuer, ConfigInv, TokenValid, IssuerArgsOK
      <3> QED  BY <2>1, <2>2, <2>7, <3>1 DEF buildTokenIssuer
    <2>8. CASE Wire
      <3>1. CASE phase' = "serving" /\ UNCHANGED failure
        BY <3>1 DEF ConfigInv, ValidatedBuilds
      <3> QED  BY <2>2, <2>8, <3>1 DEF Wire
    <2> QED  BY <1>2, <2>3, <2>4, <2>5, <2>6, <2>7, <2>8 DEF Boot
  <1>3. ASSUME UNCHANGED failure, (phase' = phase /\ cfg' = cfg) \/ phase' \notin BuildPhases PROVE ConfigInv'
    BY <1>3 DEF ConfigInv, ValidatedBuilds
  <1>4. CASE Signal \/ ListenError \/ StopReaper \/ StartDrain \/ Shutdown \/ WaitReaper
               \/ WaitForLaunches \/ WaitForMemoryCalls \/ Unwind
    BY <1>3, <1>4 DEF Signal, ListenError, StopReaper, StartDrain, Shutdown, WaitReaper,
                      WaitForLaunches, WaitForMemoryCalls, Unwind, Proceed, bootVars
  <1>5. CASE CancelRuns \/ UNCHANGED vars
    BY <1>3, <1>5 DEF CancelRuns, vars, bootVars
  <1>6. CASE (\E s \in Streams : StreamStep(s)) \/ (\E m \in Workers : MemoryStep(m))
               \/ (\E c \in Callers : CallerStep(c))
    BY <1>3, <1>6, StreamFrame, MemoryFrame, CallerFrame DEF bootVars
  <1> QED  BY <1>1, <1>2, <1>4, <1>5, <1>6, NextCases DEF MainStep

\* Whatever the command line, the checks of issuer, audience and TTL that
\* tokenissuer.New repeats never fail: Config.Validate has made them.
THEOREM ValidatedFlagsBuild == Spec => []ValidatedBuilds
  <1>1. Init => ConfigInv
    BY DEF Init, ConfigInv, ValidatedBuilds, BuildPhases
  <1>2. ConfigInv /\ [Next]_vars => ConfigInv'
    BY ConfigStep
  <1>3. ConfigInv => ValidatedBuilds
    BY DEF ConfigInv
  <1> QED  BY <1>1, <1>2, <1>3, PTL DEF Spec

=============================================================================
