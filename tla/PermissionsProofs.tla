------------------------- MODULE PermissionsProofs -------------------------
(***************************************************************************)
(* Proofs about Permissions, for any number of operators and requests, any *)
(* cap on recorded requests and any number of failing store calls.         *)
(***************************************************************************)
EXTENDS Permissions, TLAPS

USE DEF Decisions

-----------------------------------------------------------------------------
(***************************************************************************)
(* Types                                                                   *)
(***************************************************************************)

\* Every variable keeps its type, whatever the operators, the pump and the
\* store do: no call leaves an operator half busy, and seen never passes the
\* cap of putPermission.
THEOREM TypeCorrect == Spec => []TypeOK
  <1> USE PermissionsAssumption
  <1>1. Init => TypeOK
    BY DEF Init, TypeOK
  <1>2. TypeOK /\ [Next]_vars => TypeOK'
    <2> SUFFICES ASSUME TypeOK, [Next]_vars PROVE TypeOK'
      OBVIOUS
    <2> USE DEF TypeOK
    <2>1. ASSUME NEW r \in Requests, PutPermission(r) PROVE TypeOK'
      BY <2>1 DEF PutPermission, Room, operatorVars
    <2>2. CASE StreamEnds
      BY <2>2 DEF StreamEnds, operatorVars
    <2>3. ASSUME NEW o \in Operators, NEW r \in Requests, NEW decision \in Decisions,
                 Get(o, r, decision)
          PROVE  TypeOK'
      BY <2>3 DEF Get, Goto
    <2>4. ASSUME NEW o \in Operators, Put(o) PROVE TypeOK'
      <3>1. Recorded(o) \in [Requests -> Decisions \cup {"none", "pending"}]
        BY DEF Recorded
      <3> QED  BY <2>4, <3>1 DEF Put, Goto, Return
    <2>5. ASSUME NEW o \in Operators, Send(o) PROVE TypeOK'
      BY <2>5 DEF Send, Hear, Goto, Return
    <2>6. ASSUME NEW o \in Operators, Revert(o) PROVE TypeOK'
      BY <2>6 DEF Revert, RevertWrite, Goto, Return
    <2>7. CASE UNCHANGED vars
      BY <2>7 DEF vars, operatorVars
    <2> QED  BY <2>1, <2>2, <2>3, <2>4, <2>5, <2>6, <2>7 DEF Next
  <1> QED  BY <1>1, <1>2, PTL DEF Spec

-----------------------------------------------------------------------------
(***************************************************************************)
(* A lone answer                                                           *)
(***************************************************************************)

\* What is asked for first: nothing is known of a request before the harness
\* has made it.
AskedFirst ==
    \A r \in Requests : r \notin asked =>
        /\ perm[r] = "none" /\ acted[r] = "none"
        /\ \A o \in Operators : req[o] # r

\* The life of a request no two operators have answered at once: one operator
\* at most is at it; until its answer is delivered the harness has not acted,
\* and the record is the pending one, or the answer to be delivered; once
\* nobody is at it, the record is what the harness acted on.
LoneAnswer ==
    \A r \in Requests \ contended :
        /\ \A o, q \in Operators : req[o] = r /\ req[q] = r => o = q
        /\ \A o \in Operators : req[o] = r =>
              /\ acted[r] = "none"
              /\ answer[o] \in Decisions
              /\ pc[o] = "put" => perm[r] = "pending"
              /\ pc[o] # "put" => perm[r] = answer[o]
        /\ (\A o \in Operators : req[o] # r) /\ acted[r] # "none" => perm[r] = acted[r]

\* A decision the harness acted on stays the one on record for every request
\* that no two operators answer at once, with any number of operators, failed
\* store calls and broken streams (Service.AnswerPermission).
THEOREM LoneDecisionsStand == Spec => []LoneDecisionOnRecord
  <1> USE PermissionsAssumption
  <1>1. Init => AskedFirst /\ LoneAnswer
    BY DEF Init, AskedFirst, LoneAnswer
  <1>2. TypeOK /\ AskedFirst /\ LoneAnswer /\ [Next]_vars => AskedFirst' /\ LoneAnswer'
    <2> SUFFICES ASSUME TypeOK, AskedFirst, LoneAnswer, [Next]_vars
                 PROVE  AskedFirst' /\ LoneAnswer'
      OBVIOUS
    <2> USE DEF TypeOK, AskedFirst, LoneAnswer
    <2>1. ASSUME NEW r \in Requests, PutPermission(r) PROVE AskedFirst' /\ LoneAnswer'
      BY <2>1 DEF PutPermission, Room, operatorVars
    <2>2. CASE StreamEnds
      BY <2>2 DEF StreamEnds, operatorVars
    <2>3. ASSUME NEW o \in Operators, NEW r \in Requests, NEW decision \in Decisions,
                 Get(o, r, decision)
          PROVE  AskedFirst' /\ LoneAnswer'
      <3>1. req[o] = None /\ perm[r] = "pending"
        BY <2>3 DEF Get, Answerable
      <3> QED  BY <2>3, <3>1 DEF Get, Goto
    <2>4. ASSUME NEW o \in Operators, Put(o) PROVE AskedFirst' /\ LoneAnswer'
      <3>1. Recorded(o) = [perm EXCEPT ![req[o]] = answer[o]] /\ req[o] \in Requests
        BY <2>4 DEF Recorded, Put
      <3>2. CASE Goto(o, "send") /\ perm' = Recorded(o) /\ UNCHANGED <<req, answer, faults>>
        BY <2>4, <3>1, <3>2 DEF Put, Goto
      <3>3. CASE Return(o) /\ perm' \in {perm, Recorded(o)}
        BY <2>4, <3>1, <3>3 DEF Put, Goto, Return
      <3> QED  BY <2>4, <3>2, <3>3 DEF Put
    <2>5. ASSUME NEW o \in Operators, Send(o) PROVE AskedFirst' /\ LoneAnswer'
      BY <2>5 DEF Send, Hear, Goto, Return
    <2>6. ASSUME NEW o \in Operators, Revert(o) PROVE AskedFirst' /\ LoneAnswer'
      BY <2>6 DEF Revert, RevertWrite, Goto, Return
    <2>7. CASE UNCHANGED vars
      BY <2>7 DEF vars, operatorVars
    <2> QED  BY <2>1, <2>2, <2>3, <2>4, <2>5, <2>6, <2>7 DEF Next
  <1>3. TypeOK /\ LoneAnswer => LoneDecisionOnRecord
    BY DEF TypeOK, LoneAnswer, LoneDecisionOnRecord, Quiet
  <1> QED  BY <1>1, <1>2, <1>3, TypeCorrect, PTL DEF Spec

-----------------------------------------------------------------------------
(***************************************************************************)
(* A recorded answer was delivered                                         *)
(***************************************************************************)

\* Until a store call fails, whatever is on record as decided is what some
\* operator is about to deliver or to take back, or was acted on.
DeliveredOrInHand ==
    faults = 0 => \A r \in Requests : perm[r] \in Decisions =>
        \/ acted[r] # "none"
        \/ \E o \in Operators : req[o] = r /\ pc[o] \in {"send", "revert"}

\* An operator that is answering has a decision to deliver.
DecisionInHand == \A o \in Operators : pc[o] # "idle" => answer[o] \in Decisions

\* While no store call fails, a request on record as answered was answered:
\* the compensating PutPermission takes back every delivery that failed, also
\* when several operators answer the same request.
THEOREM RecordedIsDelivered == Spec => []RecordedWasDelivered
  <1> USE PermissionsAssumption
  <1>1. Init => DeliveredOrInHand /\ DecisionInHand
    BY DEF Init, DeliveredOrInHand, DecisionInHand
  <1>2. TypeOK /\ DecisionInHand /\ [Next]_vars => DecisionInHand'
    BY DEF TypeOK, DecisionInHand, Next, vars, operatorVars, PutPermission, StreamEnds, Get, Put,
           Send, Revert, Goto, Return
  <1>3. TypeOK /\ DecisionInHand /\ DeliveredOrInHand /\ [Next]_vars => DeliveredOrInHand'
    <2> SUFFICES ASSUME TypeOK, DecisionInHand, DeliveredOrInHand, [Next]_vars, faults' = 0
                 PROVE  DeliveredOrInHand'
      BY DEF DeliveredOrInHand
    <2> USE DEF TypeOK, DecisionInHand, DeliveredOrInHand
    <2>1. ASSUME NEW r \in Requests, PutPermission(r) PROVE DeliveredOrInHand'
      BY <2>1 DEF PutPermission, Room, operatorVars
    <2>2. CASE StreamEnds
      BY <2>2 DEF StreamEnds, operatorVars
    <2>3. ASSUME NEW o \in Operators, NEW r \in Requests, NEW decision \in Decisions,
                 Get(o, r, decision)
          PROVE  DeliveredOrInHand'
      BY <2>3 DEF Get, Goto
    <2>4. ASSUME NEW o \in Operators, Put(o) PROVE DeliveredOrInHand'
      BY <2>4 DEF Put, Recorded, Goto, Return
    <2>5. ASSUME NEW o \in Operators, Send(o) PROVE DeliveredOrInHand'
      BY <2>5 DEF Send, Hear, Goto, Return
    <2>6. ASSUME NEW o \in Operators, Revert(o) PROVE DeliveredOrInHand'
      BY <2>6 DEF Revert, RevertWrite, Goto, Return
    <2>7. CASE UNCHANGED vars
      BY <2>7 DEF vars, operatorVars
    <2> QED  BY <2>1, <2>2, <2>3, <2>4, <2>5, <2>6, <2>7 DEF Next
  <1>4. TypeOK /\ DeliveredOrInHand => RecordedWasDelivered
    BY DEF TypeOK, DeliveredOrInHand, RecordedWasDelivered, Quiet
  <1> QED  BY <1>1, <1>2, <1>3, <1>4, TypeCorrect, PTL DEF Spec

=============================================================================
