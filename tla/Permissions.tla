---------------------------- MODULE Permissions ----------------------------
(***************************************************************************)
(* Permission requests of one run: the event pump records them, operators  *)
(* answer them through Service.AnswerPermission, the answer travels over   *)
(* the harness stream.  The four calls of an answer (GetPermission,        *)
(* PutPermission, registry.Send, and the reverting PutPermission) are      *)
(* steps of their own, so two operators interleave between any two.        *)
(*                                                                         *)
(* The harness acts on the first answer to a request and ignores the       *)
(* others (it also denies by itself after its own timeout, which it does   *)
(* not report and which is left out).                                      *)
(*                                                                         *)
(* A definition directly above another one with the same parameters is a   *)
(* faulty variant of it: PROJECT.json names the property that tells the    *)
(* two apart.                                                              *)
(***************************************************************************)
EXTENDS Naturals

CONSTANTS
    Operators,      \* concurrent AnswerPermission calls
    Requests,       \* request ids
    None,           \* no request
    MaxPermissionRequests,  \* recorded requests of one run (1000 in the code)
    MaxFaults       \* bound on failed store calls

ASSUME PermissionsAssumption ==
    /\ None \notin Requests
    /\ MaxPermissionRequests \in Nat
    /\ MaxFaults \in Nat

Decisions == {"allowed", "denied"}

VARIABLES
    perm,       \* recorded state of each request; "none" when absent
    asked,      \* requests the harness has made
    seen,       \* permissionsSeen
    acted,      \* the decision the harness acted on, "none" before
    open,       \* the stream's session is registered and not closed
    pc,         \* operator: "idle", "put", "send", "revert"
    req,        \* the request an operator answers
    answer,     \* its decision
    contended,  \* requests taken up while another operator was answering them
    faults

operatorVars == <<pc, req, answer, contended>>
vars == <<perm, asked, seen, acted, open, operatorVars, faults>>

Init ==
    /\ perm = [r \in Requests |-> "none"]
    /\ asked = {} /\ seen = 0
    /\ acted = [r \in Requests |-> "none"]
    /\ open = TRUE
    /\ pc = [o \in Operators |-> "idle"]
    /\ req = [o \in Operators |-> None]
    /\ answer = [o \in Operators |-> "none"]
    /\ contended = {}
    /\ faults = 0

Goto(o, site) == pc' = [pc EXCEPT ![o] = site]

\* The answer is over, with or without success.
Return(o) ==
    /\ Goto(o, "idle")
    /\ req' = [req EXCEPT ![o] = None]
    /\ answer' = [answer EXCEPT ![o] = "none"]

-----------------------------------------------------------------------------
(***************************************************************************)
(* The pump                                                                *)
(***************************************************************************)

\* putPermission finds room under the cap.
Room == seen < MaxPermissionRequests

\* A permission_request arrives; harness ids are not reused.  Above the cap,
\* or when PutPermission fails, it is not recorded.
PutPermission(r) ==
    /\ open /\ r \notin asked
    /\ asked' = asked \cup {r}
    /\ \/ /\ Room
          /\ seen' = seen + 1
          /\ perm' = [perm EXCEPT ![r] = "pending"]
          /\ UNCHANGED faults
       \/ /\ Room /\ faults < MaxFaults
          /\ seen' = seen + 1
          /\ faults' = faults + 1
          /\ UNCHANGED perm
       \/ /\ ~Room
          /\ UNCHANGED <<seen, perm, faults>>
    /\ UNCHANGED <<acted, open, operatorVars>>

\* The stream ends: sess.close() and Unregister.
StreamEnds ==
    /\ open /\ open' = FALSE
    /\ UNCHANGED <<perm, asked, seen, acted, operatorVars, faults>>

-----------------------------------------------------------------------------
(***************************************************************************)
(* Service.AnswerPermission                                                *)
(***************************************************************************)

\* GetPermission.  Only a request that is pending can be answered.
AnswerableAlways(r) == perm[r] # "none"
Answerable(r) == perm[r] = "pending"

Get(o, r, decision) ==
    /\ pc[o] = "idle" /\ Answerable(r)
    /\ req' = [req EXCEPT ![o] = r]
    /\ answer' = [answer EXCEPT ![o] = decision]
    /\ contended' = IF \E q \in Operators : req[q] = r THEN contended \cup {r} ELSE contended
    /\ Goto(o, "put")
    /\ UNCHANGED <<perm, asked, seen, acted, open, faults>>

\* store.PutPermission of the answer: the whole hash is written.
Recorded(o) == [perm EXCEPT ![req[o]] = answer[o]]

\* The answer is recorded before it is sent.  A failing call may have
\* landed; the operator gets an error and nothing is sent.
Put(o) ==
    /\ pc[o] = "put"
    /\ \/ /\ perm' = Recorded(o)
          /\ Goto(o, "send")
          /\ UNCHANGED <<req, answer, faults>>
       \/ /\ faults < MaxFaults /\ faults' = faults + 1
          /\ perm' \in {perm, Recorded(o)}
          /\ Return(o)
    /\ UNCHANGED <<asked, seen, acted, open, contended>>

\* What the harness does with an answer that reaches it.
Hear(r, decision) == acted' = [acted EXCEPT ![r] = IF @ = "none" THEN decision ELSE @]

\* registry.Send: to a live session it succeeds, or the write fails and the
\* harness has not got it; without one it is ErrNotConnected.
Send(o) ==
    /\ pc[o] = "send"
    /\ \/ open /\ Hear(req[o], answer[o]) /\ Return(o)
       \/ UNCHANGED <<acted, req, answer>> /\ Goto(o, "revert")
    /\ UNCHANGED <<perm, asked, seen, open, contended, faults>>

\* The record goes back to the copy read by GetPermission, which was pending.
RevertKeeps(o) == perm' = perm
RevertWrite(o) == perm' = [perm EXCEPT ![req[o]] = "pending"]

Revert(o) ==
    /\ pc[o] = "revert"
    /\ \/ RevertWrite(o) /\ UNCHANGED faults
       \/ /\ faults < MaxFaults /\ faults' = faults + 1
          /\ UNCHANGED perm
    /\ Return(o)
    /\ UNCHANGED <<asked, seen, acted, open, contended>>

Next ==
    \/ \E r \in Requests : PutPermission(r)
    \/ StreamEnds
    \/ \E o \in Operators :
          \/ \E r \in Requests, decision \in Decisions : Get(o, r, decision)
          \/ Put(o) \/ Send(o) \/ Revert(o)

Spec == Init /\ [][Next]_vars

-----------------------------------------------------------------------------
(***************************************************************************)
(* Properties                                                              *)
(***************************************************************************)

\* Every variable has its type, the table of requests respects its cap, and
\* an operator is busy exactly with a request.
TypeOK ==
    /\ perm \in [Requests -> Decisions \cup {"none", "pending"}]
    /\ asked \in SUBSET Requests
    /\ seen \in 0 .. MaxPermissionRequests
    /\ acted \in [Requests -> Decisions \cup {"none"}]
    /\ open \in BOOLEAN
    /\ pc \in [Operators -> {"idle", "put", "send", "revert"}]
    /\ req \in [Operators -> Requests \cup {None}]
    /\ answer \in [Operators -> Decisions \cup {"none"}]
    /\ contended \in SUBSET Requests
    /\ \A o \in Operators : (pc[o] = "idle") <=> (req[o] = None)
    /\ faults \in 0 .. MaxFaults

\* Nobody is between recording an answer to r and knowing its fate.
Quiet(r) == \A o \in Operators : req[o] # r \/ pc[o] = "put"

\* An answer that took effect in the harness is the one on record, and the
\* request does not look answerable again.
DecisionOnRecord == \A r \in Requests : acted[r] # "none" /\ Quiet(r) => perm[r] = acted[r]

\* The same for requests that no two operators answered at once, whatever
\* calls fail: overlapping answers are the only way to lose it.
LoneDecisionOnRecord ==
    \A r \in Requests \ contended : acted[r] # "none" /\ Quiet(r) => perm[r] = acted[r]

\* While no store call fails, a request on record as answered was answered:
\* a delivery that failed has been reverted.
RecordedWasDelivered ==
    faults = 0 => \A r \in Requests : perm[r] \in Decisions /\ Quiet(r) => acted[r] # "none"

=============================================================================
