------------------------- MODULE ControlPlaneProofs -------------------------
(***************************************************************************)
(* TLAPS proofs about AgentApprovals, for any number of requests, tokens,  *)
(* rotations, decisions and restarts, and Billing, for any number of       *)
(* invoices, events, deliveries and requests.                              *)
(***************************************************************************)
EXTENDS AgentApprovals, Billing, FiniteSetTheorems, TLAPS

-----------------------------------------------------------------------------
(* AgentApprovals.                                                         *)

\* r has won the right to run: its operation is about to run or has run.
Holds(r) == pc[r] = "execute" \/ r \in executed

\* Approval rows: created by their request's last step, approved by a manager.
ApprovalInv ==
    \A a \in Requests :
        /\ pc[a] \in {"idle", "gate"} => status[a] = "none"
        /\ status[a] \in {"approved", "consumed"} => a \in granted

\* Requests: what they were admitted on stays true, and they run at the end.
RequestInv ==
    \A r \in Requests :
        /\ r \in executed => pc[r] = "done"
        /\ shown[r] # None => shown[r] \in Requests /\ status[shown[r]] # "none"
        /\ pc[r] = "mark" \/ Holds(r) =>
              /\ shown[r] \in granted
              /\ owner[shown[r]] = bearer[r]
              /\ Operation[shown[r]] = Operation[r]

\* An approval held by a request is consumed, and held by it alone.
HolderInv ==
    /\ \A r \in Requests : Holds(r) => shown[r] \in Requests /\ status[shown[r]] = "consumed"
    /\ \A r, q \in Requests : Holds(r) /\ Holds(q) /\ shown[r] = shown[q] => r = q

\* A decision under way has a row to decide on.
DecisionInv ==
    \A d \in Decisions : dpc[d] \in {"decide", "expire"} =>
        /\ subject[d] \in Requests
        /\ status[subject[d]] # "none"
        /\ choice[d] \in {"approved", "rejected"}

Inv == TypeOK /\ ApprovalInv /\ RequestInv /\ HolderInv /\ DecisionInv

LEMMA InitInv == Init => Inv
<1> USE ConstantsAssumption
<1> SUFFICES ASSUME Init PROVE Inv
  OBVIOUS
<1>1. TypeOK
  BY DEF Init, TypeOK, Tokens, ApprovalStatus
<1>2. ApprovalInv /\ RequestInv /\ HolderInv /\ DecisionInv
  BY DEF Init, ApprovalInv, RequestInv, HolderInv, DecisionInv, Holds
<1> QED
  BY <1>1, <1>2 DEF Inv

-----------------------------------------------------------------------------
(* Type correctness, step by step.                                         *)

LEMMA TransitionType ==
    ASSUME TypeOK, NEW a, NEW from, NEW to \in ApprovalStatus, Transition(a, from, to)
    PROVE  status' \in [Requests -> ApprovalStatus \cup {"none"}]
BY DEF TypeOK, Transition

LEMMA RequestType ==
    ASSUME TypeOK, NEW r \in Requests, Verify(r) \/ RequestStep(r)
    PROVE  TypeOK'
<1> USE DEF TypeOK, Goto, approvals, decisions, rotations
<1>1. CASE Verify(r)
  BY <1>1 DEF Verify
<1>2. CASE RequestApproval(r)
  BY <1>2 DEF RequestApproval, ApprovalStatus
<1>3. CASE CheckApproval(r)
  BY <1>3 DEF CheckApproval
<1>4. CASE MarkConsumed(r)
  BY <1>4, TransitionType DEF MarkConsumed, ApprovalStatus
<1>5. CASE Execute(r)
  BY <1>5 DEF Execute
<1> QED
  BY <1>1, <1>2, <1>3, <1>4, <1>5 DEF RequestStep

LEMMA DecisionType ==
    ASSUME TypeOK, DecisionInv, NEW d \in Decisions, ReadForDecision(d) \/ DecisionStep(d)
    PROVE  TypeOK'
<1> USE DEF TypeOK, approvals, requests, rotations
<1>1. CASE ReadForDecision(d)
  BY <1>1 DEF ReadForDecision
<1>2. CASE Decide(d)
  <2>1. subject[d] \in Requests /\ choice[d] \in ApprovalStatus
    BY <1>2 DEF Decide, DecisionInv, ApprovalStatus
  <2> QED
    BY <1>2, <2>1, TransitionType DEF Decide
<1>3. CASE ExpireAtDecision(d)
  BY <1>3, TransitionType DEF ExpireAtDecision, ApprovalStatus
<1> QED
  BY <1>1, <1>2, <1>3 DEF DecisionStep

LEMMA OtherType ==
    ASSUME TypeOK,
           \/ \E a \in Requests : BecomesOverdue(a) \/ MaintenanceExpire(a)
           \/ \E q \in Rotations : ReadForRotation(q) \/ RotationStep(q)
           \/ \E t \in Tokens : Revoke(t)
           \/ MaintenanceList
           \/ Crash
    PROVE  TypeOK'
<1> USE DEF TypeOK, approvals, requests, decisions, rotations, Tokens
<1>1. ASSUME NEW a \in Requests, BecomesOverdue(a) PROVE TypeOK'
  BY <1>1 DEF BecomesOverdue
<1>2. ASSUME NEW a \in Requests, MaintenanceExpire(a) PROVE TypeOK'
  BY <1>2, TransitionType DEF MaintenanceExpire, ApprovalStatus
<1>3. ASSUME NEW q \in Rotations, ReadForRotation(q) PROVE TypeOK'
  BY <1>3 DEF ReadForRotation
<1>4. ASSUME NEW q \in Rotations, RotationStep(q) PROVE TypeOK'
  BY <1>4 DEF RotationStep, RevokePredecessor, SaveSuccessor
<1>5. ASSUME NEW t \in Tokens, Revoke(t) PROVE TypeOK'
  BY <1>5 DEF Revoke
<1>6. CASE MaintenanceList
  BY <1>6 DEF MaintenanceList
<1>7. CASE Crash
  BY <1>7, ConstantsAssumption DEF Crash, Stopped
<1> QED
  BY <1>1, <1>2, <1>3, <1>4, <1>5, <1>6, <1>7

-----------------------------------------------------------------------------
(* The invariants, step by step.                                           *)

Parts == ApprovalInv /\ RequestInv /\ HolderInv /\ DecisionInv

LEMMA VerifyInv == ASSUME Inv, NEW r \in Requests, Verify(r) PROVE Parts'
<1> USE ConstantsAssumption DEF Inv, TypeOK, Verify, Goto, approvals, decisions
<1>1. ApprovalInv'
  BY DEF ApprovalInv
<1>2. RequestInv'
  BY DEF RequestInv, Holds
<1>3. HolderInv'
  BY DEF HolderInv, RequestInv, Holds
<1>4. DecisionInv'
  BY DEF DecisionInv
<1> QED
  BY <1>1, <1>2, <1>3, <1>4 DEF Parts

LEMMA RequestApprovalInv == ASSUME Inv, NEW r \in Requests, RequestApproval(r) PROVE Parts'
<1> USE ConstantsAssumption DEF Inv, TypeOK, RequestApproval, Goto, decisions
<1>0. status[r] = "none"
  BY DEF ApprovalInv
<1>1. ApprovalInv'
  BY <1>0 DEF ApprovalInv
<1>2. RequestInv'
  BY <1>0 DEF RequestInv, Holds
<1>3. HolderInv'
  BY <1>0 DEF HolderInv, Holds
<1>4. DecisionInv'
  BY <1>0 DEF DecisionInv
<1> QED
  BY <1>1, <1>2, <1>3, <1>4 DEF Parts

LEMMA CheckApprovalInv == ASSUME Inv, NEW r \in Requests, CheckApproval(r) PROVE Parts'
<1> USE ConstantsAssumption DEF Inv, TypeOK, CheckApproval, Goto, approvals, decisions
<1>1. ApprovalInv'
  BY DEF ApprovalInv
<1>2. RequestInv'
  BY DEF RequestInv, ApprovalInv, Holds, Admissible
<1>3. HolderInv'
  BY DEF HolderInv, Holds
<1>4. DecisionInv'
  BY DEF DecisionInv
<1> QED
  BY <1>1, <1>2, <1>3, <1>4 DEF Parts

\* The conditional update lets one of several admitted requests through.
LEMMA MarkConsumedInv == ASSUME Inv, NEW r \in Requests, MarkConsumed(r) PROVE Parts'
<1> USE ConstantsAssumption DEF Inv, TypeOK, Goto, decisions
<1>0. shown[r] \in Requests
  BY DEF MarkConsumed, RequestInv
<1>1. CASE status[shown[r]] = "approved"
  <2>1. /\ pc' = [pc EXCEPT ![r] = "execute"]
        /\ status' = [status EXCEPT ![shown[r]] = "consumed"]
        /\ UNCHANGED <<owner, overdue, token, bearer, shown, executed, decisions, rotations, due, crashes>>
    BY <1>1 DEF MarkConsumed, Transition
  <2>2. ApprovalInv'
    BY <1>0, <1>1, <2>1 DEF ApprovalInv, MarkConsumed
  <2>3. RequestInv'
    BY <1>0, <2>1 DEF RequestInv, Holds, MarkConsumed
  <2>4. HolderInv'
    BY <1>0, <1>1, <2>1 DEF HolderInv, Holds
  <2>5. DecisionInv'
    BY <2>1 DEF DecisionInv
  <2> QED
    BY <2>2, <2>3, <2>4, <2>5 DEF Parts
<1>2. CASE status[shown[r]] # "approved"
  <2>1. /\ pc' = [pc EXCEPT ![r] = "done"]
        /\ UNCHANGED <<status, owner, overdue, token, bearer, shown, executed, decisions, rotations, due, crashes>>
    BY <1>2 DEF MarkConsumed, Transition
  <2> QED
    BY <2>1 DEF Parts, ApprovalInv, RequestInv, HolderInv, DecisionInv, Holds
<1> QED
  BY <1>1, <1>2

LEMMA ExecuteInv == ASSUME Inv, NEW r \in Requests, Execute(r) PROVE Parts'
<1> USE ConstantsAssumption DEF Inv, TypeOK, Execute, Goto, approvals, decisions
<1>1. ApprovalInv'
  BY DEF ApprovalInv
<1>2. RequestInv'
  BY DEF RequestInv, Holds
<1>3. HolderInv'
  BY DEF HolderInv, Holds
<1>4. DecisionInv'
  BY DEF DecisionInv
<1> QED
  BY <1>1, <1>2, <1>3, <1>4 DEF Parts

\* A row that leaves "pending" takes nothing from anybody.
LEMMA SettleInv ==
    ASSUME Inv, NEW a \in Requests, NEW to \in {"approved", "rejected", "expired"},
           Transition(a, "pending", to),
           granted' = IF status[a] = "pending" /\ to = "approved"
                        THEN granted \cup {a} ELSE granted,
           UNCHANGED <<owner, requests, subject, choice>>,
           \A d \in Decisions : dpc'[d] \in {"decide", "expire"} => dpc'[d] = dpc[d]
    PROVE  Parts'
<1> USE ConstantsAssumption DEF Inv, TypeOK, Transition, requests
<1>1. ApprovalInv'
  BY DEF ApprovalInv
<1>2. RequestInv'
  BY DEF RequestInv, Holds
<1>3. HolderInv'
  BY DEF HolderInv, Holds
<1>4. DecisionInv'
  BY DEF DecisionInv
<1> QED
  BY <1>1, <1>2, <1>3, <1>4 DEF Parts

LEMMA DecideInv ==
    ASSUME Inv, NEW d \in Decisions, ReadForDecision(d) \/ DecisionStep(d)
    PROVE  Parts'
<1> USE ConstantsAssumption DEF Inv
<1>1. CASE ReadForDecision(d)
  <2>1. UNCHANGED <<approvals, requests, granted>>
    BY <1>1 DEF ReadForDecision
  <2>2. ApprovalInv' /\ RequestInv' /\ HolderInv'
    BY <2>1 DEF ApprovalInv, RequestInv, HolderInv, Holds, approvals, requests
  <2>3. DecisionInv'
    BY <1>1, <2>1 DEF ReadForDecision, TypeOK, DecisionInv, approvals
  <2> QED
    BY <2>2, <2>3 DEF Parts
<1>2. CASE Decide(d)
  <2>1. subject[d] \in Requests /\ choice[d] \in {"approved", "rejected", "expired"}
    BY <1>2 DEF Decide, DecisionInv
  <2>2. /\ Transition(subject[d], "pending", choice[d])
        /\ granted' = IF status[subject[d]] = "pending" /\ choice[d] = "approved"
                        THEN granted \cup {subject[d]} ELSE granted
        /\ UNCHANGED <<owner, requests, subject, choice>>
        /\ \A e \in Decisions : dpc'[e] \in {"decide", "expire"} => dpc'[e] = dpc[e]
    BY <1>2 DEF Decide, TypeOK
  <2> HIDE DEF Inv
  <2> QED
    BY <2>1, <2>2, SettleInv
<1>3. CASE ExpireAtDecision(d)
  <2>1. subject[d] \in Requests
    BY <1>3 DEF ExpireAtDecision, DecisionInv
  <2>2. /\ Transition(subject[d], "pending", "expired")
        /\ UNCHANGED <<owner, requests, subject, choice, granted>>
        /\ \A e \in Decisions : dpc'[e] \in {"decide", "expire"} => dpc'[e] = dpc[e]
    BY <1>3 DEF ExpireAtDecision, TypeOK
  <2> HIDE DEF Inv
  <2> QED
    BY <2>1, <2>2, SettleInv
<1> QED
  BY <1>1, <1>2, <1>3 DEF DecisionStep

LEMMA CrashInv == ASSUME Inv, Crash PROVE Parts'
<1> USE DEF Inv, TypeOK, Crash, Stopped, approvals
<1>1. \A r \in Requests : pc'[r] # "done" => pc[r] = "idle" /\ pc'[r] = "idle"
  OBVIOUS
<1>2. \A d \in Decisions : dpc'[d] \notin {"decide", "expire"}
  OBVIOUS
<1>3. ApprovalInv'
  BY <1>1 DEF ApprovalInv
<1>4. RequestInv'
  BY <1>1 DEF RequestInv, Holds
<1>5. HolderInv'
  BY <1>1 DEF HolderInv, Holds
<1>6. DecisionInv'
  BY <1>2 DEF DecisionInv
<1> QED
  BY <1>3, <1>4, <1>5, <1>6 DEF Parts

\* Steps that touch neither statuses, requests nor decisions.
LEMMA QuietInv ==
    ASSUME Inv, UNCHANGED <<status, owner, requests, decisions>> PROVE Parts'
BY DEF Inv, Parts, ApprovalInv, RequestInv, HolderInv, DecisionInv, Holds, requests, decisions

LEMMA StepInv == Inv /\ [Next]_vars => Inv'
<1> SUFFICES ASSUME Inv, [Next]_vars PROVE TypeOK' /\ Parts'
  BY DEF Inv, Parts
<1>1. ASSUME NEW r \in Requests, Verify(r) \/ RequestStep(r) PROVE TypeOK' /\ Parts'
  <2>1. TypeOK'
    BY <1>1, RequestType DEF Inv
  <2> QED
    BY <1>1, <2>1, VerifyInv, RequestApprovalInv, CheckApprovalInv, MarkConsumedInv, ExecuteInv
       DEF RequestStep
<1>2. ASSUME NEW d \in Decisions, ReadForDecision(d) \/ DecisionStep(d)
      PROVE  TypeOK' /\ Parts'
  BY <1>2, DecisionType, DecideInv DEF Inv
<1>3. ASSUME NEW a \in Requests, MaintenanceExpire(a) PROVE TypeOK' /\ Parts'
  <2>1. TypeOK'
    BY <1>3, OtherType DEF Inv
  <2> QED
    BY <1>3, <2>1, SettleInv DEF MaintenanceExpire, decisions
<1>4. ASSUME \/ \E a \in Requests : BecomesOverdue(a)
             \/ \E q \in Rotations : ReadForRotation(q) \/ RotationStep(q)
             \/ \E t \in Tokens : Revoke(t)
             \/ MaintenanceList
      PROVE  TypeOK' /\ Parts'
  <2>1. TypeOK'
    BY <1>4, OtherType DEF Inv
  <2>2. UNCHANGED <<status, owner, requests, decisions>>
    BY <1>4 DEF BecomesOverdue, ReadForRotation, RotationStep, RevokePredecessor,
                SaveSuccessor, Revoke, MaintenanceList, approvals
  <2> QED
    BY <2>1, <2>2, QuietInv
<1>5. ASSUME Crash PROVE TypeOK' /\ Parts'
  BY <1>5, CrashInv, OtherType DEF Inv
<1>6. ASSUME UNCHANGED vars PROVE TypeOK' /\ Parts'
  <2>1. TypeOK'
    BY <1>6 DEF vars, approvals, requests, decisions, rotations, Inv, TypeOK
  <2> QED
    BY <1>6, <2>1, QuietInv DEF vars, approvals
<1> QED
  BY <1>1, <1>2, <1>3, <1>4, <1>5, <1>6 DEF Next

LEMMA Invariance == Spec => []Inv
BY InitInv, StepInv, PTL DEF Spec

\* Every variable keeps its type.
THEOREM TypeCorrect == Spec => []TypeOK
<1>1. Inv => TypeOK
  BY DEF Inv
<1> QED
  BY <1>1, Invariance, PTL

\* An operation runs only on an approval a manager gave to the same token for
\* the same operation, however requests, decisions and rotations interleave.
THEOREM OperationsRunAsApproved == Spec => []RunsAsApproved
<1>1. Inv => RunsAsApproved
  BY DEF Inv, TypeOK, RequestInv, Holds, RunsAsApproved
<1> QED
  BY <1>1, Invariance, PTL

-----------------------------------------------------------------------------
(* The refinement: approvals are one-time grants.                          *)

\* A conditional update is a step of its grant or none.
LEMMA RefineTransition ==
    ASSUME TypeOK, NEW a \in Requests,
           NEW from \in {"pending", "approved"},
           NEW to \in {"approved", "rejected", "expired", "consumed"},
           from = "approved" <=> to = "consumed",
           Transition(a, from, to), UNCHANGED RanOn
    PROVE  Grant!Next \/ UNCHANGED <<status, RanOn>>
<1>1. CASE status[a] # from
  BY <1>1 DEF Transition
<1>2. CASE status[a] = from
  <2>1. Grant!Become(a, from, to)
    BY <1>2 DEF Transition, Grant!Become
  <2> QED
    BY <2>1 DEF Grant!Next, Grant!Grant, Grant!Refuse, Grant!Spend
<1> QED
  BY <1>1, <1>2

\* An operation runs on the approval its request holds, as the first to do so.
LEMMA RefineExecute ==
    ASSUME Inv, NEW r \in Requests, Execute(r)
    PROVE  Grant!Next \/ UNCHANGED <<status, RanOn>>
<1>1. status' = status /\ shown' = shown
  BY DEF Execute, approvals
<1>2. CASE executed' = executed
  BY <1>1, <1>2 DEF RanOn
<1>3. CASE executed' = executed \cup {r}
  <2>1. Holds(r) /\ r \notin executed
    BY DEF Execute, Holds, Inv, RequestInv
  <2>2. shown[r] \in Requests /\ status[shown[r]] = "consumed"
    BY <2>1 DEF Inv, HolderInv
  <2>3. RanOn[shown[r]] = {}
    BY <2>1, <2>2 DEF RanOn, Inv, TypeOK, HolderInv, Holds
  <2>4. RanOn' = [RanOn EXCEPT ![shown[r]] = {r}]
    BY <1>1, <1>3, <2>2, <2>3 DEF RanOn
  <2>5. Grant!Run(shown[r], r)
    BY <1>1, <2>2, <2>3, <2>4 DEF Grant!Run
  <2> QED
    BY <2>2, <2>5 DEF Grant!Next
<1> QED
  BY <1>2, <1>3 DEF Execute

LEMMA RefineStep == Inv /\ [Next]_vars => [Grant!Next]_(Grant!vars)
<1> SUFFICES ASSUME Inv, [Next]_vars
             PROVE  Grant!Next \/ UNCHANGED <<status, RanOn>>
  BY DEF Grant!vars
<1>1. ASSUME NEW r \in Requests, Verify(r) PROVE UNCHANGED <<status, RanOn>>
  <2>1. r \notin executed
    BY <1>1 DEF Verify, Inv, RequestInv
  <2> QED
    BY <1>1, <2>1 DEF Verify, RanOn, approvals, Inv, TypeOK
<1>2. ASSUME NEW r \in Requests, RequestApproval(r) PROVE Grant!Next
  <2>1. status[r] = "none"
    BY <1>2 DEF RequestApproval, Inv, ApprovalInv
  <2>2. Grant!Ask(r)
    BY <1>2, <2>1 DEF RequestApproval, RanOn, Grant!Ask, Grant!Become
  <2> QED
    BY <2>2 DEF Grant!Next
<1>3. ASSUME NEW r \in Requests, CheckApproval(r) PROVE UNCHANGED <<status, RanOn>>
  BY <1>3 DEF CheckApproval, RanOn, approvals
<1>4. ASSUME NEW r \in Requests, MarkConsumed(r)
      PROVE  Grant!Next \/ UNCHANGED <<status, RanOn>>
  <2>1. shown[r] \in Requests
    BY <1>4 DEF MarkConsumed, Inv, TypeOK, RequestInv
  <2>2. UNCHANGED RanOn
    BY <1>4 DEF MarkConsumed, RanOn
  <2> QED
    BY <1>4, <2>1, <2>2, RefineTransition DEF MarkConsumed, Inv
<1>5. ASSUME NEW r \in Requests, Execute(r)
      PROVE  Grant!Next \/ UNCHANGED <<status, RanOn>>
  BY <1>5, RefineExecute
<1>6. ASSUME NEW d \in Decisions, ReadForDecision(d) PROVE UNCHANGED <<status, RanOn>>
  BY <1>6 DEF ReadForDecision, RanOn, approvals, requests
<1>7. ASSUME NEW d \in Decisions, DecisionStep(d)
      PROVE  Grant!Next \/ UNCHANGED <<status, RanOn>>
  <2>1. UNCHANGED RanOn
    BY <1>7 DEF DecisionStep, Decide, ExpireAtDecision, RanOn, requests
  <2>2. subject[d] \in Requests /\ choice[d] \in {"approved", "rejected"}
    BY <1>7 DEF DecisionStep, Decide, ExpireAtDecision, Inv, DecisionInv
  <2>3. Transition(subject[d], "pending", choice[d]) \/ Transition(subject[d], "pending", "expired")
    BY <1>7 DEF DecisionStep, Decide, ExpireAtDecision
  <2> QED
    BY <2>1, <2>2, <2>3, RefineTransition DEF Inv
<1>8. ASSUME NEW a \in Requests, MaintenanceExpire(a)
      PROVE  Grant!Next \/ UNCHANGED <<status, RanOn>>
  <2>1. UNCHANGED RanOn
    BY <1>8 DEF MaintenanceExpire, RanOn, requests
  <2> QED
    BY <1>8, <2>1, RefineTransition DEF MaintenanceExpire, Inv
<1>9. ASSUME \/ \E a \in Requests : BecomesOverdue(a)
             \/ \E q \in Rotations : ReadForRotation(q) \/ RotationStep(q)
             \/ \E t \in Tokens : Revoke(t)
             \/ MaintenanceList
             \/ Crash
             \/ UNCHANGED vars
      PROVE  UNCHANGED <<status, RanOn>>
  <2>1. UNCHANGED <<status, shown, executed>>
    BY <1>9 DEF BecomesOverdue, ReadForRotation, RotationStep, RevokePredecessor, SaveSuccessor,
                Revoke, MaintenanceList, Crash, vars, approvals, requests
  <2> QED
    BY <2>1 DEF RanOn
<1> QED
  BY <1>1, <1>2, <1>3, <1>4, <1>5, <1>6, <1>7, <1>8, <1>9 DEF Next, RequestStep

\* An approval is a one-time grant: only a pending one is approved, only an
\* approved one is consumed, and at most one operation ever runs on it.
THEOREM ApprovalsAreOneTimeGrants == Spec => ImplementsGrant
<1>1. Init => Grant!Init
  BY DEF Init, Grant!Init, RanOn
<1> QED
  BY <1>1, Invariance, RefineStep, PTL DEF Spec, ImplementsGrant, Grant!Spec

-----------------------------------------------------------------------------
(* Billing.                                                                *)

\* What a handler has in hand where it stands: a delivery past its record a
\* recorded event, whose invoice was issued; a request for an invoice none yet.
HandlerInv ==
    /\ \A d \in Deliveries :
          /\ at[d] \notin {"idle", "dead"} => eventOf[d] \in Events
          /\ at[d] = "idle" => eventOf[d] = Null
          /\ eventOf[d] \in PayEvents => invoice[InvoiceOf[eventOf[d]]] # "none"
          /\ at[d] \in {"pay", "getinvoice", "sum", "setpaid"} \/ d \in payments =>
                eventOf[d] \in PayEvents \cap events
          /\ d \in payments => at[d] \notin {"idle", "record", "pay"}
          /\ at[d] \notin {"count", "number"}
    /\ \A v \in Invoices :
          /\ at[v] \in {"idle", "create", "expire", "count", "number", "done", "dead"}
          /\ at[v] \in {"idle", "create", "expire", "count", "number"} => invoice[v] = "none"

\* What a handler writes over: a row it has read, while the subscription has one.
CopyInv ==
    \A h \in Handlers :
        /\ at[h] \in {"expire", "write"} => copy[h] \in Row /\ sub \in Row
        /\ copy[h] \in Row /\ copy[h].status = "expired" => copy[h].plan = "free"

IntentInv ==
    /\ sub \in Row => intent \in [plan : Plans, status : Status]
    /\ RowFollowsIntent

\* The deliveries that may insert a row of their event, or have inserted one.
Paying(d) == at[d] \in {"record", "pay"} \/ d \in payments

RacedInv ==
    \A p, q \in Deliveries :
        /\ p # q /\ eventOf[p] = eventOf[q] /\ eventOf[p] \in PayEvents /\ Paying(p) /\ Paying(q)
        => {p, q} \subseteq raced

\* One row per payment id.
IdInv == \A p, q \in payments : Id(p) # Null /\ Id(p) = Id(q) => p = q

\* An invoice is paid, or about to be, when its rows cover it.
CoverInv ==
    /\ \A v \in Invoices : invoice[v] = "paid" => Cardinality(Rows(v)) >= Due[v]
    /\ \A d \in Deliveries : at[d] = "setpaid" =>
          Cardinality(Rows(InvoiceOf[eventOf[d]])) >= Due[InvoiceOf[eventOf[d]]]

HasRow(e) == \E p \in Rows(InvoiceOf[e]) :
                eventOf[p] = e \/ (Id(p) # Null /\ Id(p) = PaymentOf[e])

AppliedInv ==
    \A e \in events \cap PayEvents :
        \/ e \in cut \/ HasRow(e)
        \/ \E d \in Deliveries : eventOf[d] = e /\ at[d] = "pay"

\* Rows that cover an invoice are summed by the last delivery that made one.
Summing(v) == \E d \in Deliveries :
    /\ eventOf[d] \in PayEvents /\ InvoiceOf[eventOf[d]] = v
    /\ at[d] \in {"getinvoice", "sum", "setpaid"} \/ eventOf[d] \in cut

SumInv == \A v \in Invoices :
    Cardinality(Rows(v)) >= Due[v] => invoice[v] = "paid" \/ Summing(v)

MoneyInv == RacedInv /\ IdInv /\ CoverInv /\ AppliedInv /\ SumInv

-----------------------------------------------------------------------------
(* Type correctness.                                                       *)

LEMMA RowType == \A r \in Row : /\ r.plan \in Plans /\ r.status \in Status
                                /\ \A p \in Plans : [r EXCEPT !.plan = p] \in Row
                                /\ \A t \in Status : [r EXCEPT !.status = t] \in Row
BY DEF Row

LEMMA RowIsRow == Null \notin Row
BY BillingAssumption

\* The invoices there are leave a number for one that is yet to be.
LEMMA NumberType ==
  ASSUME NEW v \in Invoices, invoice[v] = "none"
  PROVE  Cardinality({w \in Invoices : invoice[w] # "none"}) + 1 \in 0 .. Cardinality(Invoices)
<1> DEFINE issued == {w \in Invoices : invoice[w] # "none"}
<1>1. /\ IsFiniteSet(Invoices \ {v}) /\ Cardinality(Invoices \ {v}) = Cardinality(Invoices) - 1
      /\ Cardinality(Invoices) \in Nat
  BY BillingAssumption, FS_RemoveElement, FS_CardinalityType
<1>2. issued \subseteq Invoices \ {v}
  OBVIOUS
<1>3. Cardinality(issued) <= Cardinality(Invoices \ {v}) /\ Cardinality(issued) \in Nat
  BY <1>1, <1>2, FS_Subset, FS_CardinalityType
<1> QED
  BY <1>1, <1>3

\* The steps of the subscription leave everything of the payments alone.
SubOnly ==
    /\ UNCHANGED <<money, eventOf, want, cut, raced, faults>>
    /\ \A d \in Handlers :
          \/ at'[d] = at[d]
          \/ d \in Deliveries /\ at[d] \in {"read", "create", "expire", "write"}
                              /\ at'[d] \in {"create", "expire", "write", "done"}
          \/ d \in Invoices /\ at[d] \in {"idle", "create", "expire"}
                            /\ at'[d] \in {"create", "expire", "count"}
          \/ d \in PlanChanges \cup Cancels

SubAction(h) ==
    \/ h \in Handlers /\ (ReadSub(h) \/ Create(h) \/ Expire(h))
    \/ h \in PlanChanges /\ (ChangePlan(h) \/ BlockDowngrade(h))
    \/ h \in Cancels /\ Cancel(h)
    \/ h \in Deliveries /\ SubEvent(h)

LEMMA HandlerKinds ==
  /\ \A h \in Handlers : \/ h \in Deliveries /\ h \notin Readers /\ h \notin Invoices
                         \/ h \in Invoices /\ h \notin Deliveries /\ h \in Readers
                         \/ h \in PlanChanges \cup Cancels /\ h \notin Deliveries \cup Invoices
                            /\ h \in Readers
  /\ Deliveries \cap Invoices = {}
BY BillingAssumption DEF Handlers, Readers

LEMMA FreshIsRow == BillingTypeOK => Fresh \in Row
<1> SUFFICES ASSUME BillingTypeOK PROVE Fresh \in Row
  OBVIOUS
<1>1. now \in 0 .. MaxTime /\ MaxTime \in Nat
  BY BillingAssumption DEF BillingTypeOK
<1>2. now + 2 \in 0 .. MaxTime + 2 /\ 0 \in 0 .. MaxTime + 2
  BY <1>1
<1>3. "free" \in Plans /\ "active" \in Status
  BY DEF Plans, Status
<1> QED
  BY <1>2, <1>3 DEF Fresh, Row

LEMMA PlanIsRow ==
  ASSUME BillingTypeOK, NEW plan \in Plans, NEW state \in Status, NEW asked \in {"free", "pro", "trial"}
  PROVE  [plan |-> plan, status |-> state, periodEnds |-> now + 2,
          trialEnds |-> IF asked = "trial" THEN now + 1 ELSE 0] \in Row
<1>1. now \in 0 .. MaxTime /\ MaxTime \in Nat
  BY BillingAssumption DEF BillingTypeOK
<1>2. now + 2 \in 0 .. MaxTime + 2 /\ now + 1 \in 0 .. MaxTime + 2 /\ 0 \in 0 .. MaxTime + 2
  BY <1>1
<1> QED
  BY <1>2 DEF Row

\* What a step of the subscription makes of the row, of the copies and of intent.
LEMMA SubType ==
  ASSUME BillingTypeOK, CopyInv, IntentInv, NEW h, SubAction(h)
  PROVE  /\ SubOnly /\ now' = now
         /\ at' \in [Handlers -> PC]
         /\ sub' \in Row \cup {Null} /\ copy' \in [Handlers -> Row \cup {Null}]
         /\ intent' \in [plan : Plans, status : Status] \cup {Null}
         /\ stale' \in BOOLEAN
         /\ CopyInv' /\ IntentInv'
<1> USE DEF BillingTypeOK, Moved, MoveTo
<1> DEFINE Intents == [plan : Plans, status : Status]
<1>k. "free" \in Plans /\ "pro" \in Plans /\ Status = {"active", "trialing", "canceled", "expired"}
  BY DEF Plans, Status
<1>r. /\ \A r \in Row : /\ r.plan \in Plans /\ r.status \in Status
                        /\ \A p \in Plans : [r EXCEPT !.plan = p] \in Row
                        /\ \A t \in Status : [r EXCEPT !.status = t] \in Row
      /\ Null \notin Row
  BY RowType, RowIsRow
<1>h. h \in Handlers /\ copy \in [Handlers -> Row \cup {Null}] /\ at \in [Handlers -> PC]
  BY DEF SubAction, Handlers, Readers
<1>p. "create" \in PC /\ "expire" \in PC /\ "count" \in PC /\ "write" \in PC /\ "done" \in PC
  BY DEF PC
<1>a. AfterRead(h) = IF h \in Invoices THEN "count" ELSE "write"
  BY DEF AfterRead
\* A step that writes row over the copy, or nothing, and keeps kept.
<1>w. ASSUME NEW row \in Row, NEW kept \in Row \cup {Null}, NEW label \in PC,
             sub' \in Row, copy' = [copy EXCEPT ![h] = kept], at' = [at EXCEPT ![h] = label],
             label = "write" => kept \in Row, label # "expire",
             kept \in Row /\ kept.status = "expired" => kept.plan = "free"
      PROVE  CopyInv' /\ copy' \in [Handlers -> Row \cup {Null}] /\ at' \in [Handlers -> PC]
  <2>1. /\ copy'[h] = kept /\ at'[h] = label
        /\ \A g \in Handlers \ {h} : copy'[g] = copy[g] /\ at'[g] = at[g]
    BY <1>h, <1>w
  <2>2. copy' \in [Handlers -> Row \cup {Null}] /\ at' \in [Handlers -> PC]
    BY <1>h, <1>w
  <2> QED
    BY <1>w, <2>1, <2>2 DEF CopyInv
<1>1. CASE ReadSub(h) /\ h \in Handlers
  <2>1. UNCHANGED <<money, sub, now, eventOf, want, faults, past>>
    BY <1>1 DEF ReadSub
  <2>2. \/ at[h] = "idle" /\ h \in Readers
        \/ at[h] = "read" /\ h \in Deliveries
    BY <1>1 DEF ReadSub, Unsent, Handlers
  <2>3. PICK label \in {"create", "expire", AfterRead(h)}, kept \in Row \cup {Null} :
           /\ at' = [at EXCEPT ![h] = label] /\ copy' = [copy EXCEPT ![h] = kept]
           /\ label \in {"expire", "write"} => kept = sub /\ sub # Null
           /\ kept \in {Null, sub}
    <3>1. CASE sub = Null /\ MoveTo(h, "create") /\ Drop(h)
      BY <3>1, <1>a DEF Drop
    <3>2. CASE sub # Null /\ MoveTo(h, "expire") /\ copy' = [copy EXCEPT ![h] = sub]
      BY <3>2
    <3>3. CASE sub # Null /\ MoveTo(h, AfterRead(h)) /\ Keep(h, sub)
      BY <3>3, <1>a DEF Keep
    <3> QED
      BY <1>1, <3>1, <3>2, <3>3 DEF ReadSub
  <2>4. SubOnly
    <3>1. label \in {"create", "expire"} \/ (label = "count" /\ h \in Invoices)
                                         \/ (label = "write" /\ h \notin Invoices)
      BY <1>a, <2>3
    <3>2. at'[h] = label /\ \A g \in Handlers \ {h} : at'[g] = at[g]
      BY <1>h, <2>3
    <3> QED
      BY <1>h, <2>1, <2>2, <3>1, <3>2, HandlerKinds DEF SubOnly, past
  <2>5. label \in PC
    BY <1>a, <1>p, <2>3
  <2>6. /\ copy'[h] = kept /\ at'[h] = label
        /\ \A g \in Handlers \ {h} : copy'[g] = copy[g] /\ at'[g] = at[g]
    BY <1>h, <2>3
  <2>7. sub # Null /\ sub.status = "expired" => sub.plan = "free"
    BY DEF IntentInv, RowFollowsIntent
  <2>8. CopyInv'
    BY <1>r, <2>1, <2>3, <2>6, <2>7 DEF CopyInv
  <2>9. copy' \in [Handlers -> Row \cup {Null}] /\ at' \in [Handlers -> PC]
    BY <1>h, <2>3, <2>5
  <2>10. UNCHANGED <<sub, intent, stale>>
    BY <2>1 DEF past
  <2> QED
    BY <2>1, <2>4, <2>8, <2>9, <2>10 DEF IntentInv, RowFollowsIntent, past
<1>2. CASE Create(h) /\ h \in Handlers
  <2>1. /\ at[h] = "create" /\ at' = [at EXCEPT ![h] = AfterRead(h)]
        /\ sub' = Fresh /\ intent' = [plan |-> "free", status |-> "active"]
        /\ stale' = (stale \/ sub # copy[h])
        /\ copy' = [copy EXCEPT ![h] = IF AfterRead(h) = "write" THEN Fresh ELSE Null]
        /\ UNCHANGED <<money, now, eventOf, want, faults, cut, raced>>
    BY <1>2 DEF Create, Writes, Keep
  <2>2. Fresh \in Row /\ Fresh.plan = "free" /\ Fresh.status = "active"
    BY FreshIsRow DEF Fresh
  <2>3. SubOnly
    <3>1. at'[h] = AfterRead(h) /\ \A g \in Handlers \ {h} : at'[g] = at[g]
      BY <1>h, <2>1
    <3> QED
      BY <1>a, <1>h, <2>1, <3>1, HandlerKinds DEF SubOnly
  <2>4. CopyInv' /\ copy' \in [Handlers -> Row \cup {Null}] /\ at' \in [Handlers -> PC]
    BY <1>a, <1>p, <1>r, <1>w, <2>1, <2>2
  <2>5. intent' \in Intents /\ IntentInv'
    BY <1>k, <2>1, <2>2 DEF IntentInv, RowFollowsIntent
  <2> QED
    BY <2>1, <2>2, <2>3, <2>4, <2>5
<1>3. CASE Expire(h) /\ h \in Handlers
  <2> DEFINE row == [copy[h] EXCEPT !.plan = "free", !.status = "expired"]
  <2>1. /\ at[h] = "expire" /\ at' = [at EXCEPT ![h] = AfterRead(h)]
        /\ sub' = row /\ intent' = [plan |-> "free", status |-> "expired"]
        /\ stale' = (stale \/ sub # copy[h])
        /\ copy' = [copy EXCEPT ![h] = IF AfterRead(h) = "write" THEN row ELSE Null]
        /\ UNCHANGED <<money, now, eventOf, want, faults, cut, raced>>
    BY <1>3 DEF Expire, Writes, Keep
  <2>2. row \in Row /\ row.plan = "free" /\ row.status = "expired"
    <3>1. copy[h] \in Row
      BY <1>h, <2>1 DEF CopyInv
    <3> QED
      BY <1>k, <3>1 DEF Row
  <2>3. SubOnly
    <3>1. at'[h] = AfterRead(h) /\ \A g \in Handlers \ {h} : at'[g] = at[g]
      BY <1>h, <2>1
    <3> QED
      BY <1>a, <1>h, <2>1, <3>1, HandlerKinds DEF SubOnly
  <2> HIDE DEF row
  <2>4. CopyInv' /\ copy' \in [Handlers -> Row \cup {Null}] /\ at' \in [Handlers -> PC]
    BY <1>a, <1>p, <1>r, <1>w, <2>1, <2>2
  <2>5. intent' \in Intents /\ IntentInv'
    BY <1>k, <2>1, <2>2 DEF IntentInv, RowFollowsIntent
  <2> QED
    BY <2>1, <2>2, <2>3, <2>4, <2>5
<1>4. CASE ChangePlan(h) /\ h \in PlanChanges
  <2> DEFINE plan   == IF want[h] = "free" THEN "free" ELSE "pro"
             state == IF want[h] = "trial" THEN "trialing" ELSE "active"
             row    == [plan |-> plan, status |-> state, periodEnds |-> now + 2,
                        trialEnds |-> IF want[h] = "trial" THEN now + 1 ELSE 0]
  <2>1. /\ at[h] = "write" /\ at' = [at EXCEPT ![h] = "done"]
        /\ sub' = row /\ intent' = [plan |-> plan, status |-> state]
        /\ copy' = [copy EXCEPT ![h] = Null]
        /\ UNCHANGED <<money, now, eventOf, want, faults, cut, raced, stale>>
    BY <1>4 DEF ChangePlan, Drop
  <2>2. plan \in Plans /\ state \in Status /\ state # "expired"
    BY <1>k
  <2>3. row \in Row /\ row.plan = plan /\ row.status = state
    BY <1>4, <2>2, PlanIsRow
  <2>4. SubOnly
    <3>1. at'[h] = "done" /\ \A g \in Handlers \ {h} : at'[g] = at[g]
      BY <1>h, <2>1
    <3> QED
      BY <1>4, <2>1, <3>1 DEF SubOnly
  <2> HIDE DEF row, plan, state
  <2>5. CopyInv' /\ copy' \in [Handlers -> Row \cup {Null}] /\ at' \in [Handlers -> PC]
    BY <1>p, <1>r, <1>w, <2>1, <2>3
  <2>6. intent' \in Intents /\ IntentInv'
    BY <2>1, <2>2, <2>3 DEF IntentInv, RowFollowsIntent
  <2> QED
    BY <2>1, <2>3, <2>4, <2>5, <2>6
<1>5. CASE BlockDowngrade(h) /\ h \in PlanChanges
  <2>1. /\ at[h] = "write" /\ at' = [at EXCEPT ![h] = "done"]
        /\ copy' = [copy EXCEPT ![h] = Null]
        /\ UNCHANGED <<money, sub, now, eventOf, want, faults, past>>
    BY <1>5 DEF BlockDowngrade, Drop
  <2>2. SubOnly
    <3>1. at'[h] = "done" /\ \A g \in Handlers \ {h} : at'[g] = at[g]
      BY <1>h, <2>1
    <3> QED
      BY <1>5, <2>1, <3>1 DEF SubOnly, past
  <2>3. sub \in Row
    BY <1>h, <2>1 DEF CopyInv
  <2>4. CopyInv' /\ copy' \in [Handlers -> Row \cup {Null}] /\ at' \in [Handlers -> PC]
    BY <1>p, <1>r, <1>w, <2>1, <2>3
  <2> QED
    BY <2>1, <2>2, <2>4 DEF IntentInv, RowFollowsIntent, past
\* A row written back: as it was read, or canceled.
<1>b. ASSUME NEW state \in Status, NEW said \in Status,
             at[h] = "write", at' = [at EXCEPT ![h] = "done"],
             sub' = [copy[h] EXCEPT !.status = state],
             intent' = [plan |-> intent.plan, status |-> said],
             stale' = (stale \/ sub # copy[h]), copy' = [copy EXCEPT ![h] = Null],
             \/ state = "canceled" /\ said = "canceled"
             \/ state = copy[h].status /\ said = intent.status,
             h \in Deliveries \cup Cancels,
             UNCHANGED <<money, now, eventOf, want, faults, cut, raced>>
      PROVE  /\ SubOnly /\ at' \in [Handlers -> PC] /\ sub' \in Row
             /\ copy' \in [Handlers -> Row \cup {Null}] /\ intent' \in Intents /\ stale' \in BOOLEAN
             /\ CopyInv' /\ IntentInv'
  <2>1. copy[h] \in Row /\ sub \in Row /\ intent \in Intents
    BY <1>b, <1>h DEF CopyInv, IntentInv
  <2>2. /\ sub' \in Row /\ sub'.plan = copy[h].plan /\ sub'.status = state
        /\ intent' \in Intents /\ intent'.plan = intent.plan /\ intent'.status = said
    BY <1>b, <1>k, <2>1 DEF Row
  <2>3. SubOnly
    <3>1. at'[h] = "done" /\ \A g \in Handlers \ {h} : at'[g] = at[g]
      BY <1>h, <1>b
    <3> QED
      BY <1>b, <3>1 DEF SubOnly
  <2>4. CopyInv' /\ copy' \in [Handlers -> Row \cup {Null}] /\ at' \in [Handlers -> PC]
    BY <1>b, <1>p, <1>r, <1>w, <2>2
  <2>5. sub'.status = "expired" => sub'.plan = "free"
    <3> SUFFICES ASSUME sub'.status = "expired" PROVE sub'.plan = "free"
      OBVIOUS
    <3>1. copy[h].status = "expired"
      BY <1>b, <2>2
    <3> QED
      BY <1>h, <2>1, <2>2, <3>1 DEF CopyInv
  <2>6. ~stale' => sub'.plan = intent'.plan /\ sub'.status = intent'.status
    <3> SUFFICES ASSUME ~stale' PROVE sub'.plan = intent'.plan /\ sub'.status = intent'.status
      OBVIOUS
    <3>1. ~stale /\ sub = copy[h] /\ sub # Null
      BY <1>b, <1>r, <2>1
    <3>2. sub.plan = intent.plan /\ sub.status = intent.status
      BY <3>1 DEF IntentInv, RowFollowsIntent
    <3> QED
      BY <1>b, <2>2, <3>1, <3>2
  <2>7. stale' \in BOOLEAN
    BY <1>b
  <2> QED
    BY <2>2, <2>3, <2>4, <2>5, <2>6, <2>7 DEF IntentInv, RowFollowsIntent
<1>6. CASE Cancel(h) /\ h \in Cancels
  <2>1. /\ at[h] = "write" /\ at' = [at EXCEPT ![h] = "done"]
        /\ sub' = [copy[h] EXCEPT !.status = "canceled"]
        /\ intent' = [plan |-> intent.plan, status |-> "canceled"]
        /\ stale' = (stale \/ sub # copy[h]) /\ copy' = [copy EXCEPT ![h] = Null]
        /\ UNCHANGED <<money, now, eventOf, want, faults, cut, raced>>
    BY <1>6 DEF Cancel, Writes, Drop
  <2> QED
    BY <1>6, <1>b, <1>k, <2>1
<1>7. CASE SubEvent(h) /\ h \in Deliveries
  <2> DEFINE state == IF eventOf[h] \in CancelEvents THEN "canceled" ELSE copy[h].status
             said   == IF eventOf[h] \in CancelEvents THEN "canceled" ELSE intent.status
  <2>1. /\ at[h] = "write" /\ at' = [at EXCEPT ![h] = "done"]
        /\ sub' = [copy[h] EXCEPT !.status = state]
        /\ intent' = [plan |-> intent.plan, status |-> said]
        /\ stale' = (stale \/ sub # copy[h]) /\ copy' = [copy EXCEPT ![h] = Null]
        /\ UNCHANGED <<money, now, eventOf, want, faults, cut, raced>>
    BY <1>7 DEF SubEvent, Writes, Drop
  <2>2. copy[h] \in Row /\ sub \in Row /\ intent \in Intents
    BY <1>h, <2>1 DEF CopyInv, IntentInv
  <2>3. state \in Status /\ said \in Status
    BY <1>k, <1>r, <2>2
  <2>4. \/ state = "canceled" /\ said = "canceled"
        \/ state = copy[h].status /\ said = intent.status
    OBVIOUS
  <2> HIDE DEF state, said
  <2> QED
    BY <1>7, <1>b, <2>1, <2>3, <2>4
<1> QED
  BY <1>1, <1>2, <1>3, <1>4, <1>5, <1>6, <1>7 DEF SubAction

LEMMA CopyKept ==
  ASSUME CopyInv, IntentInv, UNCHANGED <<sub, intent, stale>>,
         \A g \in Handlers : \/ at'[g] = at[g] /\ copy'[g] = copy[g]
                             \/ at'[g] \notin {"expire", "write"} /\ copy'[g] \in {copy[g], Null}
  PROVE  CopyInv' /\ IntentInv'
<1>1. IntentInv'
  BY DEF IntentInv, RowFollowsIntent
<1>2. CopyInv'
  BY RowIsRow DEF CopyInv
<1> QED
  BY <1>1, <1>2

Base == BillingTypeOK /\ HandlerInv /\ CopyInv /\ IntentInv

LEMMA BaseSub == ASSUME Base, NEW h, SubAction(h) PROVE Base'
<1>1. /\ SubOnly /\ now' = now
      /\ at' \in [Handlers -> PC]
      /\ sub' \in Row \cup {Null} /\ copy' \in [Handlers -> Row \cup {Null}]
      /\ intent' \in [plan : Plans, status : Status] \cup {Null}
      /\ stale' \in BOOLEAN
      /\ CopyInv' /\ IntentInv'
  BY SubType DEF Base
<1>2. BillingTypeOK'
  BY <1>1 DEF Base, BillingTypeOK, SubOnly, money, Handlers
<1>3. HandlerInv'
  <2>1. /\ UNCHANGED <<events, payments, invoice, eventOf>>
        /\ Deliveries \subseteq Handlers /\ Invoices \subseteq Handlers
    BY <1>1 DEF SubOnly, money, Handlers, Readers
  <2>2. \A d \in Deliveries :
           \/ at'[d] = at[d]
           \/ /\ at[d] \in {"read", "create", "expire", "write"}
              /\ at'[d] \in {"create", "expire", "write", "done"}
    BY <1>1, <2>1, BillingAssumption DEF SubOnly, Readers
  <2>3. \A v \in Invoices :
           \/ at'[v] = at[v]
           \/ at[v] \in {"idle", "create", "expire"} /\ at'[v] \in {"create", "expire", "count"}
    BY <1>1, <2>1, BillingAssumption DEF SubOnly, Readers
  <2>4. HandlerInv
    BY DEF Base
  <2> QED
    BY <2>1, <2>2, <2>3, <2>4 DEF HandlerInv
<1> QED
  BY <1>1, <1>2, <1>3 DEF Base

LEMMA BaseInvoice ==
  ASSUME Base, NEW v \in Invoices, CountInvoices(v) \/ InsertInvoice(v)
  PROVE  Base' /\ \A w \in Invoices : invoice'[w] = "paid" <=> invoice[w] = "paid"
<1> USE DEF Base, BillingTypeOK, Moved, MoveTo
<1>1. v \in Handlers /\ v \notin Deliveries /\ "number" \in PC /\ "done" \in PC
  BY HandlerKinds DEF Handlers, Readers, PC
<1>2. CASE CountInvoices(v)
  <2>1. /\ at[v] = "count" /\ at' = [at EXCEPT ![v] = "number"]
        /\ number' = [number EXCEPT ![v] = Cardinality({w \in Invoices : invoice[w] # "none"}) + 1]
        /\ UNCHANGED <<events, payments, invoice, sub, now, eventOf, copy, want, faults, past>>
    BY <1>2 DEF CountInvoices
  <2>2. invoice[v] = "none"
    BY <2>1 DEF HandlerInv
  <2>3. BillingTypeOK'
    BY <1>1, <2>1, <2>2, NumberType DEF past
  <2>4. HandlerInv'
    BY <1>1, <2>1, HandlerKinds DEF HandlerInv, Handlers
  <2>5. CopyInv' /\ IntentInv'
    BY <1>1, <2>1, CopyKept DEF past, Handlers
  <2> QED
    BY <2>1, <2>3, <2>4, <2>5
<1>3. CASE InsertInvoice(v)
  <2>1. /\ at[v] = "number" /\ at' = [at EXCEPT ![v] = "done"]
        /\ invoice' = invoice \/ invoice' = [invoice EXCEPT ![v] = "open"]
        /\ UNCHANGED <<events, payments, number, sub, now, eventOf, copy, want, faults, past>>
    BY <1>3 DEF InsertInvoice
  <2>2. invoice[v] = "none"
    BY <2>1 DEF HandlerInv
  <2>3. BillingTypeOK'
    BY <1>1, <2>1 DEF past
  <2>4. HandlerInv'
    BY <1>1, <2>1, HandlerKinds, BillingAssumption DEF HandlerInv, Handlers, Readers
  <2>5. CopyInv' /\ IntentInv'
    BY <1>1, <2>1, CopyKept DEF past, Handlers
  <2> QED
    BY <2>1, <2>2, <2>3, <2>4, <2>5
<1> QED
  BY <1>2, <1>3

LEMMA BaseDeliver ==
  ASSUME Base, NEW d \in Deliveries, NEW e \in Events, Deliver(d, e)
  PROVE  Base'
<1> USE DEF Base, BillingTypeOK, MoveTo
<1>1. d \in Handlers /\ d \notin Invoices /\ "record" \in PC /\ "done" \in PC
  BY HandlerKinds DEF Handlers, PC
<1>2. /\ at[d] = "idle" /\ eventOf' = [eventOf EXCEPT ![d] = e]
      /\ e \in PayEvents => invoice[InvoiceOf[e]] # "none"
      /\ UNCHANGED <<money, sub, now, copy, want, faults, cut, intent, stale>>
  BY DEF Deliver, Unsent
<1>3. at' = [at EXCEPT ![d] = "done"] \/ at' = [at EXCEPT ![d] = "record"]
  BY DEF Deliver
<1>4. raced' \subseteq Deliveries
  BY DEF Deliver, Bringing
<1>5. BillingTypeOK'
  BY <1>1, <1>2, <1>3, <1>4 DEF money
<1>6. HandlerInv'
  <2>1. d \notin payments
    BY <1>2 DEF HandlerInv
  <2>2. at'[d] \in {"done", "record"} /\ eventOf'[d] = e
    BY <1>1, <1>2, <1>3
  <2>3. \A g \in Deliveries \ {d} : at'[g] = at[g] /\ eventOf'[g] = eventOf[g]
    BY <1>1, <1>2, <1>3 DEF Handlers
  <2>4. \A v \in Invoices : at'[v] = at[v] /\ invoice'[v] = invoice[v]
    BY <1>1, <1>2, <1>3, HandlerKinds DEF money, Handlers, Readers
  <2>5. UNCHANGED <<events, payments, invoice>>
    BY <1>2 DEF money
  <2> HIDE DEF BillingTypeOK, MoveTo
  <2> QED
    BY <1>2, <2>1, <2>2, <2>3, <2>4, <2>5 DEF HandlerInv
<1>7. CopyInv' /\ IntentInv'
  BY <1>1, <1>2, <1>3, CopyKept DEF Handlers
<1> QED
  BY <1>5, <1>6, <1>7

\* The statements of a delivery once it has recorded its event.
PayAction(d) == Record(d) \/ Pay(d) \/ GetInvoice(d) \/ SumPayments(d) \/ SetPaid(d)

LEMMA BasePay ==
  ASSUME Base, NEW d \in Deliveries, PayAction(d)
  PROVE  Base'
<1> USE DEF Base, BillingTypeOK, Moved, MoveTo
<1>1. d \in Handlers /\ d \notin Invoices /\ {"pay", "read", "getinvoice", "sum", "setpaid", "done"} \subseteq PC
  BY HandlerKinds DEF Handlers, PC
<1>2. UNCHANGED <<number, sub, now, eventOf, copy, want, faults, past>>
  BY DEF PayAction, Record, Pay, GetInvoice, SumPayments, SetPaid, money, past
<1>3. CASE Record(d)
  <2>1. /\ at[d] = "record" /\ events' = events \cup {eventOf[d]}
        /\ at' = [at EXCEPT ![d] = IF eventOf[d] \in PayEvents THEN "pay" ELSE "read"]
        /\ UNCHANGED <<payments, invoice>>
    BY <1>3 DEF Record
  <2>2. eventOf[d] \in Events
    BY <2>1 DEF HandlerInv
  <2>3. BillingTypeOK'
    BY <1>1, <1>2, <2>1, <2>2 DEF past
  <2>4. HandlerInv'
    BY <1>1, <1>2, <2>1, <2>2, HandlerKinds DEF HandlerInv, Handlers
  <2>5. CopyInv' /\ IntentInv'
    BY <1>1, <1>2, <2>1, CopyKept DEF past, Handlers
  <2> QED
    BY <2>3, <2>4, <2>5
<1>4. CASE Pay(d)
  <2>1. /\ at[d] = "pay" /\ at' = [at EXCEPT ![d] = "getinvoice"]
        /\ payments' = payments \/ payments' = payments \cup {d}
        /\ UNCHANGED <<events, invoice>>
    BY <1>4 DEF Pay
  <2>3. BillingTypeOK'
    BY <1>1, <1>2, <2>1 DEF past
  <2>4. HandlerInv'
    BY <1>1, <1>2, <2>1, HandlerKinds DEF HandlerInv, Handlers
  <2>5. CopyInv' /\ IntentInv'
    BY <1>1, <1>2, <2>1, CopyKept DEF past, Handlers
  <2> QED
    BY <2>3, <2>4, <2>5
<1>5. CASE GetInvoice(d) \/ SumPayments(d)
  <2>1. PICK label \in {"sum", "setpaid", "done"} :
           /\ at[d] \in {"getinvoice", "sum"} /\ at' = [at EXCEPT ![d] = label]
           /\ UNCHANGED money
    BY <1>5 DEF GetInvoice, SumPayments
  <2>3. BillingTypeOK'
    BY <1>1, <1>2, <2>1 DEF past, money
  <2>4. HandlerInv'
    BY <1>1, <1>2, <2>1, HandlerKinds DEF HandlerInv, Handlers, money
  <2>5. CopyInv' /\ IntentInv'
    BY <1>1, <1>2, <2>1, CopyKept DEF past, Handlers
  <2> QED
    BY <2>3, <2>4, <2>5
<1>6. CASE SetPaid(d)
  <2>1. /\ at[d] = "setpaid" /\ at' = [at EXCEPT ![d] = "done"]
        /\ invoice' = [invoice EXCEPT ![InvoiceOf[eventOf[d]]] = "paid"]
        /\ UNCHANGED <<events, payments>>
    BY <1>6 DEF SetPaid
  <2>2. invoice[InvoiceOf[eventOf[d]]] # "none" /\ InvoiceOf[eventOf[d]] \in Invoices
    BY <2>1, BillingAssumption DEF HandlerInv
  <2>3. BillingTypeOK'
    BY <1>1, <1>2, <2>1, <2>2 DEF past
  <2>4. HandlerInv'
    <3>1. \A v \in Invoices : /\ at'[v] = at[v]
                              /\ invoice[v] # "none" => invoice'[v] # "none"
                              /\ invoice[v] = "none" => invoice'[v] = "none"
      BY <1>1, <2>1, <2>2
    <3> QED
      BY <1>1, <1>2, <2>1, <3>1, HandlerKinds, BillingAssumption DEF HandlerInv, Handlers
  <2>5. CopyInv' /\ IntentInv'
    BY <1>1, <1>2, <2>1, CopyKept DEF past, Handlers
  <2> QED
    BY <2>3, <2>4, <2>5
<1> QED
  BY <1>3, <1>4, <1>5, <1>6 DEF PayAction

LEMMA BaseOther ==
  ASSUME Base, Tick \/ (\E h \in Handlers : Fail(h)) \/ UNCHANGED billingVars
  PROVE  Base'
<1> USE DEF Base, BillingTypeOK, MoveTo
<1>1. CASE Tick
  <2>1. now' \in 0 .. MaxTime /\ UNCHANGED <<money, sub, calls, faults, past>>
    BY <1>1, BillingAssumption DEF Tick
  <2>2. BillingTypeOK' /\ HandlerInv'
    BY <2>1 DEF HandlerInv, money, calls, past
  <2>3. CopyInv' /\ IntentInv'
    BY <2>1, CopyKept DEF calls, past
  <2> QED
    BY <2>2, <2>3
<1>2. ASSUME NEW h \in Handlers, Fail(h) PROVE Base'
  <2>1. /\ at[h] \notin {"idle", "done", "dead"} /\ at' = [at EXCEPT ![h] = "dead"]
        /\ faults' = faults + 1 /\ faults < MaxFaults
        /\ cut' = IF h \in Deliveries THEN cut \cup {eventOf[h]} ELSE cut
        /\ copy' = [r \in DOMAIN copy |-> IF r = h THEN Null ELSE copy[r]]
        /\ UNCHANGED <<money, sub, now, eventOf, want, raced, intent, stale>>
    BY <1>2 DEF Fail
  <2>2. "dead" \in PC /\ (h \in Deliveries => eventOf[h] \in Events)
    BY <2>1 DEF PC, HandlerInv
  <2>3. BillingTypeOK'
    <3>1. faults' \in 0 .. MaxFaults
      BY <2>1, BillingAssumption
    <3>2. copy' \in [Deliveries \cup Readers -> Row \cup {Null}] /\ cut' \subseteq Events
      BY <2>1, <2>2
    <3> QED
      BY <2>1, <2>2, <3>1, <3>2 DEF money
  <2>4. HandlerInv'
    BY <2>1, HandlerKinds DEF HandlerInv, Handlers, Readers, money
  <2>5. CopyInv' /\ IntentInv'
    BY <2>1, CopyKept DEF Handlers
  <2> QED
    BY <2>3, <2>4, <2>5
<1>3. CASE UNCHANGED billingVars
  <2>1. UNCHANGED <<money, sub, now, calls, faults, past>>
    BY <1>3 DEF billingVars
  <2> QED
    BY <2>1, CopyKept DEF HandlerInv, money, calls, past
<1> QED
  BY <1>1, <1>2, <1>3

-----------------------------------------------------------------------------
(* Payments.                                                               *)

LEMMA RowsGrow ==
  ASSUME payments \subseteq payments', payments' \subseteq Deliveries,
         \A p \in payments : eventOf'[p] = eventOf[p], NEW v
  PROVE  /\ Rows(v) \subseteq Rows(v)' /\ IsFiniteSet(Rows(v)')
         /\ Cardinality(Rows(v)) <= Cardinality(Rows(v)')
         /\ Cardinality(Rows(v)) \in Nat /\ Cardinality(Rows(v)') \in Nat
<1>1. Rows(v) \subseteq Rows(v)' /\ Rows(v)' \subseteq Deliveries
  BY DEF Rows
<1> QED
  BY <1>1, BillingAssumption, FS_Subset, FS_CardinalityType

LEMMA RowsSame ==
  ASSUME UNCHANGED payments, \A p \in payments : eventOf'[p] = eventOf[p]
  PROVE  \A v : Rows(v)' = Rows(v)
BY DEF Rows

\* A delivery stands where MoneyInv looks at it.
Busy == {"record", "pay", "getinvoice", "sum", "setpaid"}

\* Steps that leave the payments, and the deliveries that make them, alone.
LEMMA MoneyKept ==
  ASSUME Base, MoneyInv, UNCHANGED <<events, payments, eventOf, cut, raced>>,
         \A w \in Invoices : invoice'[w] = "paid" <=> invoice[w] = "paid",
         \A d \in Deliveries : at'[d] = at[d] \/ (at[d] \notin Busy /\ at'[d] \notin Busy)
  PROVE  MoneyInv'
<1>1. \A v : Rows(v)' = Rows(v)
  BY RowsSame
<1>2. \A d \in Deliveries, l \in Busy : at'[d] = l <=> at[d] = l
  OBVIOUS
<1>3. RacedInv'
  BY <1>2 DEF MoneyInv, RacedInv, Paying, Busy
<1>4. IdInv'
  BY DEF MoneyInv, IdInv, Id
<1>5. CoverInv'
  BY <1>1, <1>2 DEF MoneyInv, CoverInv, Busy
<1>6. AppliedInv'
  BY <1>1, <1>2 DEF MoneyInv, AppliedInv, HasRow, Id, Busy
<1>7. SumInv'
  BY <1>1, <1>2 DEF MoneyInv, SumInv, Summing, Busy
<1> QED
  BY <1>3, <1>4, <1>5, <1>6, <1>7 DEF MoneyInv

LEMMA MoneyDeliver ==
  ASSUME Base, MoneyInv, NEW d \in Deliveries, NEW e \in Events, Deliver(d, e)
  PROVE  MoneyInv'
<1> USE DEF Base, BillingTypeOK
<1>1. /\ at[d] = "idle" /\ eventOf[d] = Null /\ eventOf' = [eventOf EXCEPT ![d] = e]
      /\ UNCHANGED <<events, payments, invoice, cut>> /\ d \notin payments /\ d \in Handlers
      /\ at' = [at EXCEPT ![d] = "done"] \/ at' = [at EXCEPT ![d] = "record"]
  BY DEF Deliver, Unsent, HandlerInv, money, MoveTo, Handlers
<1>2. /\ eventOf'[d] = e /\ at'[d] \in {"done", "record"}
      /\ \A g \in Deliveries \ {d} : at'[g] = at[g] /\ eventOf'[g] = eventOf[g]
      /\ eventOf[d] \notin PayEvents
  BY <1>1, BillingAssumption DEF Handlers, Events
<1>3. \A v : Rows(v)' = Rows(v)
  BY <1>1, <1>2, RowsSame
<1>4. \A p \in payments : p \in Deliveries /\ p # d /\ eventOf'[p] = eventOf[p]
  BY <1>1, <1>2
<1>5. raced \subseteq raced'
  BY DEF Deliver
<1>6. RacedInv'
  <2> SUFFICES ASSUME NEW p \in Deliveries, NEW q \in Deliveries,
                      p # q, eventOf'[p] = eventOf'[q], eventOf'[p] \in PayEvents,
                      Paying(p)', Paying(q)'
               PROVE  {p, q} \subseteq raced'
    BY DEF RacedInv
  <2>1. CASE p # d /\ q # d
    BY <1>1, <1>2, <1>5, <2>1 DEF MoneyInv, RacedInv, Paying
  <2>2. ASSUME NEW g \in Deliveries, g # d, eventOf[g] = e, Paying(g), at'[d] = "record",
               e \in PayEvents
        PROVE  {g, d} \subseteq raced'
    <3>1. e \notin events
      BY <1>1, <1>2, <2>2 DEF Deliver, MoveTo, Handlers
    <3>2. at[g] = "record"
      BY <2>2, <3>1 DEF Paying, HandlerInv
    <3>3. g \in Bringing(e)
      BY <2>2, <3>2 DEF Bringing
    <3>4. raced' = raced \cup {d} \cup Bringing(e)
      BY <3>1, <3>3 DEF Deliver
    <3> QED
      BY <3>3, <3>4
  <2>3. \A g \in Deliveries \ {d} : Paying(g)' <=> Paying(g)
    BY <1>1, <1>2 DEF Paying
  <2>4. Paying(d)' => at'[d] = "record"
    BY <1>1, <1>2 DEF Paying
  <2>5. CASE p = d
    BY <1>2, <2>2, <2>3, <2>4, <2>5
  <2>6. CASE q = d
    BY <1>2, <2>2, <2>3, <2>4, <2>6
  <2> QED
    BY <2>1, <2>5, <2>6
<1>7. \A p \in payments : Id(p)' = Id(p)
  BY <1>4 DEF Id
<1>8. IdInv'
  BY <1>1, <1>7 DEF MoneyInv, IdInv
<1>9. CoverInv'
  BY <1>1, <1>2, <1>3 DEF MoneyInv, CoverInv
<1>10. AppliedInv'
  <2>1. \A x : HasRow(x) => HasRow(x)'
    BY <1>3, <1>4, <1>7 DEF HasRow, Rows
  <2>2. \A x, g : g \in Deliveries /\ eventOf[g] = x /\ at[g] = "pay"
                     => eventOf'[g] = x /\ at'[g] = "pay"
    BY <1>1, <1>2
  <2> QED
    BY <1>1, <2>1, <2>2 DEF MoneyInv, AppliedInv
<1>11. SumInv'
  <2>1. ASSUME NEW v \in Invoices, Summing(v) PROVE Summing(v)'
    <3>1. PICK g \in Deliveries :
             /\ eventOf[g] \in PayEvents /\ InvoiceOf[eventOf[g]] = v
             /\ at[g] \in {"getinvoice", "sum", "setpaid"} \/ eventOf[g] \in cut
      BY <2>1 DEF Summing
    <3> QED
      BY <1>1, <1>2, <3>1 DEF Summing
  <2> QED
    BY <1>1, <1>3, <2>1 DEF MoneyInv, SumInv
<1> QED
  BY <1>6, <1>8, <1>9, <1>10, <1>11 DEF MoneyInv

LEMMA MoneyRecord ==
  ASSUME Base, MoneyInv, NEW d \in Deliveries, Record(d)
  PROVE  MoneyInv'
<1> USE DEF Base, BillingTypeOK
<1>1. /\ at[d] = "record" /\ events' = events \cup {eventOf[d]} /\ d \in Handlers
      /\ at' = [at EXCEPT ![d] = IF eventOf[d] \in PayEvents THEN "pay" ELSE "read"]
      /\ UNCHANGED <<payments, invoice, eventOf, cut, raced>>
  BY DEF Record, Moved, MoveTo, Handlers, past
<1>2. /\ \A g \in Deliveries \ {d} : at'[g] = at[g]
      /\ at'[d] = IF eventOf[d] \in PayEvents THEN "pay" ELSE "read"
  BY <1>1 DEF Handlers
<1>3. \A v : Rows(v)' = Rows(v)
  BY <1>1, RowsSame
<1>4. RacedInv'
  BY <1>1, <1>2 DEF MoneyInv, RacedInv, Paying
<1>5. IdInv'
  BY <1>1 DEF MoneyInv, IdInv, Id
<1>6. CoverInv'
  BY <1>1, <1>2, <1>3 DEF MoneyInv, CoverInv
<1>7. AppliedInv'
  <2>1. \A x : HasRow(x)' = HasRow(x)
    BY <1>1, <1>3 DEF HasRow, Id
  <2> QED
    BY <1>1, <1>2, <2>1 DEF MoneyInv, AppliedInv
<1>8. SumInv'
  BY <1>1, <1>2, <1>3 DEF MoneyInv, SumInv, Summing
<1> QED
  BY <1>4, <1>5, <1>6, <1>7, <1>8 DEF MoneyInv

LEMMA MoneyPay ==
  ASSUME Base, MoneyInv, NEW d \in Deliveries, Pay(d)
  PROVE  MoneyInv'
<1> USE DEF Base, BillingTypeOK
<1>1. /\ at[d] = "pay" /\ at' = [at EXCEPT ![d] = "getinvoice"] /\ d \in Handlers
      /\ payments' = IF Id(d) # Null /\ \E p \in payments : Id(p) = Id(d)
                       THEN payments ELSE payments \cup {d}
      /\ UNCHANGED <<events, invoice, eventOf, cut, raced>>
  BY DEF Pay, Moved, MoveTo, Handlers, past
<1>2. /\ at'[d] = "getinvoice" /\ \A g \in Deliveries \ {d} : at'[g] = at[g]
      /\ eventOf[d] \in PayEvents
  BY <1>1 DEF Handlers, HandlerInv
<1>3. \A v : Rows(v) \subseteq Rows(v)' /\ Cardinality(Rows(v)) <= Cardinality(Rows(v)')
             /\ Cardinality(Rows(v)) \in Nat /\ Cardinality(Rows(v)') \in Nat
  BY <1>1, RowsGrow
<1>4. \A g : Id(g)' = Id(g)
  BY <1>1 DEF Id
<1>5. RacedInv'
  <2>1. \A g \in Deliveries : Paying(g)' => Paying(g)
    BY <1>1, <1>2 DEF Paying
  <2> QED
    BY <1>1, <2>1 DEF MoneyInv, RacedInv
<1>6. IdInv'
  BY <1>1, <1>4 DEF MoneyInv, IdInv
<1>7. CoverInv'
  <2>1. \A v \in Invoices : Due[v] \in Nat
    BY BillingAssumption
  <2>2. \A g \in Deliveries : at'[g] = "setpaid" => at[g] = "setpaid" /\ eventOf[g] \in PayEvents
    BY <1>1, <1>2 DEF HandlerInv
  <2>3. \A e \in PayEvents : InvoiceOf[e] \in Invoices
    BY BillingAssumption
  <2> QED
    BY <1>1, <1>3, <2>1, <2>2, <2>3 DEF MoneyInv, CoverInv
<1>8. AppliedInv'
  <2> SUFFICES ASSUME NEW e \in events \cap PayEvents, e \notin cut,
                      ~ \E g \in Deliveries : eventOf[g] = e /\ at'[g] = "pay"
               PROVE  HasRow(e)'
    BY <1>1 DEF AppliedInv
  <2>1. CASE HasRow(e)
    BY <1>1, <1>3, <1>4, <2>1 DEF HasRow
  <2>2. CASE ~HasRow(e)
    <3>1. eventOf[d] = e /\ Id(d) = PaymentOf[e]
      BY <1>1, <1>2, <2>2 DEF MoneyInv, AppliedInv, Id
    <3>2. CASE payments' = payments \cup {d}
      BY <1>1, <3>1, <3>2 DEF HasRow, Rows
    <3>3. CASE Id(d) # Null /\ \E p \in payments : Id(p) = Id(d)
      <4>1. PICK p \in payments : Id(p) = Id(d) /\ Id(d) # Null
        BY <3>3
      <4>2. eventOf[p] \in PayEvents
        BY DEF HandlerInv
      <4>3. InvoiceOf[eventOf[p]] = InvoiceOf[e]
        BY <3>1, <4>1, <4>2, BillingAssumption DEF Id
      <4>4. p \in Rows(InvoiceOf[e])
        BY <4>3 DEF Rows
      <4> QED
        BY <2>2, <3>1, <4>1, <4>4 DEF HasRow
    <3> QED
      BY <1>1, <3>2, <3>3
  <2> QED
    BY <2>1, <2>2
<1>9. SumInv'
  <2> SUFFICES ASSUME NEW v \in Invoices, Cardinality(Rows(v)') >= Due[v], invoice[v] # "paid"
               PROVE  Summing(v)'
    BY <1>1 DEF SumInv
  <2>1. CASE Rows(v)' = Rows(v)
    <3>1. Summing(v)
      BY <2>1 DEF MoneyInv, SumInv
    <3>2. PICK g \in Deliveries :
             /\ eventOf[g] \in PayEvents /\ InvoiceOf[eventOf[g]] = v
             /\ at[g] \in {"getinvoice", "sum", "setpaid"} \/ eventOf[g] \in cut
      BY <3>1 DEF Summing
    <3> QED
      BY <1>1, <1>2, <3>2 DEF Summing
  <2>2. CASE Rows(v)' # Rows(v)
    <3>1. InvoiceOf[eventOf[d]] = v
      BY <1>1, <2>2 DEF Rows
    <3> QED
      BY <1>1, <1>2, <3>1 DEF Summing
  <2> QED
    BY <2>1, <2>2
<1> QED
  BY <1>5, <1>6, <1>7, <1>8, <1>9 DEF MoneyInv

LEMMA MoneySettle ==
  ASSUME Base, MoneyInv, NEW d \in Deliveries, GetInvoice(d) \/ SumPayments(d) \/ SetPaid(d)
  PROVE  MoneyInv'
<1> USE DEF Base, BillingTypeOK
<1> DEFINE v == InvoiceOf[eventOf[d]]
<1>1. /\ at[d] \in {"getinvoice", "sum", "setpaid"} /\ d \in Handlers
      /\ UNCHANGED <<events, payments, eventOf, cut, raced>>
  BY DEF GetInvoice, SumPayments, SetPaid, Moved, Handlers, past, money
<1>2. PICK label \in {"sum", "setpaid", "done"} : at' = [at EXCEPT ![d] = label]
  BY DEF GetInvoice, SumPayments, SetPaid, Moved, MoveTo
<1>3. /\ at'[d] = label /\ \A g \in Deliveries \ {d} : at'[g] = at[g]
      /\ eventOf[d] \in PayEvents /\ v \in Invoices /\ Due[v] \in Nat
  BY <1>1, <1>2, BillingAssumption DEF Handlers, HandlerInv
<1>4. \A w : Rows(w)' = Rows(w) /\ Cardinality(Rows(w)) \in Nat
  BY <1>1, RowsSame, RowsGrow
<1>5. RacedInv'
  BY <1>1, <1>3 DEF MoneyInv, RacedInv, Paying
<1>6. IdInv'
  BY <1>1 DEF MoneyInv, IdInv, Id
<1>7. AppliedInv'
  <2>1. \A x : HasRow(x)' = HasRow(x)
    BY <1>1, <1>4 DEF HasRow, Id
  <2>2. \A g \in Deliveries : at[g] = "pay" => at'[g] = "pay"
    BY <1>1, <1>3
  <2> QED
    BY <1>1, <2>1, <2>2 DEF MoneyInv, AppliedInv
\* What the step makes of the invoice and its sum.
<1>8. /\ label = "setpaid" => Cardinality(Rows(v)) >= Due[v]
      /\ \/ UNCHANGED invoice
         \/ /\ invoice' = [invoice EXCEPT ![v] = "paid"]
            /\ Cardinality(Rows(v)) >= Due[v]
      /\ label = "done" /\ Cardinality(Rows(v)) >= Due[v] => invoice'[v] = "paid"
  <2>1. CASE GetInvoice(d)
    <3>1. /\ UNCHANGED invoice
          /\ label = IF invoice[v] = "open" THEN "sum" ELSE "done"
      BY <1>3, <2>1 DEF GetInvoice, MoveTo, money, Handlers
    <3>2. invoice[v] \in {"open", "paid"}
      BY <1>3 DEF HandlerInv
    <3> QED
      BY <3>1, <3>2
  <2>2. CASE SumPayments(d)
    <3>1. /\ UNCHANGED invoice
          /\ label = IF Cardinality(Rows(v)) >= Due[v] THEN "setpaid" ELSE "done"
      BY <1>3, <2>2 DEF SumPayments, MoveTo, money, Handlers
    <3> QED
      BY <1>3, <1>4, <3>1
  <2>3. CASE SetPaid(d)
    <3>1. /\ at[d] = "setpaid" /\ label = "done"
          /\ invoice' = [invoice EXCEPT ![v] = "paid"]
      BY <1>3, <2>3 DEF SetPaid, Moved, MoveTo, Handlers
    <3>2. Cardinality(Rows(v)) >= Due[v]
      BY <3>1 DEF MoneyInv, CoverInv
    <3> QED
      BY <1>3, <3>1, <3>2
  <2> QED
    BY <2>1, <2>2, <2>3
<1>9. CoverInv'
  <2>1. \A w \in Invoices : invoice'[w] = "paid" => invoice[w] = "paid" \/ Cardinality(Rows(w)) >= Due[w]
    BY <1>3, <1>8
  <2> QED
    BY <1>1, <1>3, <1>4, <1>8, <2>1 DEF MoneyInv, CoverInv
<1>10. SumInv'
  <2> SUFFICES ASSUME NEW w \in Invoices, Cardinality(Rows(w)) >= Due[w], invoice'[w] # "paid"
               PROVE  Summing(w)'
    BY <1>4 DEF SumInv
  <2>1. invoice[w] # "paid"
    BY <1>8
  <2>2. PICK g \in Deliveries :
           /\ eventOf[g] \in PayEvents /\ InvoiceOf[eventOf[g]] = w
           /\ at[g] \in {"getinvoice", "sum", "setpaid"} \/ eventOf[g] \in cut
    BY <2>1 DEF MoneyInv, SumInv, Summing
  <2>3. CASE g # d
    BY <1>1, <1>3, <2>2, <2>3 DEF Summing
  <2>4. CASE g = d
    <3>1. label # "done"
      BY <1>8, <2>2, <2>4
    <3> QED
      BY <1>1, <1>3, <2>2, <2>4, <3>1 DEF Summing
  <2> QED
    BY <2>3, <2>4
<1> QED
  BY <1>5, <1>6, <1>7, <1>9, <1>10 DEF MoneyInv

LEMMA MoneyFail ==
  ASSUME Base, MoneyInv, NEW h \in Handlers, Fail(h)
  PROVE  MoneyInv'
<1> USE DEF Base, BillingTypeOK
<1>1. /\ at[h] \notin {"idle", "done", "dead"} /\ at' = [at EXCEPT ![h] = "dead"]
      /\ cut' = IF h \in Deliveries THEN cut \cup {eventOf[h]} ELSE cut
      /\ UNCHANGED <<events, payments, invoice, eventOf, raced>>
  BY DEF Fail, MoveTo, money
<1>2. /\ at'[h] = "dead" /\ \A g \in Deliveries \ {h} : at'[g] = at[g]
      /\ cut \subseteq cut' /\ (h \in Deliveries => eventOf[h] \in cut')
  BY <1>1 DEF Handlers
<1>3. \A w : Rows(w)' = Rows(w)
  BY <1>1, RowsSame
<1>4. RacedInv'
  <2>1. \A g \in Deliveries : Paying(g)' => Paying(g)
    BY <1>1, <1>2 DEF Paying
  <2> QED
    BY <1>1, <2>1 DEF MoneyInv, RacedInv
<1>5. IdInv'
  BY <1>1 DEF MoneyInv, IdInv, Id
<1>6. CoverInv'
  BY <1>1, <1>2, <1>3 DEF MoneyInv, CoverInv
<1>7. AppliedInv'
  <2>1. \A x : HasRow(x)' = HasRow(x)
    BY <1>1, <1>3 DEF HasRow, Id
  <2>2. \A g \in Deliveries : at[g] = "pay" => at'[g] = "pay" \/ eventOf[g] \in cut'
    BY <1>2
  <2> QED
    BY <1>1, <1>2, <2>1, <2>2 DEF MoneyInv, AppliedInv
<1>8. SumInv'
  <2>1. ASSUME NEW v \in Invoices, Summing(v) PROVE Summing(v)'
    <3>1. PICK g \in Deliveries :
             /\ eventOf[g] \in PayEvents /\ InvoiceOf[eventOf[g]] = v
             /\ at[g] \in {"getinvoice", "sum", "setpaid"} \/ eventOf[g] \in cut
      BY <2>1 DEF Summing
    <3> QED
      BY <1>1, <1>2, <3>1 DEF Summing
  <2> QED
    BY <1>1, <1>3, <2>1 DEF MoneyInv, SumInv
<1> QED
  BY <1>4, <1>5, <1>6, <1>7, <1>8 DEF MoneyInv

-----------------------------------------------------------------------------
LEMMA InvInit == BillingInit => Base /\ MoneyInv
<1> SUFFICES ASSUME BillingInit PROVE Base /\ MoneyInv
  OBVIOUS
<1> USE DEF BillingInit
<1>1. BillingTypeOK
  <2>1. Cardinality(Invoices) \in Nat
    BY BillingAssumption, FS_CardinalityType
  <2>2. "idle" \in PC /\ 0 \in 0 .. Cardinality(Invoices) /\ 0 \in 0 .. MaxTime /\ 0 \in 0 .. MaxFaults
    BY <2>1, BillingAssumption DEF PC
  <2> QED
    BY <2>2 DEF BillingTypeOK
<1>2. HandlerInv
  BY BillingAssumption DEF HandlerInv, Handlers, Readers, Events
<1>3. CopyInv /\ IntentInv
  BY RowIsRow DEF CopyInv, IntentInv, RowFollowsIntent, Handlers
<1>4. \A v : Rows(v) = {} /\ Cardinality(Rows(v)) = 0
  BY FS_EmptySet DEF Rows
<1>5. MoneyInv
  <2>1. \A v \in Invoices : ~(0 >= Due[v])
    BY BillingAssumption
  <2>2. \A d \in Deliveries : at[d] = "idle" /\ eventOf[d] = Null
    BY DEF Handlers
  <2>3. RacedInv /\ IdInv /\ AppliedInv
    BY <2>2 DEF RacedInv, IdInv, AppliedInv, Paying
  <2>4. CoverInv /\ SumInv
    BY <1>4, <2>1, <2>2 DEF CoverInv, SumInv
  <2> QED
    BY <2>3, <2>4 DEF MoneyInv
<1> QED
  BY <1>1, <1>2, <1>3, <1>5 DEF Base

LEMMA InvStep == Base /\ MoneyInv /\ [BillingNext]_billingVars => Base' /\ MoneyInv'
<1> SUFFICES ASSUME Base, MoneyInv, [BillingNext]_billingVars PROVE Base' /\ MoneyInv'
  OBVIOUS
<1>1. ASSUME NEW v \in Invoices, CountInvoices(v) \/ InsertInvoice(v) PROVE Base' /\ MoneyInv'
  <2>1. Base' /\ \A w \in Invoices : invoice'[w] = "paid" <=> invoice[w] = "paid"
    BY <1>1, BaseInvoice
  <2>2. \A d \in Deliveries : at'[d] = at[d]
    BY <1>1, HandlerKinds DEF CountInvoices, InsertInvoice, Moved, MoveTo, Base, BillingTypeOK, Handlers
  <2>3. UNCHANGED <<events, payments, eventOf, cut, raced>>
    BY <1>1 DEF CountInvoices, InsertInvoice, past
  <2> QED
    BY <2>1, <2>2, <2>3, MoneyKept
<1>2. ASSUME NEW d \in Deliveries, NEW e \in Events, Deliver(d, e) PROVE Base' /\ MoneyInv'
  BY <1>2, BaseDeliver, MoneyDeliver
<1>3. ASSUME NEW d \in Deliveries, PayAction(d) PROVE Base' /\ MoneyInv'
  BY <1>3, BasePay, MoneyRecord, MoneyPay, MoneySettle DEF PayAction
<1>4. ASSUME NEW h, SubAction(h) PROVE Base' /\ MoneyInv'
  <2>1. SubOnly /\ Base'
    BY <1>4, SubType, BaseSub DEF Base
  <2>2. \A d \in Deliveries : at'[d] = at[d] \/ (at[d] \notin Busy /\ at'[d] \notin Busy)
    BY <2>1, BillingAssumption DEF SubOnly, Busy, Handlers, Readers
  <2> QED
    BY <2>1, <2>2, MoneyKept DEF SubOnly, money
<1>5. CASE Tick
  BY <1>5, BaseOther, MoneyKept DEF Tick, money, calls, past
<1>6. ASSUME NEW h \in Handlers, Fail(h) PROVE Base' /\ MoneyInv'
  BY <1>6, BaseOther, MoneyFail
<1>7. CASE UNCHANGED billingVars
  BY <1>7, BaseOther, MoneyKept DEF billingVars, money, calls, past
<1> QED
  BY <1>1, <1>2, <1>3, <1>4, <1>5, <1>6, <1>7
  DEF BillingNext, InvoiceStep, EventStep, SubStep, PayAction, SubAction, Handlers

LEMMA BillingInvHolds == BillingSpec => [](Base /\ MoneyInv)
BY InvInit, InvStep, PTL DEF BillingSpec

\* Every variable of the billing service keeps its type; in particular the
\* invoices of a period are numbered within their count, whatever requests for
\* one overlap.
THEOREM BillingTypeCorrect == BillingSpec => []BillingTypeOK
<1>1. Base => BillingTypeOK
  BY DEF Base
<1> QED
  BY <1>1, BillingInvHolds, PTL

\* An invoice that is paid has as many different payments as are due, or two
\* deliveries of an event without a payment id were under way at once: however
\* often and in whatever order the provider delivers, and whatever fails.
THEOREM PaidInvoicesAreCovered == BillingSpec => []PaidIsCovered
<1>1. Base /\ MoneyInv => PaidIsCovered
  <2> SUFFICES ASSUME Base, MoneyInv, NEW v \in Invoices, invoice[v] = "paid",
                      ~ \E p, q \in Rows(v) : p # q /\ eventOf[p] = eventOf[q] /\ Id(p) = Null
                                              /\ {p, q} \subseteq raced
               PROVE  Cardinality(Charges(v)) >= Due[v]
    BY DEF PaidIsCovered
  <2> DEFINE charge(p) == IF Id(p) # Null THEN Id(p) ELSE eventOf[p]
             f == [p \in Rows(v) |-> charge(p)]
  <2>1. /\ Rows(v) \subseteq Deliveries /\ IsFiniteSet(Rows(v))
        /\ \A p \in Rows(v) : p \in payments /\ eventOf[p] \in PayEvents
        /\ Cardinality(Rows(v)) >= Due[v]
    BY BillingAssumption, FS_Subset DEF Rows, Base, BillingTypeOK, HandlerInv, MoneyInv, CoverInv
  <2>2. ASSUME NEW p \in Rows(v), NEW q \in Rows(v), charge(p) = charge(q) PROVE p = q
    <3>1. CASE Id(p) # Null /\ Id(q) # Null
      BY <2>1, <2>2, <3>1 DEF MoneyInv, IdInv
    <3>2. CASE Id(p) = Null /\ Id(q) = Null
      <4>1. Paying(p) /\ Paying(q) /\ eventOf[p] = eventOf[q]
        BY <2>1, <2>2, <3>2 DEF Paying
      <4> QED
        BY <2>1, <3>2, <4>1 DEF MoneyInv, RacedInv
    <3>3. CASE Id(p) # Null /\ Id(q) = Null
      BY <2>1, <2>2, <3>3, BillingAssumption DEF Id
    <3>4. CASE Id(p) = Null /\ Id(q) # Null
      BY <2>1, <2>2, <3>4, BillingAssumption DEF Id
    <3> QED
      BY <3>1, <3>2, <3>3, <3>4
  <2>3. Charges(v) = {f[p] : p \in Rows(v)}
    BY DEF Charges
  <2>4. f \in Bijection(Rows(v), Charges(v))
    BY <2>2, <2>3 DEF Bijection, Injection, Surjection, IsInjective
  <2>5. Cardinality(Charges(v)) = Cardinality(Rows(v))
    BY <2>1, <2>4, FS_Bijection DEF ExistsBijection
  <2> QED
    BY <2>1, <2>5
<1> QED
  BY <1>1, BillingInvHolds, PTL

\* Once its deliveries have ended without a fault, a recorded payment has its
\* row and an invoice that the rows cover is paid, whichever delivery summed.
THEOREM RecordedPaymentsAreApplied == BillingSpec => []RecordedIsApplied
<1>1. Base /\ MoneyInv => RecordedIsApplied
  <2> SUFFICES ASSUME Base, MoneyInv, NEW e \in events \cap PayEvents,
                      \A x \in PayEvents : InvoiceOf[x] = InvoiceOf[e]
                                           => Bringing(x) = {} /\ x \notin cut
               PROVE  /\ HasRow(e)
                      /\ Cardinality(Rows(InvoiceOf[e])) >= Due[InvoiceOf[e]]
                           => invoice[InvoiceOf[e]] = "paid"
    BY DEF RecordedIsApplied, HasRow
  <2>1. HasRow(e)
    BY DEF MoneyInv, AppliedInv, Bringing
  <2>2. ~Summing(InvoiceOf[e])
    BY DEF Summing, Bringing
  <2> QED
    BY <2>1, <2>2, BillingAssumption DEF MoneyInv, SumInv
<1> QED
  BY <1>1, BillingInvHolds, PTL

\* The subscription says what the last change, cancellation or expiry made of
\* it, unless a handler put back a row it had read before that; and an expired
\* one is on the free plan.
THEOREM TheRowFollowsIntent == BillingSpec => []RowFollowsIntent
<1>1. Base => RowFollowsIntent
  BY DEF Base, IntentInv
<1> QED
  BY <1>1, BillingInvHolds, PTL
=============================================================================
