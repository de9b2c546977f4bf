--------------------------- MODULE AgentApprovals ---------------------------
(***************************************************************************)
(* Agent tokens and the approval gate for destructive agent operations:    *)
(* packages/agents/src/service.ts on its Drizzle stores, called by         *)
(* gateDestructive of apps/api/src/agents.ts and by the worker's           *)
(* maintenance.  Tokens here always need an approval (approvalRequired, or *)
(* production), which is when the gate does anything.                      *)
(*                                                                         *)
(* An operation request creates at most one approval row, which bears its  *)
(* name; a rotation inserts a token row that bears the rotation's name.    *)
(***************************************************************************)
EXTENDS Naturals

CONSTANTS
    Requests,       \* destructive requests of agents, and approval rows
    Operation,      \* of each request: what its method, path and body name
    Rotations,      \* rotate requests, and the token rows they insert
    FirstToken,     \* the token issued before
    Decisions,      \* approve and reject requests of managers
    OrgListed,      \* whether runMaintenance is given the organization
    MaxCrashes,     \* bound: restarts of the API
    None

Tokens == Rotations \cup {FirstToken}

ASSUME ConstantsAssumption ==
    /\ None \notin Requests \cup Tokens
    /\ FirstToken \notin Rotations
    /\ OrgListed \in BOOLEAN
    /\ MaxCrashes \in Nat

ApprovalStatus == {"pending", "approved", "rejected", "expired", "consumed"}

VARIABLES
    status,     \* of each approval row, "none" before it is created
    owner,      \* the token an approval was requested with
    overdue,    \* approvals whose expiresAt has passed
    token,      \* of each token row: "none", "live", "revoked"
    pc,         \* per request: "idle", "gate", "mark", "execute", "done"
    bearer,     \* per request: its token
    shown,      \* per request: the approval id it presents, or None
    dpc,        \* per decision: "idle", "decide", "expire", "done"
    subject,    \* per decision: its approval
    choice,     \* per decision: "approved" or "rejected"
    rpc,        \* per rotation: "idle", "revoke", "save", "done"
    predecessor,\* per rotation: the token it replaces
    due,        \* the rows maintenance has listed and not yet expired
    executed,   \* history: requests whose operation ran
    granted,    \* history: approvals a manager approved
    crashes

approvals == <<status, owner, overdue>>
requests  == <<pc, bearer, shown, executed>>
decisions == <<dpc, subject, choice, granted>>
rotations == <<rpc, predecessor>>
vars == <<approvals, token, requests, decisions, rotations, due, crashes>>

TypeOK ==
    /\ status \in [Requests -> ApprovalStatus \cup {"none"}]
    /\ owner \in [Requests -> Tokens \cup {None}]
    /\ overdue \subseteq Requests
    /\ token \in [Tokens -> {"none", "live", "revoked"}]
    /\ pc \in [Requests -> {"idle", "gate", "mark", "execute", "done"}]
    /\ bearer \in [Requests -> Tokens \cup {None}]
    /\ shown \in [Requests -> Requests \cup {None}]
    /\ dpc \in [Decisions -> {"idle", "decide", "expire", "done"}]
    /\ subject \in [Decisions -> Requests \cup {None}]
    /\ choice \in [Decisions -> {"approved", "rejected", None}]
    /\ rpc \in [Rotations -> {"idle", "revoke", "save", "done"}]
    /\ predecessor \in [Rotations -> Tokens \cup {None}]
    /\ due \subseteq Requests
    /\ executed \subseteq Requests
    /\ granted \subseteq Requests
    /\ crashes \in 0 .. MaxCrashes

Init ==
    /\ status = [a \in Requests |-> "none"]
    /\ owner = [a \in Requests |-> None]
    /\ overdue = {}
    /\ token = [t \in Tokens |-> IF t = FirstToken THEN "live" ELSE "none"]
    /\ pc = [r \in Requests |-> "idle"]
    /\ bearer = [r \in Requests |-> None]
    /\ shown = [r \in Requests |-> None]
    /\ dpc = [d \in Decisions |-> "idle"]
    /\ subject = [d \in Decisions |-> None]
    /\ choice = [d \in Decisions |-> None]
    /\ rpc = [q \in Rotations |-> "idle"]
    /\ predecessor = [q \in Rotations |-> None]
    /\ due = {} /\ executed = {} /\ granted = {}
    /\ crashes = 0

Goto(r, label) == pc' = [pc EXCEPT ![r] = label]

\* DrizzleApprovalStore.transition: one UPDATE conditional on the status.
Transition(a, from, to) ==
    status' = IF status[a] = from THEN [status EXCEPT ![a] = to] ELSE status

-----------------------------------------------------------------------------
(* A destructive request of an agent.                                      *)

\* verifyToken admits only a token that is not revoked.  The agent may
\* present any approval there is, and may send one request again.
Verify(r) ==
    /\ pc[r] = "idle"
    /\ \E t \in Tokens, a \in {b \in Requests : status[b] # "none"} \cup {None} :
          /\ token[t] # "none"
          /\ Goto(r, IF token[t] = "live" THEN "gate" ELSE "done")
          /\ bearer' = [bearer EXCEPT ![r] = t]
          /\ shown' = [shown EXCEPT ![r] = a]
    /\ UNCHANGED <<approvals, token, executed, decisions, rotations, due, crashes>>

\* Without an approval the operation is held: 428 with a new approval id.
RequestApproval(r) ==
    /\ pc[r] = "gate" /\ shown[r] = None
    /\ Goto(r, "done")
    /\ status' = [status EXCEPT ![r] = "pending"]
    /\ owner' = [owner EXCEPT ![r] = bearer[r]]
    /\ UNCHANGED <<overdue, token, bearer, shown, executed, decisions, rotations, due, crashes>>

\* Mutation: the fingerprint is not compared.
AdmissibleAnyOperation(r, a) ==
    owner[a] = bearer[r] /\ status[a] = "approved" /\ a \notin overdue

\* consumeApproval's checks, on the row it reads.  The markExpired of an
\* approved row that is overdue changes nothing: only pending rows expire.
Admissible(r, a) ==
    /\ owner[a] = bearer[r]
    /\ status[a] = "approved"
    /\ a \notin overdue
    /\ Operation[a] = Operation[r]

CheckApproval(r) ==
    /\ pc[r] = "gate" /\ shown[r] # None
    /\ Goto(r, IF Admissible(r, shown[r]) THEN "mark" ELSE "done")
    /\ UNCHANGED <<approvals, token, bearer, shown, executed, decisions, rotations, due, crashes>>

\* Mutation: the result of markConsumed is not looked at.
MarkConsumedBlind(r) ==
    /\ pc[r] = "mark"
    /\ Goto(r, "execute")
    /\ Transition(shown[r], "approved", "consumed")
    /\ UNCHANGED <<owner, overdue, token, bearer, shown, executed, decisions, rotations, due, crashes>>

\* markConsumed decides between requests that all passed the checks.
MarkConsumed(r) ==
    /\ pc[r] = "mark"
    /\ Goto(r, IF status[shown[r]] = "approved" THEN "execute" ELSE "done")
    /\ Transition(shown[r], "approved", "consumed")
    /\ UNCHANGED <<owner, overdue, token, bearer, shown, executed, decisions, rotations, due, crashes>>

\* The handler goes on with its operation, which may fail.
Execute(r) ==
    /\ pc[r] = "execute"
    /\ Goto(r, "done")
    /\ executed' \in {executed, executed \cup {r}}
    /\ UNCHANGED <<approvals, token, bearer, shown, decisions, rotations, due, crashes>>

-----------------------------------------------------------------------------
(* A manager's decision.                                                   *)

ReadForDecision(d) ==
    /\ dpc[d] = "idle"
    /\ \E a \in {b \in Requests : status[b] # "none"}, v \in {"approved", "rejected"} :
          /\ subject' = [subject EXCEPT ![d] = a]
          /\ choice' = [choice EXCEPT ![d] = v]
          /\ dpc' = [dpc EXCEPT ![d] = IF status[a] # "pending" THEN "done"
                                       ELSE IF a \in overdue THEN "expire" ELSE "decide"]
    /\ UNCHANGED <<approvals, token, requests, granted, rotations, due, crashes>>

Decide(d) ==
    /\ dpc[d] = "decide"
    /\ dpc' = [dpc EXCEPT ![d] = "done"]
    /\ Transition(subject[d], "pending", choice[d])
    /\ granted' = IF status[subject[d]] = "pending" /\ choice[d] = "approved"
                    THEN granted \cup {subject[d]} ELSE granted
    /\ UNCHANGED <<owner, overdue, token, requests, subject, choice, rotations, due, crashes>>

ExpireAtDecision(d) ==
    /\ dpc[d] = "expire"
    /\ dpc' = [dpc EXCEPT ![d] = "done"]
    /\ Transition(subject[d], "pending", "expired")
    /\ UNCHANGED <<owner, overdue, token, requests, subject, choice, granted, rotations, due, crashes>>

-----------------------------------------------------------------------------
(* Time, and the worker's maintenance, which lists and then expires.       *)

BecomesOverdue(a) ==
    /\ status[a] # "none"
    /\ a \notin overdue
    /\ overdue' = overdue \cup {a}
    /\ UNCHANGED <<status, owner, token, requests, decisions, rotations, due, crashes>>

MaintenanceList ==
    /\ OrgListed
    /\ due = {}
    /\ due' = {a \in Requests : status[a] = "pending" /\ a \in overdue}
    /\ UNCHANGED <<approvals, token, requests, decisions, rotations, crashes>>

MaintenanceExpire(a) ==
    /\ a \in due
    /\ due' = due \ {a}
    /\ Transition(a, "pending", "expired")
    /\ UNCHANGED <<owner, overdue, token, requests, decisions, rotations, crashes>>

-----------------------------------------------------------------------------
(* Revoking a token and rotating its secret.                               *)

Revoke(t) ==
    /\ token[t] = "live"
    /\ token' = [token EXCEPT ![t] = "revoked"]
    /\ UNCHANGED <<approvals, requests, decisions, rotations, due, crashes>>

ReadForRotation(q) ==
    /\ rpc[q] = "idle"
    /\ \E t \in Tokens :
          /\ token[t] = "live"
          /\ predecessor' = [predecessor EXCEPT ![q] = t]
    /\ rpc' = [rpc EXCEPT ![q] = "revoke"]
    /\ UNCHANGED <<approvals, token, requests, decisions, due, crashes>>

\* tokens.revoke; that it found the token revoked already is not looked at.
RevokePredecessor(q) ==
    /\ rpc[q] = "revoke"
    /\ rpc' = [rpc EXCEPT ![q] = "save"]
    /\ token' = [token EXCEPT ![predecessor[q]] = "revoked"]
    /\ UNCHANGED <<approvals, requests, decisions, predecessor, due, crashes>>

\* tokens.save inserts a row with the new secret and an id of its own.
SaveSuccessor(q) ==
    /\ rpc[q] = "save"
    /\ rpc' = [rpc EXCEPT ![q] = "done"]
    /\ token' = [token EXCEPT ![q] = "live"]
    /\ UNCHANGED <<approvals, requests, decisions, predecessor, due, crashes>>

-----------------------------------------------------------------------------
Stopped(counter) == [x \in DOMAIN counter |-> IF counter[x] = "idle" THEN "idle" ELSE "done"]

\* The API restarts: handlers stop where they are.
Crash ==
    /\ crashes < MaxCrashes
    /\ crashes' = crashes + 1
    /\ pc' = Stopped(pc) /\ dpc' = Stopped(dpc) /\ rpc' = Stopped(rpc)
    /\ UNCHANGED <<approvals, token, bearer, shown, executed, subject, choice, granted,
                   predecessor, due>>

RequestStep(r) == RequestApproval(r) \/ CheckApproval(r) \/ MarkConsumed(r) \/ Execute(r)
DecisionStep(d) == Decide(d) \/ ExpireAtDecision(d)
RotationStep(q) == RevokePredecessor(q) \/ SaveSuccessor(q)

Next ==
    \/ \E r \in Requests : Verify(r) \/ RequestStep(r) \/ BecomesOverdue(r) \/ MaintenanceExpire(r)
    \/ \E d \in Decisions : ReadForDecision(d) \/ DecisionStep(d)
    \/ \E q \in Rotations : ReadForRotation(q) \/ RotationStep(q)
    \/ \E t \in Tokens : Revoke(t)
    \/ MaintenanceList
    \/ Crash

Spec == Init /\ [][Next]_vars

\* Handlers run on, and the worker's interval keeps firing.
FairSpec ==
    /\ Spec
    /\ \A r \in Requests : WF_vars(RequestStep(r)) /\ WF_vars(MaintenanceExpire(r))
    /\ \A d \in Decisions : WF_vars(DecisionStep(d))
    /\ \A q \in Rotations : WF_vars(RotationStep(q))
    /\ WF_vars(MaintenanceList)

-----------------------------------------------------------------------------
(* Properties.                                                             *)

RanOn == [a \in Requests |-> {r \in executed : shown[r] = a}]

Grant == INSTANCE OneTimeGrant
           WITH Grants <- Requests, Operations <- Requests, state <- status, by <- RanOn

\* An approval admits at most one run, whichever requests, decisions, expiries
\* and restarts interleave: it implements a one-time grant.
ImplementsGrant == Grant!Spec

\* An operation runs only on an approval that a manager gave, that was asked
\* for with the same token and for the same operation.
RunsAsApproved ==
    \A r \in executed :
        /\ shown[r] \in granted
        /\ owner[shown[r]] = bearer[r]
        /\ Operation[shown[r]] = Operation[r]

=============================================================================
