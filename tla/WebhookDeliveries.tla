-------------------------- MODULE WebhookDeliveries --------------------------
(***************************************************************************)
(* Outbound webhooks of packages/automation on the Drizzle store: an event *)
(* is fanned out to delivery rows, the API attempts each inline            *)
(* (emitAutomationEvent), the worker retries what is due, managers test,   *)
(* replay, disable and delete.  Every awaited call is one step.            *)
(*                                                                         *)
(* An emit makes at most one delivery per webhook, named by the pair.  A   *)
(* test or replay request is an emit to one webhook.                       *)
(***************************************************************************)
EXTENDS Naturals, FiniteSets

CONSTANTS
    Events,         \* project events to emit
    Tests,          \* test and replay requests
    Hooks,          \* webhooks of the project, all subscribed to the events
    MaxAttempts,    \* the webhooks' maxAttempts
    Backoffs,       \* length of the backoff table
    MaxEmits,       \* bound: events and tests sent
    MaxCrashes,     \* bound: restarts of the API and attempts of it a statement cuts off
    MaxRestarts,    \* bound: the same of the worker
    Worker, None

Emits      == Events \cup Tests
Deliveries == Emits \X Hooks
Actors     == Emits \cup {Worker}
Hook(d)    == d[2]

\* Attempts after which a delivery fails: maxAttempts, or earlier when the table
\* has no wait left.
Limit == IF MaxAttempts <= Backoffs THEN MaxAttempts ELSE Backoffs + 1

\* bound: tries are counted up to one above TriesAreBounded
MaxTries == 2 * Limit + MaxRestarts + 1

ASSUME ConstantsAssumption ==
    /\ Events \cap Tests = {}
    /\ Worker \notin Emits
    /\ None \notin Deliveries
    /\ MaxAttempts \in Nat \ {0}
    /\ Backoffs \in Nat
    /\ MaxEmits \in Nat
    /\ MaxCrashes \in Nat
    /\ MaxRestarts \in Nat

VARIABLES
    hook,       \* of each webhook: "enabled", "disabled", "deleted"
    deleting,   \* webhooks whose deliveries a DELETE has removed
    status,     \* of each delivery row; "none" before, "gone" after it is stored
    attempts,   \* length of its attempts list
    next,       \* its nextAttemptAt: "due", "later", "null"
    emit,       \* per emit: "idle", "fan", "inline", "done"
    todo,       \* per emit: webhooks to make deliveries for, then to attempt
    cur,        \* per actor: the delivery it attempts, or None
    stage,      \* per actor: "idle", "drop", "mark", "send", "record"
    seen,       \* per actor: the attempts count it read with the delivery
    outcome,    \* per actor: whether the receiver's answer was a 2xx
    due,        \* deliveries the worker has listed and not yet come to
    listed,     \* ... with their attempts counts
    tries,      \* history: calls of deliver per delivery, counted to MaxTries
    received,   \* history: deliveries some receiver has taken
    dropped,    \* history: deliveries given up because of their webhook
    crashes,    \* restarts of the API, and attempts of it that a statement cut off
    restarts    \* the same of the worker

hooks == <<hook, deleting>>
rows  == <<status, attempts, next>>
fan   == <<emit, todo>>
try   == <<cur, stage, seen, outcome>>
list  == <<due, listed>>
ghost == <<tries, received, dropped>>
faults == <<crashes, restarts>>
vars  == <<hooks, rows, fan, try, list, ghost, faults>>

TypeOK ==
    /\ hook \in [Hooks -> {"enabled", "disabled", "deleted"}]
    /\ deleting \subseteq Hooks
    /\ status \in [Deliveries -> {"none", "pending", "sending", "succeeded", "failed", "gone"}]
    /\ attempts \in [Deliveries -> 0 .. Limit]
    /\ next \in [Deliveries -> {"due", "later", "null"}]
    /\ emit \in [Emits -> {"idle", "fan", "inline", "done"}]
    /\ todo \in [Emits -> SUBSET Hooks]
    /\ cur \in [Actors -> Deliveries \cup {None}]
    /\ stage \in [Actors -> {"idle", "drop", "mark", "send", "record"}]
    /\ seen \in [Actors -> 0 .. Limit]
    /\ outcome \in [Actors -> BOOLEAN]
    /\ due \subseteq Deliveries
    /\ listed \in [Deliveries -> 0 .. Limit]
    /\ tries \in [Deliveries -> 0 .. MaxTries]
    /\ received \subseteq Deliveries
    /\ dropped \subseteq Deliveries
    /\ crashes \in 0 .. MaxCrashes
    /\ restarts \in 0 .. MaxRestarts

Init ==
    /\ hook = [h \in Hooks |-> "enabled"]
    /\ deleting = {}
    /\ status = [d \in Deliveries |-> "none"]
    /\ attempts = [d \in Deliveries |-> 0]
    /\ next = [d \in Deliveries |-> "null"]
    /\ emit = [e \in Emits |-> "idle"]
    /\ todo = [e \in Emits |-> {}]
    /\ cur = [a \in Actors |-> None]
    /\ stage = [a \in Actors |-> "idle"]
    /\ seen = [a \in Actors |-> 0]
    /\ outcome = [a \in Actors |-> FALSE]
    /\ due = {}
    /\ listed = [d \in Deliveries |-> 0]
    /\ tries = [d \in Deliveries |-> 0]
    /\ received = {} /\ dropped = {}
    /\ crashes = 0 /\ restarts = 0

Stored(d) == status[d] \notin {"none", "gone"}

\* What an actor knows of its attempt; it forgets it with the attempt.
Forget(A) ==
    /\ stage' = [a \in Actors |-> IF a \in A THEN "idle" ELSE stage[a]]
    /\ cur' = [a \in Actors |-> IF a \in A THEN None ELSE cur[a]]
    /\ seen' = [a \in Actors |-> IF a \in A THEN 0 ELSE seen[a]]
    /\ outcome' = [a \in Actors |-> IF a \in A THEN FALSE ELSE outcome[a]]

-----------------------------------------------------------------------------
(* Fan-out: list the webhooks, insert a delivery for each.                 *)

MaySend(e) == emit[e] = "idle" /\ Cardinality({x \in Emits : emit[x] # "idle"}) < MaxEmits

\* emit lists the enabled webhooks of the project.
Emit(e) ==
    /\ MaySend(e)
    /\ LET matched == {h \in Hooks : hook[h] = "enabled"} IN
         /\ todo' = [todo EXCEPT ![e] = matched]
         /\ emit' = [emit EXCEPT ![e] = IF matched = {} THEN "done" ELSE "fan"]
    /\ UNCHANGED <<hooks, rows, try, list, ghost, faults>>

\* The test and replay routes look their webhook up and insert, enabled or not.
Test(t) ==
    /\ MaySend(t)
    /\ \E h \in Hooks :
         /\ hook[h] # "deleted"
         /\ todo' = [todo EXCEPT ![t] = {h}]
    /\ emit' = [emit EXCEPT ![t] = "fan"]
    /\ UNCHANGED <<hooks, rows, try, list, ghost, faults>>

\* createDelivery: the foreign key refuses a deleted webhook, and the error
\* ends the whole fan-out, inline attempts included.
CreateDelivery(e, h) ==
    LET d == <<e, h>> IN
    /\ emit[e] = "fan" /\ h \in todo[e] /\ status[d] = "none"
    /\ IF hook[h] = "deleted"
         THEN /\ emit' = [emit EXCEPT ![e] = "done"]
              /\ UNCHANGED <<status, next>>
         ELSE /\ status' = [status EXCEPT ![d] = "pending"]
              /\ next' = [next EXCEPT ![d] = "due"]
              /\ emit' = IF \A k \in todo[e] \ {h} : status[<<e, k>>] # "none"
                           THEN [emit EXCEPT ![e] = "inline"] ELSE emit
    /\ UNCHANGED <<hooks, attempts, todo, try, list, ghost, faults>>

\* The inline loop: getWebhook, then an attempt with the row as created.  The
\* test and replay routes attempt with the webhook they looked up before.
BeginInline(e, h) ==
    /\ emit[e] = "inline" /\ h \in todo[e] /\ stage[e] = "idle"
    /\ todo' = [todo EXCEPT ![e] = @ \ {h}]
    /\ IF e \in Tests \/ hook[h] = "enabled"
         THEN /\ cur' = [cur EXCEPT ![e] = <<e, h>>]
              /\ stage' = [stage EXCEPT ![e] = "mark"]
         ELSE UNCHANGED <<cur, stage>>
    /\ UNCHANGED <<hooks, rows, emit, seen, outcome, list, ghost, faults>>

EndInline(e) ==
    /\ emit[e] = "inline" /\ todo[e] = {} /\ stage[e] = "idle"
    /\ emit' = [emit EXCEPT ![e] = "done"]
    /\ UNCHANGED <<hooks, rows, todo, try, list, ghost, faults>>

-----------------------------------------------------------------------------
(* attemptDelivery, by the API or by the worker.                           *)

\* updateDelivery writes by id, whatever the row says by now.
MarkSending(a) ==
    /\ stage[a] = "mark"
    /\ stage' = [stage EXCEPT ![a] = "send"]
    /\ status' = IF Stored(cur[a]) THEN [status EXCEPT ![cur[a]] = "sending"] ELSE status
    /\ UNCHANGED <<hooks, attempts, next, fan, cur, seen, outcome, list, ghost, faults>>

\* deliverHttp: the receiver takes the request or not, its answer arrives or
\* not.  An address that is blocked or does not resolve is not even requested.
Send(a) ==
    /\ stage[a] = "send"
    /\ stage' = [stage EXCEPT ![a] = "record"]
    /\ tries' = [tries EXCEPT ![cur[a]] = IF @ < MaxTries THEN @ + 1 ELSE @]
    /\ \E taken, answered \in BOOLEAN :
         /\ answered => taken
         /\ outcome' = [outcome EXCEPT ![a] = answered]
         /\ received' = IF taken THEN received \cup {cur[a]} ELSE received
    /\ UNCHANGED <<hooks, rows, fan, cur, seen, list, dropped, faults>>

\* Mutations: the table is read one entry short, or one beyond its end.
ExhaustedEarly(n) == n >= Backoffs \/ n >= MaxAttempts
ExhaustedLate(n)  == n > Backoffs + 1 \/ n >= MaxAttempts

\* backoffMs has no wait left, or the webhook's attempts are used up.
Exhausted(n) == n > Backoffs \/ n >= MaxAttempts

\* The result goes over the row: the attempts it read, plus this one.  A row
\* that is gone makes it throw, which its callers ignore.
Record(a) ==
    LET d == cur[a]
        n == seen[a] + 1
    IN
    /\ stage[a] = "record"
    /\ Forget({a})
    /\ IF Stored(d)
         THEN /\ attempts' = [attempts EXCEPT ![d] = n]
              /\ \/ /\ outcome[a]
                    /\ status' = [status EXCEPT ![d] = "succeeded"]
                    /\ next' = [next EXCEPT ![d] = "null"]
                 \/ /\ ~outcome[a] /\ Exhausted(n)
                    /\ status' = [status EXCEPT ![d] = "failed"]
                    /\ next' = [next EXCEPT ![d] = "null"]
                 \/ /\ ~outcome[a] /\ ~Exhausted(n)
                    /\ status' = [status EXCEPT ![d] = "pending"]
                    /\ next' = [next EXCEPT ![d] = "later"]
         ELSE UNCHANGED rows
    /\ UNCHANGED <<hooks, fan, list, ghost, faults>>

\* A statement of an attempt fails: the attempt ends there, what it was to write
\* is not written, and its caller goes on.
AttemptFails(a) ==
    /\ stage[a] \in {"mark", "record"}
    /\ Forget({a})
    /\ IF a = Worker
         THEN restarts < MaxRestarts /\ restarts' = restarts + 1 /\ UNCHANGED crashes
         ELSE crashes < MaxCrashes /\ crashes' = crashes + 1 /\ UNCHANGED restarts
    /\ UNCHANGED <<hooks, rows, fan, list, ghost>>

AttemptStep(a) == MarkSending(a) \/ Send(a) \/ Record(a)

-----------------------------------------------------------------------------
(* The worker's retry loop, and time.                                      *)

BackoffPasses(d) ==
    /\ next[d] = "later"
    /\ next' = [next EXCEPT ![d] = "due"]
    /\ UNCHANGED <<hooks, status, attempts, fan, try, list, ghost, faults>>

\* Mutation: rows that a stopped process left in sending are not listed.
OpenPending == {d \in Deliveries : status[d] = "pending"}

Open == {d \in Deliveries : status[d] \in {"pending", "sending"}}

\* dueDeliveries: its limit of 25 is above the number of deliveries here.
ListDue ==
    /\ due = {} /\ stage[Worker] = "idle"
    /\ due' = {d \in Open : next[d] = "due"}
    /\ due' # {}
    /\ listed' = [d \in Deliveries |-> IF d \in due' THEN attempts[d] ELSE 0]
    /\ UNCHANGED <<hooks, rows, fan, try, ghost, faults>>

\* getWebhook decides between an attempt and giving up.
BeginRetry(d) ==
    /\ d \in due /\ stage[Worker] = "idle"
    /\ due' = due \ {d}
    /\ cur' = [cur EXCEPT ![Worker] = d]
    /\ seen' = [seen EXCEPT ![Worker] = listed[d]]
    /\ stage' = [stage EXCEPT ![Worker] = IF hook[Hook(d)] = "enabled" THEN "mark" ELSE "drop"]
    /\ listed' = [listed EXCEPT ![d] = 0]
    /\ UNCHANGED <<hooks, rows, fan, outcome, ghost, faults>>

GiveUp ==
    LET d == cur[Worker] IN
    /\ stage[Worker] = "drop"
    /\ Forget({Worker})
    /\ IF Stored(d)
         THEN /\ status' = [status EXCEPT ![d] = "failed"]
              /\ next' = [next EXCEPT ![d] = "null"]
              /\ dropped' = dropped \cup {d}
         ELSE UNCHANGED <<status, next, dropped>>
    /\ UNCHANGED <<hooks, attempts, fan, list, tries, received, faults>>

-----------------------------------------------------------------------------
(* Managers, and restarts.                                                 *)

\* PATCH enabled.
SetEnabled(h) ==
    /\ hook[h] # "deleted"
    /\ hook' = [hook EXCEPT ![h] = IF @ = "enabled" THEN "disabled" ELSE "enabled"]
    /\ UNCHANGED <<deleting, rows, fan, try, list, ghost, faults>>

\* DELETE: deliveries first, then the webhook, which cascades to later ones.
RemoveDeliveries(h) ==
    LET left(d) == Hook(d) # h \/ ~Stored(d) IN
    /\ status' = [d \in Deliveries |-> IF left(d) THEN status[d] ELSE "gone"]
    /\ attempts' = [d \in Deliveries |-> IF left(d) THEN attempts[d] ELSE 0]
    /\ next' = [d \in Deliveries |-> IF left(d) THEN next[d] ELSE "null"]

DeleteDeliveries(h) ==
    /\ hook[h] # "deleted" /\ h \notin deleting
    /\ deleting' = deleting \cup {h}
    /\ RemoveDeliveries(h)
    /\ UNCHANGED <<hook, fan, try, list, ghost, faults>>

DeleteHook(h) ==
    /\ hook[h] # "deleted" /\ h \in deleting
    /\ hook' = [hook EXCEPT ![h] = "deleted"]
    /\ RemoveDeliveries(h)
    /\ UNCHANGED <<deleting, fan, try, list, ghost, faults>>

\* A process stops with the attempts of its actors.
Crash ==
    /\ crashes < MaxCrashes
    /\ crashes' = crashes + 1
    /\ emit' = [e \in Emits |-> IF emit[e] = "idle" THEN "idle" ELSE "done"]
    /\ todo' = [e \in Emits |-> {}]
    /\ Forget(Emits)
    /\ UNCHANGED <<hooks, rows, list, ghost, restarts>>

\* A statement of the retry loop that fails ends its pass in the same way.
WorkerRestart ==
    /\ restarts < MaxRestarts
    /\ restarts' = restarts + 1
    /\ due' = {}
    /\ listed' = [d \in Deliveries |-> 0]
    /\ Forget({Worker})
    /\ UNCHANGED <<hooks, rows, fan, ghost, crashes>>

-----------------------------------------------------------------------------
EmitStep(e) ==
    \/ \E h \in Hooks : CreateDelivery(e, h) \/ BeginInline(e, h)
    \/ EndInline(e)
    \/ AttemptStep(e)
WorkerStep == ListDue \/ (\E d \in Deliveries : BeginRetry(d)) \/ GiveUp \/ AttemptStep(Worker)
ManagerStep(h) == SetEnabled(h) \/ DeleteDeliveries(h) \/ DeleteHook(h)

Next ==
    \/ \E e \in Events : Emit(e)
    \/ \E t \in Tests : Test(t)
    \/ \E e \in Emits : EmitStep(e)
    \/ WorkerStep
    \/ \E d \in Deliveries : BackoffPasses(d)
    \/ \E h \in Hooks : ManagerStep(h)
    \/ Crash \/ WorkerRestart
    \/ \E a \in Actors : AttemptFails(a)

Spec == Init /\ [][Next]_vars

\* Handlers and the worker run on, requests time out, time passes.
FairSpec ==
    /\ Spec
    /\ \A e \in Emits : WF_vars(EmitStep(e))
    /\ WF_vars(WorkerStep)
    /\ \A d \in Deliveries : WF_vars(BackoffPasses(d))

-----------------------------------------------------------------------------
(* Properties.                                                             *)

\* What a delivery's final status tells its readers is true, although inline
\* attempts, retries, replays and managers overwrite each other's rows: it
\* succeeded only if the receiver took it, and it failed only after as many
\* attempts as maxAttempts and the backoff table allow, or because its webhook
\* was off.
OutcomesAreEarned ==
    \A d \in Deliveries :
        /\ status[d] = "succeeded" => d \in received
        /\ status[d] = "failed" => d \in dropped \/ tries[d] >= Limit

\* Two actors that overwrite each other's attempts lists make more attempts,
\* each at most one request, than that limit, but not without bound: a late
\* inline result sets the list back once, and a worker that stops, or that fails
\* to record, forgets one.
TriesAreBounded ==
    \A d \in Deliveries : tries[d] <= 2 * Limit + restarts

\* docs/automation.md: "failures retry ... (capped by maxAttempts, then
\* failed)": every delivery that is stored succeeds, fails or is deleted,
\* whichever process stops and whichever attempt is cut off.  What that may leave
\* behind is a row without a next attempt: it had been marked as sending when
\* another attempt had settled it since it was read.
EveryDeliverySettlesUnlessWedged ==
    \A d \in Deliveries :
        status[d] \in {"pending", "sending"} ~>
            \/ status[d] \notin {"pending", "sending"}
            \/ next[d] = "null" /\ crashes + restarts > 0
=============================================================================
