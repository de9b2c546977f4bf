-------------------------- MODULE AutomationQueue --------------------------
(***************************************************************************)
(* One queue of packages/automation on its Drizzle store: publish, consume *)
(* with leases, ack, nack, purge and delete, as the HTTP handlers of       *)
(* apps/api/src/automation.ts call them.  Each awaited statement is one    *)
(* step; a handler's statements interleave with everyone else's.           *)
(*                                                                         *)
(* A publish request inserts at most one row, which bears its name.  Of a  *)
(* delivery count the code only asks whether it reached maxDeliveries, so  *)
(* it is counted to Excess above that.  A consumer is any member of the    *)
(* project: one who consumes, and one who acks and nacks from the list.    *)
(***************************************************************************)
EXTENDS Naturals, FiniteSets

CONSTANTS
    Publishes,      \* publish requests, and the rows they insert
    Key,            \* the idempotencyKey of each, or None
    Consumers,
    Limits,         \* values of a consume request's limit
    MaxDeliveries,  \* the queue's maxDeliveries
    Excess,         \* deliveries beyond maxDeliveries that are counted
    ListWindow,     \* the 1000 oldest rows that scopedMessage lists
    None

Verbs == {"ack", "requeue", "reject"}

ASSUME ConstantsAssumption ==
    /\ IsFiniteSet(Publishes)
    /\ None \notin Publishes
    /\ Limits \subseteq Nat \ {0}
    /\ MaxDeliveries \in Nat \ {0}
    /\ Excess \in Nat \ {0}
    /\ ListWindow \in Nat \ {0}

Settled == {"acked", "dead"}
Stored  == {"queued", "leased"} \cup Settled

VARIABLES
    queue,      \* "live", "emptied" by the first statement of a delete, "deleted"
    status,     \* of each message row; "none" before, "gone" after it is stored
    older,      \* per row: the rows stored before it
    deliveries,
    leases,     \* leased rows whose leaseExpiresAt is still to come
    publish,    \* per publish request: "idle", "insert", "done"
    pc,         \* per consumer: its ack or nack request's next statement
    msg, verb,  \* ... that request's message, and a nack's verb until it has a verdict
    verdict,    \* ... the status its last statement writes
    held,       \* messages handed to each consumer and not yet answered
    excused     \* history, per message delivered maxDeliveries times, to Excess: leases
                \* that expired unanswered, deliveries with a requeue on its way

rows    == <<queue, status, older, deliveries, leases>>
request == <<pc, msg, verb, verdict>>
vars    == <<rows, publish, request, held, excused>>

TypeOK ==
    /\ queue \in {"live", "emptied", "deleted"}
    /\ status \in [Publishes -> Stored \cup {"none", "gone"}]
    /\ older \in [Publishes -> SUBSET Publishes]
    /\ deliveries \in [Publishes -> 0 .. MaxDeliveries + Excess]
    /\ leases \subseteq Publishes
    /\ publish \in [Publishes -> {"idle", "insert", "done"}]
    /\ pc \in [Consumers -> {"idle", "read", "write"}]
    /\ msg \in [Consumers -> Publishes \cup {None}]
    /\ verb \in [Consumers -> {"requeue", "reject", None}]
    /\ verdict \in [Consumers -> {"acked", "dead", "queued", None}]
    /\ held \in [Consumers -> SUBSET Publishes]
    /\ excused \in [Publishes -> 0 .. Excess]

Init ==
    /\ queue = "live"
    /\ status = [m \in Publishes |-> "none"]
    /\ older = [m \in Publishes |-> {}]
    /\ deliveries = [m \in Publishes |-> 0]
    /\ leases = {}
    /\ publish = [p \in Publishes |-> "idle"]
    /\ pc = [w \in Consumers |-> "idle"]
    /\ msg = [w \in Consumers |-> None]
    /\ verb = [w \in Consumers |-> None]
    /\ verdict = [w \in Consumers |-> None]
    /\ held = [w \in Consumers |-> {}]
    /\ excused = [m \in Publishes |-> 0]

IsStored(m) == status[m] \in Stored

\* A statement that removes a set of rows.
RemoveRows(S) ==
    /\ status' = [m \in Publishes |-> IF m \in S THEN "gone" ELSE status[m]]
    /\ leases' = leases \ S
    /\ UNCHANGED <<older, deliveries>>

-----------------------------------------------------------------------------
(* Publish: look the key up, then insert.                                  *)

WithKey(p) == {m \in Publishes : IsStored(m) /\ Key[p] # None /\ Key[m] = Key[p]}

\* SELECT ... LIMIT 1 without an order: any row with the key may come back,
\* and only that row's status is looked at.
LookUpKey(p) ==
    /\ publish[p] = "idle"
    /\ queue # "deleted"
    /\ \/ \E m \in WithKey(p) :
             publish' = [publish EXCEPT ![p] = IF status[m] # "acked" THEN "done" ELSE "insert"]
       \/ WithKey(p) = {} /\ publish' = [publish EXCEPT ![p] = "insert"]
    /\ UNCHANGED <<rows, request, held, excused>>

\* INSERT; the foreign key refuses it once the queue is deleted.
Insert(p) ==
    /\ publish[p] = "insert"
    /\ publish' = [publish EXCEPT ![p] = "done"]
    /\ IF queue = "deleted"
         THEN UNCHANGED rows
         ELSE /\ status' = [status EXCEPT ![p] = "queued"]
              /\ older' = [older EXCEPT ![p] = {m \in Publishes : IsStored(m)}]
              /\ UNCHANGED <<queue, deliveries, leases>>
    /\ UNCHANGED <<request, held, excused>>

-----------------------------------------------------------------------------
(* Consume: one UPDATE leases every eligible row, the reply is cut to the  *)
(* limit and may be lost with the consumer it was for.                     *)

\* Mutation: expired leases do not become visible again.
EligibleQueued == {m \in Publishes : status[m] = "queued"}

Eligible ==
    {m \in Publishes : status[m] = "queued" \/ (status[m] = "leased" /\ m \notin leases)}

Counted(n) == IF n < MaxDeliveries + Excess THEN n + 1 ELSE n

Excuse(S) ==
    excused' = [m \in Publishes |->
                  IF m \in S /\ deliveries'[m] >= MaxDeliveries /\ excused[m] < Excess
                    THEN excused[m] + 1 ELSE excused[m]]

\* A nack that has decided to requeue m has yet to write it.
Requeuing(m) ==
    \E w \in Consumers : pc[w] = "write" /\ msg[w] = m /\ verdict[w] = "queued"

Consume(w, limit) ==
    /\ pc[w] = "idle"
    /\ Eligible # {}
    /\ status' = [m \in Publishes |-> IF m \in Eligible THEN "leased" ELSE status[m]]
    /\ deliveries' = [m \in Publishes |->
                        IF m \in Eligible THEN Counted(deliveries[m]) ELSE deliveries[m]]
    /\ leases' = leases \cup Eligible
    /\ \E reply \in SUBSET Eligible :
          /\ \/ reply = Eligible \/ Cardinality(reply) = limit
             \/ reply = {}
          /\ Cardinality(reply) <= limit
          /\ held' = [held EXCEPT ![w] = @ \cup reply]
    /\ Excuse({m \in Eligible : Requeuing(m)})
    /\ UNCHANGED <<queue, older, publish, request>>

\* leaseExpiresAt passes.
LeaseExpires(m) ==
    /\ m \in leases
    /\ leases' = leases \ {m}
    /\ UNCHANGED <<queue, status, older, deliveries, publish, request, held>>
    /\ Excuse({m})

-----------------------------------------------------------------------------
(* Ack and nack: find the message among the listed ones, then write its    *)
(* status by id, whatever it is by then.  Neither asks for a lease or who  *)
(* holds it: any member may name any listed message, at any time.          *)

\* The rows listMessages returns: the oldest ListWindow of them.
Listed ==
    {m \in Publishes : IsStored(m) /\ Cardinality({k \in older[m] : IsStored(k)}) < ListWindow}

Answer(w, m, v) ==
    /\ pc[w] = "idle"
    /\ IF m \in Listed
         THEN /\ pc' = [pc EXCEPT ![w] = IF v = "ack" THEN "write" ELSE "read"]
              /\ msg' = [msg EXCEPT ![w] = m]
              /\ verb' = [verb EXCEPT ![w] = IF v = "ack" THEN None ELSE v]
              /\ verdict' = [verdict EXCEPT ![w] = IF v = "ack" THEN "acked" ELSE None]
              /\ UNCHANGED held
         ELSE /\ held' = [held EXCEPT ![w] = @ \ {m}]
              /\ UNCHANGED request
    /\ UNCHANGED <<rows, publish, excused>>

\* Mutation: one delivery more than the limit.
OutcomeLate(m, v) ==
    IF v = "reject" \/ deliveries[m] > MaxDeliveries THEN "dead" ELSE "queued"

\* nack reads the row and the queue to choose between queued and dead.
Outcome(m, v) ==
    IF v = "reject" \/ deliveries[m] >= MaxDeliveries THEN "dead" ELSE "queued"

Respond(w) ==
    /\ pc' = [pc EXCEPT ![w] = "idle"]
    /\ msg' = [msg EXCEPT ![w] = None]
    /\ verb' = [verb EXCEPT ![w] = None]
    /\ held' = [held EXCEPT ![w] = @ \ {msg[w]}]

ReadForNack(w) ==
    /\ pc[w] = "read"
    /\ IF IsStored(msg[w])
         THEN /\ pc' = [pc EXCEPT ![w] = "write"]
              /\ verdict' = [verdict EXCEPT ![w] = Outcome(msg[w], verb[w])]
              /\ verb' = [verb EXCEPT ![w] = None]
              /\ UNCHANGED <<msg, held>>
         ELSE Respond(w) /\ UNCHANGED verdict
    /\ UNCHANGED <<rows, publish, excused>>

\* UPDATE ... WHERE id: a row purged meanwhile is not found.
Write(w) ==
    /\ pc[w] = "write"
    /\ Respond(w)
    /\ verdict' = [verdict EXCEPT ![w] = None]
    /\ IF IsStored(msg[w])
         THEN /\ status' = [status EXCEPT ![msg[w]] = verdict[w]]
              /\ leases' = leases \ {msg[w]}
         ELSE UNCHANGED <<status, leases>>
    /\ UNCHANGED <<queue, older, deliveries, publish, excused>>

-----------------------------------------------------------------------------
(* Purge and delete.                                                       *)

\* Mutation: the purge forgets the status condition.
PurgeAll(S) ==
    /\ queue # "deleted"
    /\ RemoveRows({m \in Publishes : IsStored(m)})
    /\ UNCHANGED <<queue, publish, request, held, excused>>

Purge(S) ==
    /\ queue # "deleted"
    /\ \E m \in Publishes : status[m] \in S
    /\ RemoveRows({m \in Publishes : status[m] \in S})
    /\ UNCHANGED <<queue, publish, request, held, excused>>

\* DELETE of the messages, then of the queue, which cascades.
DeleteRows(from, to) ==
    /\ queue = from
    /\ queue' = to
    /\ RemoveRows({m \in Publishes : IsStored(m)})
    /\ UNCHANGED <<publish, request, held, excused>>

DeleteMessages == DeleteRows("live", "emptied")
DeleteQueue    == DeleteRows("emptied", "deleted")

-----------------------------------------------------------------------------
(* What has become of each message.                                        *)

State == [m \in Publishes |->
    CASE status[m] = "none" -> "new"
      [] status[m] = "gone" -> "gone"
      [] status[m] \in Settled -> "settled"
      [] OTHER -> "open"]

Promise == INSTANCE AcceptedMessages
             WITH Messages <- Publishes, state <- State, closing <- (queue # "live")

-----------------------------------------------------------------------------
PublishStep(p) == LookUpKey(p) \/ Insert(p)
ConsumeStep(w) == \E limit \in Limits : Consume(w, limit)
AnswerFor(w, m) == \E v \in Verbs : Answer(w, m, v)
AnswerHeld(w, m) == m \in held[w] /\ AnswerFor(w, m)
Proceed(w) == ReadForNack(w) \/ Write(w)
AnswerStep(w) == (\E m \in Publishes : AnswerFor(w, m)) \/ Proceed(w)
Discard == \E S \in (SUBSET Settled) \ {{}} : Purge(S)

Next ==
    \/ \E p \in Publishes : PublishStep(p) \/ LeaseExpires(p)
    \/ \E w \in Consumers : ConsumeStep(w) \/ AnswerStep(w)
    \/ Discard \/ DeleteMessages \/ DeleteQueue

Spec == Init /\ [][Next]_vars

\* Handlers run on and time passes.  Some consumer keeps polling between whatever
\* else it does, and some holder of a message answers it; nobody need answer a
\* message off the list.
FairSpec ==
    /\ Spec
    /\ \A m \in Publishes :
          /\ WF_vars(LeaseExpires(m))
          /\ SF_vars(\E w \in Consumers : AnswerHeld(w, m))
    /\ \A w \in Consumers : WF_vars(Proceed(w))
    /\ SF_vars(\E w \in Consumers : ConsumeStep(w))
-----------------------------------------------------------------------------
(* Properties.                                                             *)

\* Whatever the interleaving of publishes, leases, late answers, answers of
\* members who hold nothing, purges and the delete of the queue, no accepted
\* message is lost: it stays open until an ack or a dead-lettering settles it,
\* it is removed only settled or with its queue, and never comes back from that.
KeepsPromise == Promise!Spec

\* Every stored message is settled in the end, or removed with its queue: a
\* lease that nobody answers expires, and a message requeued too often is
\* dead-lettered, whatever members do who nack messages they do not hold.  Two
\* messages are excepted: one beyond the rows scopedMessage lists, whose
\* consumers are answered 404, and one that a consume request has leased
\* without returning it.
EveryMessageSettles ==
    \A m \in Publishes :
        status[m] \in {"queued", "leased"} ~>
            \/ status[m] \in Settled \cup {"gone"}
            \/ m \notin Listed
            \/ m \in leases /\ \A w \in Consumers : m \notin held[w]

\* types.ts, maxDeliveries: "Deliveries before a message moves to the
\* dead-letter set".  Only nack looks at it, on a row read before it writes:
\* each delivery beyond that many is accounted for by a lease of the message that
\* expired unanswered once they were used up, or by a requeue still on its way
\* when they were.
ExcessIsAccountedFor ==
    \A m \in Publishes : deliveries[m] <= MaxDeliveries + excused[m]
=============================================================================
