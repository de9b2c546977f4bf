------------------------------- MODULE Billing -------------------------------
(***************************************************************************)
(* Billing of one organization: invoices, payment provider events, the     *)
(* subscription with its trial and its period.                             *)
(* packages/billing/src/service.ts on store-drizzle.ts, one statement per  *)
(* action; two statements of which the second cannot see the first fail    *)
(* (find, then an insert that a unique constraint guards) are one.         *)
(*                                                                         *)
(* A payment row is named by the delivery that inserted it, an invoice by  *)
(* the request that generated it.                                          *)
(***************************************************************************)
EXTENDS Naturals, FiniteSets

CONSTANTS
    PayEvents,      \* payment.succeeded events of the provider
    SubEvents,      \* subscription.updated and subscription.canceled events
    CancelEvents,   \* those of SubEvents that cancel
    Deliveries,     \* deliveries of events to the webhook; an event may have many
    InvoiceOf,      \* [PayEvents -> Invoices]: what an event pays
    PaymentOf,      \* [PayEvents -> payment ids and Null]: paymentId of the payload
    Invoices,       \* invoices, by the request that generates them
    Due,            \* [Invoices -> Nat]: their totals; every payment is of 1
    PlanChanges, Cancels,   \* requests of the organization's owner
    MaxTime,        \* bound: the clock; a trial lasts 1 and a period 2
    MaxRequests,    \* bound: requests sent in a behaviour
    MaxFaults,      \* bound: requests that a failing statement or a restart ends
    Null

Events   == PayEvents \cup SubEvents
Readers  == PlanChanges \cup Cancels \cup Invoices
Handlers == Deliveries \cup Readers
Plans    == {"free", "pro"}

Status == {"active", "trialing", "canceled", "expired"}
Row == [plan : Plans, status : Status, trialEnds : 0 .. MaxTime + 2, periodEnds : 0 .. MaxTime + 2]

ASSUME BillingAssumption ==
    /\ IsFiniteSet(Deliveries) /\ IsFiniteSet(Invoices)
    /\ Deliveries \cap Readers = {} /\ Invoices \cap (PlanChanges \cup Cancels) = {}
    /\ PlanChanges \cap Cancels = {}
    /\ InvoiceOf \in [PayEvents -> Invoices]
    /\ \A d, e \in PayEvents : PaymentOf[d] # e
    /\ \A d, e \in PayEvents : PaymentOf[d] = PaymentOf[e] /\ PaymentOf[d] # Null
                               => InvoiceOf[d] = InvoiceOf[e]
    /\ CancelEvents \subseteq SubEvents /\ PayEvents \cap SubEvents = {}
    /\ Due \in [Invoices -> Nat \ {0}]
    /\ MaxTime \in Nat /\ MaxRequests \in Nat /\ MaxFaults \in Nat
    /\ Null \notin Events \cup Deliveries \cup Row

VARIABLES
    events,     \* billing_events: the events recorded
    payments,   \* payment rows
    invoice,    \* "none", "open" or "paid"
    number,     \* number of an invoice within its period; 0 before
    sub,        \* the subscription row, or Null
    now,
    at,
    eventOf,    \* the event a delivery brings
    copy,       \* the subscription a handler has read, or Null
    want,       \* what a plan change asks for
    faults,
    cut,        \* history: events whose delivery was ended by a fault
    raced,      \* history: deliveries that looked for an event which another was recording
    intent,     \* history: plan and status by the order of the writes
    stale       \* history: has a write put back a row that had changed meanwhile

money == <<events, payments, invoice, number>>
calls == <<at, eventOf, copy, want>>
past  == <<cut, raced, intent, stale>>
billingVars == <<money, sub, now, calls, faults, past>>

PC == {"idle", "record", "pay", "getinvoice", "sum", "setpaid", "count", "number",
       "read", "create", "expire", "write", "done", "dead"}

BillingTypeOK ==
    /\ events \subseteq Events /\ payments \subseteq Deliveries
    /\ invoice \in [Invoices -> {"none", "open", "paid"}]
    /\ number \in [Invoices -> 0 .. Cardinality(Invoices)]
    /\ sub \in Row \cup {Null} /\ now \in 0 .. MaxTime
    /\ at \in [Handlers -> PC]
    /\ eventOf \in [Deliveries -> Events \cup {Null}]
    /\ copy \in [Deliveries \cup Readers -> Row \cup {Null}]
    /\ want \in [PlanChanges -> {"free", "pro", "trial"}]
    /\ faults \in 0 .. MaxFaults
    /\ cut \subseteq Events /\ raced \subseteq Deliveries
    /\ intent \in [plan : Plans, status : Status] \cup {Null}
    /\ stale \in BOOLEAN

BillingInit ==
    /\ events = {} /\ payments = {}
    /\ invoice = [v \in Invoices |-> "none"] /\ number = [v \in Invoices |-> 0]
    /\ sub = Null /\ now = 0
    /\ at = [h \in Handlers |-> "idle"]
    /\ eventOf = [d \in Deliveries |-> Null]
    /\ copy = [h \in Deliveries \cup Readers |-> Null]
    /\ want \in [PlanChanges -> {"free", "pro", "trial"}]
    /\ faults = 0 /\ cut = {} /\ raced = {} /\ intent = Null /\ stale = FALSE

MoveTo(h, label) == at' = [at EXCEPT ![h] = label]
Moved(h, from, to) == at[h] = from /\ MoveTo(h, to)
Unsent(h) == at[h] = "idle" /\ Cardinality({g \in Handlers : at[g] # "idle"}) < MaxRequests

-----------------------------------------------------------------------------
(* Invoices.                                                               *)

\* generateInvoice, once effectiveLimits has read the plan (ReadSub): the
\* number is one more than the invoices counted.
CountInvoices(v) ==
    /\ Moved(v, "count", "number")
    /\ number' = [number EXCEPT ![v] = Cardinality({w \in Invoices : invoice[w] # "none"}) + 1]
    /\ UNCHANGED <<events, payments, invoice, sub, now, eventOf, copy, want, faults, past>>

\* createInvoice: a number that is taken fails the request.  Numbers are counted
\* per organization and unique over all, so another organization may have it.
InsertInvoice(v) ==
    /\ Moved(v, "number", "done")
    /\ \/ /\ \A w \in Invoices : invoice[w] # "none" => number[w] # number[v]
          /\ invoice' = [invoice EXCEPT ![v] = "open"]
       \/ UNCHANGED invoice
    /\ UNCHANGED <<events, payments, number, sub, now, eventOf, copy, want, faults, past>>

-----------------------------------------------------------------------------
(* applyProviderEvent.                                                     *)

\* For the history: the deliveries of an event that are under way.
Bringing(e) == {d \in Deliveries : eventOf[d] = e /\ at[d] \notin {"done", "dead"}}

\* Mutant: the event is not looked for.
DeliverAgain(d, e) ==
    /\ Unsent(d) /\ (e \in PayEvents => invoice[InvoiceOf[e]] # "none")
    /\ eventOf' = [eventOf EXCEPT ![d] = e]
    /\ MoveTo(d, "record")
    /\ raced' = IF Bringing(e) = {} THEN raced ELSE raced \cup {d} \cup Bringing(e)
    /\ UNCHANGED <<money, sub, now, copy, want, faults, cut, intent, stale>>

\* findWebhookEvent: an event seen before is ignored.  The provider pays
\* invoices that were issued, and may deliver an event any number of times.
Deliver(d, e) ==
    /\ Unsent(d) /\ (e \in PayEvents => invoice[InvoiceOf[e]] # "none")
    /\ eventOf' = [eventOf EXCEPT ![d] = e]
    /\ IF e \in events
         THEN MoveTo(d, "done") /\ UNCHANGED raced
         ELSE /\ MoveTo(d, "record")
              /\ raced' = IF Bringing(e) = {} THEN raced ELSE raced \cup {d} \cup Bringing(e)
    /\ UNCHANGED <<money, sub, now, copy, want, faults, cut, intent, stale>>

\* recordWebhookEvent answers the row, whoever inserted it, and the handler
\* goes on in either case.
Record(d) ==
    /\ Moved(d, "record", IF eventOf[d] \in PayEvents THEN "pay" ELSE "read")
    /\ events' = events \cup {eventOf[d]}
    /\ UNCHANGED <<payments, invoice, number, sub, now, eventOf, copy, want, faults, past>>

Id(d) == PaymentOf[eventOf[d]]

\* createPayment: one row per payment id; a payload without one gets a row.  An
\* id that another provider or organization has used ends the event without
\* one, as a failing insert does (Fail).
Pay(d) ==
    /\ Moved(d, "pay", "getinvoice")
    /\ payments' = IF Id(d) # Null /\ \E p \in payments : Id(p) = Id(d)
                     THEN payments ELSE payments \cup {d}
    /\ UNCHANGED <<events, invoice, number, sub, now, eventOf, copy, want, faults, past>>

GetInvoice(d) ==
    /\ at[d] = "getinvoice"
    /\ MoveTo(d, IF invoice[InvoiceOf[eventOf[d]]] = "open" THEN "sum" ELSE "done")
    /\ UNCHANGED <<money, sub, now, eventOf, copy, want, faults, past>>

Rows(v) == {p \in payments : InvoiceOf[eventOf[p]] = v}

\* Mutant: an invoice that is paid to the cent is left open.
SumMore(d) ==
    LET v == InvoiceOf[eventOf[d]] IN
    /\ at[d] = "sum"
    /\ MoveTo(d, IF Cardinality(Rows(v)) > Due[v] THEN "setpaid" ELSE "done")
    /\ UNCHANGED <<money, sub, now, eventOf, copy, want, faults, past>>

\* listPayments: the payments of the invoice cover it, or not yet.
SumPayments(d) ==
    LET v == InvoiceOf[eventOf[d]] IN
    /\ at[d] = "sum"
    /\ MoveTo(d, IF Cardinality(Rows(v)) >= Due[v] THEN "setpaid" ELSE "done")
    /\ UNCHANGED <<money, sub, now, eventOf, copy, want, faults, past>>

SetPaid(d) ==
    /\ Moved(d, "setpaid", "done")
    /\ invoice' = [invoice EXCEPT ![InvoiceOf[eventOf[d]]] = "paid"]
    /\ UNCHANGED <<events, payments, number, sub, now, eventOf, copy, want, faults, past>>

-----------------------------------------------------------------------------
(* The subscription: read, reconcile, write the row back.                  *)

TrialOver(s)  == s.status = "trialing" /\ s.trialEnds <= now
PeriodOver(s) == s.status = "canceled" /\ s.periodEnds <= now

AfterRead(h) == IF h \in Invoices THEN "count" ELSE "write"

\* The row stays with a handler that is going to write it.
Keep(h, row) == copy' = [copy EXCEPT ![h] = IF AfterRead(h) = "write" THEN row ELSE Null]
Drop(h) == copy' = [copy EXCEPT ![h] = Null]

\* getSubscription reads the row and decides whether to write it first; a
\* request begins with it, an event comes to it.
ReadSub(h) ==
    /\ IF h \in Readers THEN Unsent(h) ELSE at[h] = "read"
    /\ \/ /\ sub = Null
          /\ MoveTo(h, "create") /\ Drop(h)
       \/ /\ sub # Null /\ (TrialOver(sub) \/ PeriodOver(sub))
          /\ MoveTo(h, "expire") /\ copy' = [copy EXCEPT ![h] = sub]
       \/ /\ sub # Null /\ ~TrialOver(sub) /\ ~PeriodOver(sub)
          /\ MoveTo(h, AfterRead(h)) /\ Keep(h, sub)
    /\ UNCHANGED <<money, sub, now, eventOf, want, faults, past>>

\* A row written over one that is not the row read is a lost update.
Writes(h, row, plan, status) ==
    /\ sub' = row
    /\ intent' = [plan |-> plan, status |-> status]
    /\ stale' = (stale \/ sub # copy[h])

\* Mutant: the first period is one too long.
FreshLong == [plan |-> "free", status |-> "active", trialEnds |-> 0, periodEnds |-> now + 3]

Fresh == [plan |-> "free", status |-> "active", trialEnds |-> 0, periodEnds |-> now + 2]

Create(h) ==
    /\ Moved(h, "create", AfterRead(h))
    /\ Writes(h, Fresh, "free", "active")
    /\ Keep(h, Fresh)
    /\ UNCHANGED <<money, now, eventOf, want, faults, cut, raced>>

\* reconcile: a trial or a canceled period that is over falls back to free.
Expire(h) ==
    LET row == [copy[h] EXCEPT !.plan = "free", !.status = "expired"] IN
    /\ Moved(h, "expire", AfterRead(h))
    /\ Writes(h, row, "free", "expired")
    /\ Keep(h, row)
    /\ UNCHANGED <<money, now, eventOf, want, faults, cut, raced>>

\* changePlan: a new row altogether, with a trial if one is asked for.
ChangePlan(h) ==
    LET plan   == IF want[h] = "free" THEN "free" ELSE "pro"
        status == IF want[h] = "trial" THEN "trialing" ELSE "active"
    IN
    /\ Moved(h, "write", "done")
    /\ sub' = [plan |-> plan, status |-> status, periodEnds |-> now + 2,
               trialEnds |-> IF want[h] = "trial" THEN now + 1 ELSE 0]
    /\ intent' = [plan |-> plan, status |-> status] /\ Drop(h)
    /\ UNCHANGED <<money, now, eventOf, want, faults, cut, raced, stale>>

\* DOWNGRADE_BLOCKED: what is in use would breach the limits of the new plan.
BlockDowngrade(h) ==
    /\ Moved(h, "write", "done") /\ Drop(h)
    /\ UNCHANGED <<money, sub, now, eventOf, want, faults, past>>

\* cancelSubscription.
Cancel(h) ==
    /\ Moved(h, "write", "done")
    /\ Writes(h, [copy[h] EXCEPT !.status = "canceled"], intent.plan, "canceled") /\ Drop(h)
    /\ UNCHANGED <<money, now, eventOf, want, faults, cut, raced>>

\* Mutant: an update from the provider makes the subscription active.
SubEventActive(d) ==
    LET status == IF eventOf[d] \in CancelEvents THEN "canceled" ELSE "active" IN
    /\ Moved(d, "write", "done")
    /\ Writes(d, [copy[d] EXCEPT !.status = status], intent.plan,
              IF eventOf[d] \in CancelEvents THEN "canceled" ELSE intent.status)
    /\ Drop(d)
    /\ UNCHANGED <<money, now, eventOf, want, faults, cut, raced>>

\* subscription.updated writes the row back with the provider's identifiers,
\* subscription.canceled with its status.
SubEvent(d) ==
    LET status == IF eventOf[d] \in CancelEvents THEN "canceled" ELSE copy[d].status IN
    /\ Moved(d, "write", "done")
    /\ Writes(d, [copy[d] EXCEPT !.status = status], intent.plan,
              IF eventOf[d] \in CancelEvents THEN "canceled" ELSE intent.status)
    /\ Drop(d)
    /\ UNCHANGED <<money, now, eventOf, want, faults, cut, raced>>

-----------------------------------------------------------------------------
Tick ==
    /\ now < MaxTime /\ now' = now + 1
    /\ UNCHANGED <<money, sub, calls, faults, past>>

\* A statement fails or the process restarts: the request ends where it is.
Fail(h) ==
    /\ at[h] \notin {"idle", "done", "dead"} /\ faults < MaxFaults
    /\ faults' = faults + 1 /\ MoveTo(h, "dead")
    /\ cut' = IF h \in Deliveries THEN cut \cup {eventOf[h]} ELSE cut
    /\ copy' = [r \in DOMAIN copy |-> IF r = h THEN Null ELSE copy[r]]
    /\ UNCHANGED <<money, sub, now, eventOf, want, raced, intent, stale>>

InvoiceStep == \E v \in Invoices : CountInvoices(v) \/ InsertInvoice(v)
EventStep   == \E d \in Deliveries :
                 \/ \E e \in Events : Deliver(d, e)
                 \/ Record(d) \/ Pay(d) \/ GetInvoice(d) \/ SumPayments(d) \/ SetPaid(d)
                 \/ SubEvent(d)
SubStep     == \/ \E h \in Deliveries \cup Readers : ReadSub(h) \/ Create(h) \/ Expire(h)
               \/ \E h \in PlanChanges : ChangePlan(h) \/ BlockDowngrade(h)
               \/ \E h \in Cancels : Cancel(h)

BillingNext == InvoiceStep \/ EventStep \/ SubStep \/ Tick \/ \E h \in Handlers : Fail(h)

BillingSpec == BillingInit /\ [][BillingNext]_billingVars

-----------------------------------------------------------------------------
(* What is promised.                                                       *)

\* The payments the provider has reported for an invoice, by identity: rows of
\* one event, or of events with one payment id, are one payment.
Charges(v) == {IF Id(p) # Null THEN Id(p) ELSE eventOf[p] : p \in Rows(v)}

\* An invoice is paid when that many different payments were reported; only an
\* event without a payment id, two deliveries of which were under way at once,
\* is counted twice.
PaidIsCovered ==
    \A v \in Invoices : invoice[v] = "paid" =>
        \/ Cardinality(Charges(v)) >= Due[v]
        \/ \E p, q \in Rows(v) : p # q /\ eventOf[p] = eventOf[q] /\ Id(p) = Null
                                 /\ {p, q} \subseteq raced

\* Nothing reported is dropped or left half applied: when no delivery of its
\* events is under way, a recorded event has its payment row, and an invoice
\* whose payments cover it is paid; unless a fault cut a delivery short, whose
\* redelivery is ignored.
RecordedIsApplied ==
    \A e \in events \cap PayEvents : LET v == InvoiceOf[e] IN
        /\ \A x \in PayEvents : InvoiceOf[x] = v => Bringing(x) = {} /\ x \notin cut
        => /\ \E p \in Rows(v) : eventOf[p] = e \/ (Id(p) # Null /\ Id(p) = PaymentOf[e])
           /\ Cardinality(Rows(v)) >= Due[v] => invoice[v] = "paid"

\* The row says what the last change, cancellation or expiry made of it: the
\* writes that carry the rest of the row along lose none of it, unless one
\* puts back a row that was written since it was read; and a plan that has
\* expired is the free one even then.
RowFollowsIntent ==
    /\ ~stale /\ sub # Null => sub.plan = intent.plan /\ sub.status = intent.status
    /\ sub # Null /\ sub.status = "expired" => sub.plan = "free"
=============================================================================
