-------------------------- MODULE AutomationProofs --------------------------
(***************************************************************************)
(* TLAPS proofs about packages/automation: AutomationQueue, for any number *)
(* of publishes, consumers and deliveries, and Schedules, for any number of *)
(* schedules, expressions, requests and instants.                          *)
(***************************************************************************)
EXTENDS AutomationQueue, Schedules, FiniteSetTheorems, TLAPS

-----------------------------------------------------------------------------
(* AutomationQueue.                                                        *)

\* An ack or nack under way names a message, and when it has decided it will
\* write a status that ack and nack write.
RequestInv ==
    \A w \in Consumers :
        /\ pc[w] # "idle" => msg[w] \in Publishes
        /\ pc[w] = "write" => verdict[w] \in {"acked", "dead", "queued"}

\* A row is stored once, and delivered only when stored.
RowInv ==
    \A m \in Publishes :
        /\ publish[m] # "done" => status[m] = "none"
        /\ status[m] = "none" => deliveries[m] = 0

\* A message that can be delivered again, or is about to be requeued, has a
\* delivery left of the budget that is accounted for.
Deliverable(m) ==
    \/ status[m] = "queued"
    \/ status[m] = "leased" /\ m \notin leases
    \/ Requeuing(m)

BudgetOf(m) ==
    excused[m] < Excess =>
        /\ deliveries[m] <= MaxDeliveries + excused[m]
        /\ Deliverable(m) => deliveries[m] < MaxDeliveries + excused[m]

BudgetInv == \A m \in Publishes : BudgetOf(m)

Inv == TypeOK /\ RequestInv /\ RowInv

LEMMA InitInv == Init => Inv /\ BudgetInv
<1> USE ConstantsAssumption
<1> SUFFICES ASSUME Init PROVE Inv /\ BudgetInv
  OBVIOUS
<1>1. TypeOK
  BY DEF Init, TypeOK
<1>2. RequestInv /\ RowInv
  BY DEF Init, RequestInv, RowInv
<1>3. BudgetInv
  BY DEF Init, BudgetInv, BudgetOf
<1> QED
  BY <1>1, <1>2, <1>3 DEF Inv

\* The statements of publish.
LEMMA PublishInv ==
    ASSUME Inv, BudgetInv, NEW p \in Publishes, PublishStep(p)
    PROVE  Inv' /\ BudgetInv'
<1> USE ConstantsAssumption DEF Inv, rows, request
<1>1. CASE LookUpKey(p)
  <2>1. /\ publish[p] = "idle"
        /\ publish' = [publish EXCEPT ![p] = "done"] \/ publish' = [publish EXCEPT ![p] = "insert"]
        /\ UNCHANGED <<rows, request, held, excused>>
    BY <1>1 DEF LookUpKey
  <2>2. TypeOK'
    BY <2>1 DEF TypeOK
  <2>3. RequestInv' /\ RowInv'
    BY <2>1 DEF TypeOK, RequestInv, RowInv
  <2>4. BudgetInv'
    BY <2>1 DEF BudgetInv, BudgetOf, Deliverable, Requeuing
  <2> QED
    BY <2>2, <2>3, <2>4
<1>2. CASE Insert(p)
  <2>0. /\ UNCHANGED <<deliveries, leases, request, held, excused>>
        /\ status' = status \/ status' = [status EXCEPT ![p] = "queued"]
        /\ publish' = [publish EXCEPT ![p] = "done"]
        /\ status[p] = "none" /\ deliveries[p] = 0
    BY <1>2 DEF Insert, RowInv
  <2>1. TypeOK'
    BY <1>2 DEF Insert, TypeOK, Stored
  <2>2. RequestInv'
    BY <2>0 DEF RequestInv
  <2>3. RowInv'
    BY <2>0 DEF TypeOK, RowInv
  <2>4. ASSUME NEW m \in Publishes, excused'[m] < Excess, Deliverable(m)', m # p
        PROVE  Deliverable(m)
    BY <2>0, <2>4 DEF TypeOK, Deliverable, Requeuing
  <2>5. BudgetOf(p)'
    BY <2>0 DEF TypeOK, BudgetOf
  <2>6. ASSUME NEW m \in Publishes, m # p PROVE BudgetOf(m)'
    BY <2>0, <2>4, <2>6 DEF BudgetInv, BudgetOf
  <2> QED
    BY <2>1, <2>2, <2>3, <2>5, <2>6 DEF BudgetInv
<1> QED
  BY <1>1, <1>2 DEF PublishStep

\* Excuse keeps the budget's type and takes nothing back.
LEMMA Excused ==
    ASSUME TypeOK, NEW S, Excuse(S)
    PROVE  /\ excused' \in [Publishes -> 0 .. Excess]
           /\ \A m \in Publishes :
                 \/ excused'[m] = excused[m] + 1
                 \/ /\ excused'[m] = excused[m]
                    /\ m \notin S \/ ~(deliveries'[m] >= MaxDeliveries) \/ excused[m] = Excess
BY ConstantsAssumption DEF TypeOK, Excuse

\* Leasing counts a delivery, which the message has left of its budget.
LEMMA ConsumeInv ==
    ASSUME Inv, BudgetInv, NEW w \in Consumers, NEW limit \in Limits, Consume(w, limit)
    PROVE  Inv' /\ BudgetInv'
<1> USE ConstantsAssumption DEF Inv, request
<1>1. PICK reply \in SUBSET Eligible : held' = [held EXCEPT ![w] = @ \cup reply]
  BY DEF Consume
<1>2. /\ status' = [m \in Publishes |-> IF m \in Eligible THEN "leased" ELSE status[m]]
      /\ deliveries' = [m \in Publishes |->
                          IF m \in Eligible THEN Counted(deliveries[m]) ELSE deliveries[m]]
      /\ leases' = leases \cup Eligible
      /\ Excuse({m \in Eligible : Requeuing(m)})
      /\ UNCHANGED <<queue, older, publish, request>>
  BY DEF Consume
<1>3. Eligible \subseteq Publishes /\ \A m \in Eligible : Deliverable(m) /\ status[m] # "none"
  BY DEF Eligible, Deliverable
<1>4. \A m \in Publishes : deliveries'[m] \in 0 .. MaxDeliveries + Excess
  BY <1>2 DEF Counted, TypeOK
<1>5. TypeOK'
  <2>1. /\ status' \in [Publishes -> Stored \cup {"none", "gone"}]
        /\ deliveries' \in [Publishes -> 0 .. MaxDeliveries + Excess]
    BY <1>2, <1>4 DEF TypeOK, Stored
  <2>2. held' \in [Consumers -> SUBSET Publishes]
    BY <1>1, <1>3 DEF TypeOK
  <2>3. excused' \in [Publishes -> 0 .. Excess]
    BY <1>2, Excused
  <2> QED
    BY <1>2, <1>3, <2>1, <2>2, <2>3 DEF TypeOK
<1>6. RequestInv' /\ RowInv'
  BY <1>2, <1>3 DEF TypeOK, RequestInv, RowInv
<1>7. \A m \in Publishes : Requeuing(m)' = Requeuing(m)
  BY <1>2 DEF Requeuing
<1>8. ASSUME NEW m \in Publishes, m \notin Eligible PROVE BudgetOf(m)'
  <2>1. excused'[m] = excused[m]
    BY <1>2, <1>8 DEF Excuse
  <2>2. status'[m] = status[m] /\ deliveries'[m] = deliveries[m] /\ (m \in leases' <=> m \in leases)
    BY <1>2, <1>8
  <2> QED
    BY <2>1, <2>2, <1>7 DEF BudgetInv, BudgetOf, Deliverable
<1>9. ASSUME NEW m \in Eligible, excused'[m] < Excess
      PROVE  /\ deliveries'[m] <= MaxDeliveries + excused'[m]
             /\ Deliverable(m)' => deliveries'[m] < MaxDeliveries + excused'[m]
  <2>0. excused[m] \in Nat /\ deliveries[m] \in Nat /\ m \in Publishes
    BY <1>3 DEF TypeOK
  <2>1. \/ excused'[m] = excused[m] + 1
        \/ excused'[m] = excused[m] /\ (~Requeuing(m) \/ ~(deliveries'[m] >= MaxDeliveries))
    <3> DEFINE S == {k \in Eligible : Requeuing(k)}
    <3>1. Excuse(S)
      BY <1>2
    <3>2. m \in S <=> Requeuing(m)
      OBVIOUS
    <3> HIDE DEF S
    <3>3. \/ excused'[m] = excused[m] + 1
          \/ /\ excused'[m] = excused[m]
             /\ m \notin S \/ ~(deliveries'[m] >= MaxDeliveries) \/ excused[m] = Excess
      BY <2>0, <3>1, Excused
    <3> QED
      BY <1>9, <3>2, <3>3
  <2>2. excused[m] < Excess
    BY <1>9, <2>0, <2>1
  <2>3. deliveries[m] < MaxDeliveries + excused[m]
    BY <1>3, <2>2 DEF BudgetInv, BudgetOf
  <2>4. deliveries'[m] = deliveries[m] + 1
    BY <1>2, <2>0, <2>2, <2>3 DEF Counted
  <2>5. Deliverable(m)' => Requeuing(m)
    BY <1>2, <1>3, <1>7 DEF Deliverable
  <2>6. CASE excused'[m] = excused[m] + 1
    BY <2>0, <2>3, <2>4, <2>6
  <2>7. CASE excused'[m] = excused[m] /\ ~Requeuing(m)
    BY <2>0, <2>3, <2>4, <2>5, <2>7
  <2>8. CASE excused'[m] = excused[m] /\ ~(deliveries'[m] >= MaxDeliveries)
    BY <2>0, <2>3, <2>4, <2>8
  <2> QED
    BY <2>1, <2>6, <2>7, <2>8
<1>10. BudgetInv'
  BY <1>8, <1>9 DEF BudgetInv, BudgetOf
<1> QED
  BY <1>5, <1>6, <1>10

\* A lease that expires with the budget used up is accounted for.
LEMMA LapseInv ==
    ASSUME Inv, BudgetInv, NEW m \in Publishes, LeaseExpires(m)
    PROVE  Inv' /\ BudgetInv'
<1> USE ConstantsAssumption DEF Inv, request
<1>1. /\ leases' = leases \ {m} /\ Excuse({m})
      /\ UNCHANGED <<queue, status, older, deliveries, publish, request, held>>
  BY DEF LeaseExpires
<1>2. TypeOK'
  BY <1>1, Excused DEF TypeOK
<1>3. RequestInv' /\ RowInv'
  BY <1>1 DEF RequestInv, RowInv
<1>4. ASSUME NEW k \in Publishes, excused'[k] < Excess
      PROVE  BudgetOf(k)'
  <2>0. excused[k] \in Nat /\ deliveries[k] \in Nat
    BY DEF TypeOK
  <2>1. \/ excused'[k] = excused[k] + 1
        \/ excused'[k] = excused[k] /\ (k # m \/ ~(deliveries[k] >= MaxDeliveries))
    BY <1>1, <1>4, Excused
  <2>2. /\ deliveries'[k] = deliveries[k]
        /\ k # m /\ Deliverable(k)' => Deliverable(k)
    BY <1>1 DEF Deliverable, Requeuing
  <2>3. deliveries[k] <= MaxDeliveries + excused[k]
    BY <1>4, <2>0, <2>1 DEF BudgetInv, BudgetOf
  <2>4. CASE excused'[k] = excused[k] + 1
    BY <2>0, <2>2, <2>3, <2>4 DEF BudgetOf
  <2>5. CASE excused'[k] = excused[k] /\ k # m
    BY <1>4, <2>2, <2>5 DEF BudgetInv, BudgetOf
  <2>6. CASE excused'[k] = excused[k] /\ ~(deliveries[k] >= MaxDeliveries)
    BY <2>0, <2>2, <2>6 DEF BudgetOf
  <2> QED
    BY <2>1, <2>4, <2>5, <2>6
<1>5. BudgetInv'
  BY <1>4 DEF BudgetInv, BudgetOf
<1> QED
  BY <1>2, <1>3, <1>5

\* Ack and nack, by any member for any message: only a nack that reads a count
\* below maxDeliveries decides to requeue.
LEMMA AnswerInv ==
    ASSUME Inv, BudgetInv, NEW w \in Consumers, AnswerStep(w)
    PROVE  Inv' /\ BudgetInv'
<1> USE ConstantsAssumption DEF Inv, rows, request
<1>1. ASSUME NEW m \in Publishes, NEW v \in Verbs, Answer(w, m, v) PROVE Inv' /\ BudgetInv'
  <2>1. TypeOK'
    BY <1>1 DEF Answer, TypeOK, Verbs
  <2>2. RequestInv' /\ RowInv'
    BY <1>1 DEF Answer, TypeOK, RequestInv, RowInv
  <2>3. \A k \in Publishes : Requeuing(k)' => Requeuing(k)
    BY <1>1 DEF Answer, TypeOK, Requeuing
  <2>4. BudgetInv'
    BY <1>1, <2>3 DEF Answer, BudgetInv, BudgetOf, Deliverable
  <2> QED
    BY <2>1, <2>2, <2>4
<1>2. CASE ReadForNack(w)
  <2>0. msg[w] \in Publishes /\ UNCHANGED <<rows, publish, excused>>
    BY <1>2 DEF ReadForNack, RequestInv
  <2>1. TypeOK'
    BY <1>2 DEF ReadForNack, Respond, TypeOK, Outcome
  <2>2. RequestInv' /\ RowInv'
    BY <1>2, <2>0 DEF ReadForNack, Respond, TypeOK, RequestInv, RowInv, Outcome
  <2>3. ASSUME NEW k \in Publishes, Requeuing(k)'
        PROVE  Requeuing(k) \/ deliveries[k] < MaxDeliveries
    BY <1>2, <2>0, <2>3 DEF ReadForNack, Respond, TypeOK, Requeuing, Outcome
  <2>4. BudgetInv'
    BY <2>0, <2>3 DEF TypeOK, BudgetInv, BudgetOf, Deliverable
  <2> QED
    BY <2>1, <2>2, <2>4
<1>3. CASE Write(w)
  <2>0. /\ msg[w] \in Publishes /\ verdict[w] \in {"acked", "dead", "queued"}
        /\ UNCHANGED <<queue, older, deliveries, publish, excused>>
    BY <1>3 DEF Write, RequestInv
  <2>1. TypeOK'
    BY <1>3, <2>0 DEF Write, Respond, TypeOK, Stored, Settled
  <2>2. RequestInv' /\ RowInv'
    BY <1>3, <2>0 DEF Write, Respond, TypeOK, RequestInv, RowInv, IsStored, Stored, Settled
  <2>3. \A k \in Publishes : Requeuing(k)' => Requeuing(k)
    BY <1>3 DEF Write, Respond, TypeOK, Requeuing
  <2>4. ASSUME NEW k \in Publishes, Deliverable(k)' PROVE Deliverable(k)
    <3>1. CASE k = msg[w] /\ IsStored(k) /\ verdict[w] = "queued"
      BY <1>3, <3>1 DEF Write, Deliverable, Requeuing
    <3>2. CASE k = msg[w] /\ IsStored(k) /\ verdict[w] # "queued"
      BY <1>3, <2>0, <2>3, <2>4, <3>2 DEF Write, Deliverable, TypeOK
    <3>3. CASE k # msg[w] \/ ~IsStored(k)
      BY <1>3, <2>0, <2>3, <2>4, <3>3 DEF Write, Deliverable, TypeOK
    <3> QED
      BY <3>1, <3>2, <3>3
  <2>5. BudgetInv'
    BY <2>0, <2>4 DEF BudgetInv, BudgetOf
  <2> QED
    BY <2>1, <2>2, <2>5
<1> QED
  BY <1>1, <1>2, <1>3 DEF AnswerStep, AnswerFor, Proceed

\* A statement that removes stored rows.
LEMMA RemoveInv ==
    ASSUME Inv, BudgetInv, NEW S \in SUBSET Publishes, RemoveRows(S), \A m \in S : IsStored(m),
           queue' \in {"live", "emptied", "deleted"},
           UNCHANGED <<publish, request, held, excused>>
    PROVE  Inv' /\ BudgetInv'
<1> USE DEF Inv, request, RemoveRows
<1>1. TypeOK'
  BY DEF TypeOK
<1>2. RequestInv' /\ RowInv'
  BY DEF TypeOK, RequestInv, RowInv, IsStored, Stored, Settled
<1>3. BudgetInv'
  BY DEF BudgetInv, BudgetOf, Deliverable, Requeuing
<1> QED
  BY <1>1, <1>2, <1>3

LEMMA StepInv == Inv /\ BudgetInv /\ [Next]_vars => Inv' /\ BudgetInv'
<1> SUFFICES ASSUME Inv, BudgetInv, [Next]_vars PROVE Inv' /\ BudgetInv'
  OBVIOUS
<1>1. ASSUME NEW p \in Publishes, PublishStep(p) \/ LeaseExpires(p) PROVE Inv' /\ BudgetInv'
  BY <1>1, PublishInv, LapseInv
<1>2. ASSUME NEW w \in Consumers, ConsumeStep(w) \/ AnswerStep(w) PROVE Inv' /\ BudgetInv'
  BY <1>2, ConsumeInv, AnswerInv DEF ConsumeStep
<1>3. ASSUME NEW S \in SUBSET Settled, Purge(S) PROVE Inv' /\ BudgetInv'
  <2>1. \A m \in {k \in Publishes : status[k] \in S} : IsStored(m)
    BY DEF IsStored, Stored
  <2> QED
    BY <1>3, <2>1, RemoveInv DEF Purge, Inv, TypeOK
<1>4. ASSUME DeleteMessages \/ DeleteQueue PROVE Inv' /\ BudgetInv'
  BY <1>4, RemoveInv DEF DeleteMessages, DeleteQueue, DeleteRows
<1>5. ASSUME UNCHANGED vars PROVE Inv' /\ BudgetInv'
  BY <1>5 DEF vars, rows, request, Inv, TypeOK, RequestInv, RowInv, BudgetInv, BudgetOf,
              Deliverable, Requeuing
<1> QED
  BY <1>1, <1>2, <1>3, <1>4, <1>5 DEF Next, Discard

LEMMA Invariance == Spec => [](Inv /\ BudgetInv)
BY InitInv, StepInv, PTL DEF Spec

\* Every variable keeps its type.
THEOREM TypeCorrect == Spec => []TypeOK
<1>1. Inv => TypeOK
  BY DEF Inv
<1> QED
  BY <1>1, Invariance, PTL

\* Each delivery beyond maxDeliveries is accounted for by a lease that expired
\* or a requeue on its way, although any member may nack any listed message.
THEOREM ExcessAccountedFor == Spec => []ExcessIsAccountedFor
<1>1. Inv /\ BudgetInv => ExcessIsAccountedFor
  BY ConstantsAssumption DEF Inv, TypeOK, BudgetInv, BudgetOf, ExcessIsAccountedFor
<1> QED
  BY <1>1, Invariance, PTL

-----------------------------------------------------------------------------
(* The refinement: each step of the queue is one of AcceptedMessages or none. *)

\* State[m], phase by phase.
LEMMA Phases ==
    ASSUME NEW m \in Publishes, TypeOK
    PROVE  /\ status[m] = "none" => State[m] = "new"
           /\ status[m] = "gone" => State[m] = "gone"
           /\ status[m] \in Settled => State[m] = "settled"
           /\ status[m] \in {"queued", "leased"} => State[m] = "open"
           /\ status[m] \in {"none", "gone", "queued", "leased"} \cup Settled
BY DEF State, Settled, Stored, TypeOK

\* Steps that leave the rows' statuses and the queue alone.
LEMMA Stutter ==
    UNCHANGED <<status, queue>> => UNCHANGED <<State, queue # "live">>
BY DEF State

LEMMA RefineInsert ==
    ASSUME Inv, NEW p \in Publishes, Insert(p)
    PROVE  Promise!Accept(p) \/ UNCHANGED <<State, queue # "live">>
<1>1. CASE queue = "deleted"
  BY <1>1, Stutter DEF Insert, rows
<1>2. CASE queue # "deleted"
  <2>1. status' = [status EXCEPT ![p] = "queued"] /\ queue' = queue
    BY <1>2 DEF Insert
  <2>2. status[p] = "none"
    BY DEF Insert, Inv, RowInv
  <2>3. State' = [m \in Publishes |-> IF m \in {p} THEN "open" ELSE State[m]]
    BY <2>1, <2>2 DEF State, Inv, TypeOK, Settled
  <2>4. \A m \in {p} : State[m] \in {"new"}
    BY <2>2, Phases DEF Inv
  <2> QED
    BY <2>1, <2>3, <2>4 DEF Promise!Accept, Promise!Move
<1> QED
  BY <1>1, <1>2

\* A leased message is as open as a queued one.
LEMMA RefineConsume ==
    ASSUME Inv, NEW w \in Consumers, NEW limit \in Limits, Consume(w, limit)
    PROVE  UNCHANGED <<State, queue # "live">>
<1>1. /\ status' = [m \in Publishes |-> IF m \in Eligible THEN "leased" ELSE status[m]]
      /\ queue' = queue
  BY DEF Consume
<1>2. \A m \in Eligible : status[m] \in {"queued", "leased"}
  BY DEF Eligible
<1> QED
  BY <1>1, <1>2 DEF State, Settled

\* The write of an ack or a nack settles, reopens or leaves a stored message.
LEMMA RefineWrite ==
    ASSUME Inv, NEW w \in Consumers, Write(w)
    PROVE  \/ \E m \in Publishes : Promise!Settle(m) \/ Promise!Reopen(m)
           \/ UNCHANGED <<State, queue # "live">>
<1> DEFINE m == msg[w]
<1>0. m \in Publishes /\ verdict[w] \in {"acked", "dead", "queued"}
  BY DEF Write, Inv, RequestInv
<1>1. queue' = queue
  BY DEF Write
<1>2. CASE ~IsStored(m)
  BY <1>1, <1>2, Stutter DEF Write
<1>3. CASE IsStored(m)
  <2>1. status' = [status EXCEPT ![m] = verdict[w]]
    BY <1>3 DEF Write
  <2>2. State[m] \in {"open", "settled"}
    BY <1>0, <1>3, Phases DEF Inv, IsStored, Stored, Settled
  <2>3. State' = [k \in Publishes |->
                    IF k \in {m}
                      THEN IF verdict[w] = "queued" THEN "open" ELSE "settled"
                      ELSE State[k]]
    BY <1>0, <1>1, <2>1 DEF State, Settled, Inv, TypeOK
  <2> HIDE DEF m
  <2>4. State = [k \in Publishes |-> State[k]]
    BY DEF State
  <2>5. CASE verdict[w] = "queued" /\ State[m] = "settled"
    BY <1>0, <1>1, <2>3, <2>5 DEF Promise!Reopen, Promise!Move
  <2>6. CASE verdict[w] # "queued" /\ State[m] = "open"
    BY <1>0, <1>1, <2>3, <2>6 DEF Promise!Settle, Promise!Move
  <2>7. CASE verdict[w] = "queued" <=> State[m] = "open"
    <3>1. State' = State
      BY <2>2, <2>3, <2>4, <2>7
    <3> QED
      BY <1>1, <3>1
  <2> QED
    BY <2>2, <2>5, <2>6, <2>7
<1> QED
  BY <1>2, <1>3

\* A purge removes settled messages.
LEMMA RefinePurge ==
    ASSUME Inv, NEW S \in SUBSET Settled, Purge(S)
    PROVE  \E D \in SUBSET Publishes : Promise!Discard(D)
<1> DEFINE D == {m \in Publishes : status[m] \in S}
<1>1. status' = [m \in Publishes |-> IF m \in D THEN "gone" ELSE status[m]]
  BY DEF Purge, RemoveRows
<1>2. queue' = queue
  BY DEF Purge
<1>3. \A m \in D : State[m] \in {"settled"}
  BY Phases DEF Inv
<1>4. State' = [m \in Publishes |-> IF m \in D THEN "gone" ELSE State[m]]
  BY <1>1, <1>2 DEF State, Settled
<1> QED
  BY <1>2, <1>3, <1>4 DEF Promise!Discard, Promise!Move

\* Deleting the queue removes what it stores.
LEMMA RefineDelete ==
    ASSUME Inv, DeleteMessages \/ DeleteQueue
    PROVE  Promise!Drop
<1>1. /\ status' = [m \in Publishes |-> IF IsStored(m) THEN "gone" ELSE status[m]]
      /\ queue' # "live"
  BY DEF DeleteMessages, DeleteQueue, DeleteRows, RemoveRows
<1>2. State' = [m \in Publishes |->
                  IF m \in {k \in Publishes : State[k] # "new"} THEN "gone" ELSE State[m]]
  BY <1>1 DEF State, IsStored, Stored, Settled, Inv, TypeOK
<1>3. \A m \in {k \in Publishes : State[k] # "new"} : State[m] \in Promise!Phase
  BY DEF State, Promise!Phase
<1> QED
  BY <1>1, <1>2, <1>3 DEF Promise!Drop, Promise!Move

LEMMA RefineStep == Inv /\ [Next]_vars => [Promise!Next]_(Promise!vars)
<1> SUFFICES ASSUME Inv, [Next]_vars
             PROVE  Promise!Next \/ UNCHANGED <<State, queue # "live">>
  BY DEF Promise!vars
<1>1. ASSUME NEW p \in Publishes, LookUpKey(p) \/ LeaseExpires(p)
      PROVE  UNCHANGED <<State, queue # "live">>
  BY <1>1, Stutter DEF LookUpKey, LeaseExpires, rows
<1>2. ASSUME NEW p \in Publishes, Insert(p)
      PROVE  Promise!Next \/ UNCHANGED <<State, queue # "live">>
  BY <1>2, RefineInsert DEF Promise!Next
<1>3. ASSUME NEW w \in Consumers, ConsumeStep(w) PROVE UNCHANGED <<State, queue # "live">>
  BY <1>3, RefineConsume DEF ConsumeStep
<1>4. ASSUME NEW w \in Consumers, AnswerStep(w)
      PROVE  Promise!Next \/ UNCHANGED <<State, queue # "live">>
  <2>1. ASSUME NEW m \in Publishes, NEW v \in Verbs, Answer(w, m, v)
        PROVE  UNCHANGED <<State, queue # "live">>
    BY <2>1, Stutter DEF Answer, rows
  <2>2. CASE ReadForNack(w)
    BY <2>2, Stutter DEF ReadForNack, rows
  <2>3. CASE Write(w)
    BY <2>3, RefineWrite DEF Promise!Next
  <2> QED
    BY <1>4, <2>1, <2>2, <2>3 DEF AnswerStep, AnswerFor, Proceed
<1>5. ASSUME Discard PROVE Promise!Next
  BY <1>5, RefinePurge DEF Discard, Promise!Next
<1>6. ASSUME DeleteMessages \/ DeleteQueue PROVE Promise!Next
  BY <1>6, RefineDelete DEF Promise!Next
<1>7. ASSUME UNCHANGED vars PROVE UNCHANGED <<State, queue # "live">>
  BY <1>7, Stutter DEF vars, rows
<1> QED
  BY <1>1, <1>2, <1>3, <1>4, <1>5, <1>6, <1>7 DEF Next, PublishStep

\* The queue keeps what AcceptedMessages promises, whoever acks and nacks: a
\* message is stored once, stays open until it is settled, and none leaves the
\* queue unsettled unless the queue is deleted.
THEOREM ImplementsAcceptedMessages == Spec => KeepsPromise
<1>1. Init => Promise!Init
  BY DEF Init, Promise!Init, State, Settled
<1>2. Spec => []Inv
  BY Invariance, PTL
<1> QED
  BY <1>1, <1>2, RefineStep, PTL DEF Spec, KeepsPromise, Promise!Spec

-----------------------------------------------------------------------------
(* Schedules.                                                              *)

Entries == due \cup ({running} \ {Null})

\* Requests under way and the worker's entries belong to schedules that were
\* created.
NamedInv ==
    /\ \A e \in Entries : mode[e.s] # "none"
    /\ \A r \in invoked : mode[r[1]] # "none"
    /\ \A p \in Patches : IF ppc[p] = "idle" THEN ptarget[p] = Null
                          ELSE /\ ptarget[p] \in Schedules /\ pnext[p] \in AllMinutes
                               /\ ppc[p] = "write" => pcron[p] \in Crons
    /\ \A t \in Triggers : IF tpc[t] = "idle" THEN ttarget[t] = Null
                           ELSE /\ ttarget[t] \in Schedules /\ tnext[t] \in AllMinutes
                                /\ mode[ttarget[t]] # "none"

\* A pass: one entry for each schedule, due when the list was read, and nothing
\* invoked since is later than that.
PassInv ==
    /\ \A d, e \in due : d.s = e.s => d = e
    /\ running # Null => \A e \in due : e.s # running.s
    /\ \A e \in Entries : e.next <= Minute(listTime)
    /\ Entries # {} => \A r \in invoked : r[2] <= Minute(listTime)
    /\ \A r \in invoked : r[2] <= Minute(now)
    /\ listTime <= now
    /\ running # Null => Following(running) # Null /\ <<running.s, running.next>> \in invoked

\* A request of a manager that writes this run.
Asked(s, m) == \/ \E t \in Triggers : ttarget[t] = s /\ tnext[t] = m
               \/ \E p \in Patches : ptarget[p] = s /\ pnext[p] = m

\* A run that was invoked has left the row and the list, or is being marked,
\* unless the worker was restarted, its marking failed or a request writes it.
LeftInv ==
    restarts = 0 =>
        \A s \in Schedules, m \in AllMinutes :
          <<s, m>> \in invoked \ unmarked /\ ~Asked(s, m) =>
            /\ \A e \in due : e.s # s \/ e.next # m
            /\ Kept(s) /\ nextRun[s] = m =>
                  running # Null /\ running.s = s /\ running.next = m

Patched(s) == \E p \in Patches : ptarget[p] = s

\* What is held of a schedule that is neither patched nor crossed: a trigger
\* puts back no later run than the row's, the row is no later than the worker's
\* entry, and what is earlier was invoked.
HeldInv ==
    \A s \in Schedules : Kept(s) /\ s \notin crossed /\ ~Patched(s) =>
        /\ \A t \in Triggers : tpc[t] = "write" /\ ttarget[t] = s =>
              tnext[t] <= nextRun[s] /\ (tnext[t] = nextRun[s] \/ <<s, tnext[t]>> \in invoked)
        /\ \A e \in Entries : e.s = s =>
              nextRun[s] <= e.next /\ (nextRun[s] = e.next \/ <<s, nextRun[s]>> \in invoked)
        /\ \A t, u \in Triggers : /\ tpc[t] = "write" /\ ttarget[t] = s
                                  /\ tpc[u] = "write" /\ ttarget[u] = s
                                  => t = u

CronInv == CronTypeOK /\ NamedInv /\ PassInv

-----------------------------------------------------------------------------
(* Time and the next run.                                                  *)

\* A set of naturals has a least element: the smallest initial interval.
LEMMA LeastNatural ==
    ASSUME NEW S \in SUBSET Nat, S # {}
    PROVE  \E m \in S : \A k \in S : m <= k
<1> DEFINE Upto == {0 .. m : m \in S}
<1>1. Upto \subseteq FiniteSubsetsOf(Nat)
  <2>1. ASSUME NEW m \in S
        PROVE  0 .. m \in SUBSET Nat /\ IsFiniteSet(0 .. m)
    <3>1. 0 \in Int /\ m \in Int
          OBVIOUS
    <3> QED BY <3>1, FS_Interval
  <2> QED BY <2>1 DEF FiniteSubsetsOf
<1>2. Upto # {}
      OBVIOUS
<1>3. PICK I \in Upto : \A J \in Upto : <<J, I>> \notin StrictSubsetOrdering(Nat)
  <2> HIDE DEF Upto
  <2> QED BY <1>1, <1>2, FS_StrictSubsetOrderingWellFounded, WFMin
<1>4. \E m \in S : I = 0 .. m
      OBVIOUS
<1>5. PICK m \in S : I = 0 .. m
      BY <1>4
<1>6. ASSUME NEW k \in S, k < m
      PROVE  FALSE
  <2>1. <<0 .. k, 0 .. m>> \in StrictSubsetOrdering(Nat)
    <3>1. m \in 0 .. m /\ m \notin 0 .. k /\ 0 .. k \subseteq 0 .. m /\ 0 .. m \subseteq Nat
          BY <1>6
    <3> QED BY <3>1 DEF StrictSubsetOrdering
  <2>2. 0 .. k \in Upto
        OBVIOUS
  <2> HIDE DEF Upto
  <2> QED BY <2>1, <2>2, <1>3, <1>5
<1> QED BY <1>6

LEMMA MinuteOrder ==
    /\ \A t \in Nat : Minute(t) \in Nat
    /\ \A t, u \in Nat : t <= u => Minute(t) <= Minute(u)
    /\ \A t \in Nat : Minute(t + 1) <= Minute(t) + 1
BY DEF Minute

\* A run lies in a later minute than the instant it is computed from.
LEMMA NextRunIsLater ==
    ASSUME NEW c \in Crons, NEW t \in Nat, NextRunFor(c, t) # Null
    PROVE  /\ NextRunFor(c, t) \in Nat
           /\ Minute(t) < NextRunFor(c, t)
           /\ NextRunFor(c, t) <= Minute(t) + Horizon
<1>1. Ahead(c, t) \subseteq Nat /\ Ahead(c, t) # {}
      BY CronAssumption DEF NextRunFor, Ahead
<1>2. \E m \in Ahead(c, t) : \A k \in Ahead(c, t) : m <= k
      BY <1>1, LeastNatural
<1>3. NextRunFor(c, t) \in Ahead(c, t)
      BY <1>1, <1>2 DEF NextRunFor
<1> QED BY <1>1, <1>3 DEF Ahead

LEMMA NextRunType ==
    ASSUME NEW c \in Crons, NEW t \in 0 .. MaxTime + 1, NextRunFor(c, t) # Null
    PROVE  NextRunFor(c, t) \in AllMinutes
<1>1. MaxTime \in Nat /\ Horizon \in Nat /\ t \in Nat
      BY CronAssumption
<1>2. Minute(t) <= Minute(MaxTime) + 1 /\ Minute(MaxTime) \in Nat /\ Minute(t) \in Nat
  <2>1. Minute(t) <= Minute(MaxTime + 1)
        BY <1>1, MinuteOrder
  <2>2. Minute(MaxTime + 1) <= Minute(MaxTime) + 1 /\ Minute(MaxTime + 1) \in Nat
        BY <1>1, MinuteOrder
  <2> QED BY <1>1, <2>1, <2>2, MinuteOrder
<1>3. /\ NextRunFor(c, t) \in Nat
      /\ NextRunFor(c, t) <= Minute(t) + Horizon
      BY <1>1, NextRunIsLater
<1> QED BY <1>1, <1>2, <1>3 DEF AllMinutes

LEMMA NullIsNothing ==
    /\ \A s \in Schedules : s # Null
    /\ \A c \in Crons : c # Null
    /\ \A m \in AllMinutes : m # Null /\ m \in Nat
    /\ \A e \in Entry : e # Null
    /\ \A e \in Entry : e.s \in Schedules /\ e.cron \in Crons /\ e.next \in AllMinutes
<1>1. AllMinutes \subseteq Nat
      BY DEF AllMinutes
<1>2. \A e \in Entry : e.s \in Schedules /\ e.cron \in Crons /\ e.next \in AllMinutes
      BY DEF Entry
<1>3. Null \notin Entry /\ Null \notin Nat /\ Null \notin Crons /\ Null \notin Schedules
      BY CronAssumption
<1>4. \A m \in AllMinutes : m # Null /\ m \in Nat
      BY <1>1, <1>3
<1> HIDE DEF Entry
<1> QED BY <1>2, <1>3, <1>4

LEMMA EntriesAre ==
    ASSUME CronTypeOK
    PROVE  /\ Entries \subseteq Entry
           /\ \A e \in due : e \in Entries
           /\ running # Null => running \in Entries
           /\ \A e \in Entries : e \in due \/ (running # Null /\ e = running)
<1>1. due \subseteq Entry /\ running \in Entry \cup {Null}
      BY DEF CronTypeOK
<1>2. Entries = due \cup ({running} \ {Null})
      BY DEF Entries
<1> QED BY <1>1, <1>2

\* The run that is written when an entry has been invoked is later than
\* whatever was invoked before.
LEMMA FollowingIsLater ==
    ASSUME CronTypeOK, PassInv, NEW e \in Entry, Following(e) # Null
    PROVE  /\ Following(e) \in AllMinutes
           /\ Minute(listTime) < Following(e)
<1>1. listTime \in Nat /\ listTime + 1 \in 0 .. MaxTime + 1 /\ e.cron \in Crons
      BY CronAssumption, NullIsNothing DEF CronTypeOK
<1>2. /\ NextRunFor(e.cron, listTime + 1) \in Nat
      /\ Minute(listTime + 1) < NextRunFor(e.cron, listTime + 1)
      BY <1>1, NextRunIsLater DEF Following
<1>3. NextRunFor(e.cron, listTime + 1) \in AllMinutes
      BY <1>1, NextRunType DEF Following
<1>4. Minute(listTime) <= Minute(listTime + 1) /\ Minute(listTime) \in Nat /\ Minute(listTime + 1) \in Nat
      BY <1>1, MinuteOrder
<1> QED BY <1>2, <1>3, <1>4 DEF Following

-----------------------------------------------------------------------------
(* What only grows.                                                        *)

\* A schedule is created once, what was invoked stays invoked, and a request
\* keeps its target and what it writes.
Grows ==
    /\ \A s \in Schedules : mode[s] # "none" => mode'[s] # "none"
    /\ invoked \subseteq invoked' /\ crossed \subseteq crossed' /\ unmarked \subseteq unmarked'
    /\ \A p \in Patches : ptarget[p] # Null => ptarget'[p] = ptarget[p] /\ pnext'[p] = pnext[p]
    /\ \A t \in Triggers : ttarget[t] # Null => ttarget'[t] = ttarget[t] /\ tnext'[t] = tnext[t]

LEMMA EveryStepGrows ==
    ASSUME CronTypeOK, NamedInv, [CronNext]_cronVars
    PROVE  Grows
<1> USE DEF Grows, CronTypeOK
<1>1. ASSUME NEW s \in Schedules, NEW c \in Crons, Create(s, c)
      PROVE  Grows
      BY <1>1 DEF Create, patch, trigger, firings
<1>2. ASSUME NEW s \in Schedules, SetEnabled(s)
      PROVE  Grows
      BY <1>2 DEF SetEnabled, patch, trigger, firings
<1>3. ASSUME NEW s \in Schedules, Delete(s)
      PROVE  Grows
      BY <1>3 DEF Delete, patch, trigger, firings
<1>4. ASSUME NEW p \in Patches, ReadPatch(p)
      PROVE  Grows
  <2>1. ptarget[p] = Null
        BY <1>4 DEF ReadPatch, NamedInv
  <2> QED BY <1>4, <2>1 DEF ReadPatch, table, trigger, firings
<1>5. ASSUME NEW p \in Patches, WritePatch(p)
      PROVE  Grows
      BY <1>5 DEF WritePatch, trigger, firings
<1>6. ASSUME NEW t \in Triggers, ReadTrigger(t)
      PROVE  Grows
  <2>1. ttarget[t] = Null
        BY <1>6 DEF ReadTrigger, NamedInv
  <2> QED BY <1>6, <2>1 DEF ReadTrigger, table, patch
<1>7. ASSUME NEW t \in Triggers, WriteTrigger(t)
      PROVE  Grows
      BY <1>7 DEF WriteTrigger, patch, firings
<1>8. ASSUME List
      PROVE  Grows
      BY <1>8 DEF List, table, patch, trigger, firings
<1>9. ASSUME NEW e \in due, Invoke(e)
      PROVE  Grows
      BY <1>9 DEF Invoke, table, patch, trigger, firings
<1>10. ASSUME MarkRun
       PROVE  Grows
       BY <1>10 DEF MarkRun, patch, trigger, firings
<1>11. ASSUME WorkerRestart
       PROVE  Grows
       BY <1>11 DEF WorkerRestart, table, patch, trigger, firings
<1>12. ASSUME Tick
       PROVE  Grows
       BY <1>12 DEF Tick, table, patch, trigger, firings
<1>13. ASSUME UNCHANGED cronVars
       PROVE  Grows
       BY <1>13 DEF cronVars, table, patch, trigger, firings
<1>14. ASSUME MarkFails
       PROVE  Grows
       BY <1>14 DEF MarkFails, table, patch, trigger
<1> QED BY <1>1, <1>2, <1>3, <1>4, <1>5, <1>6, <1>7, <1>8, <1>9, <1>10, <1>11, <1>12, <1>13, <1>14
        DEF CronNext, WorkerStep

LEMMA RequestsStay ==
    ASSUME CronTypeOK, NamedInv, [CronNext]_cronVars, NEW s \in Schedules
    PROVE  /\ Patched(s) => Patched(s)'
           /\ \A m \in AllMinutes : Asked(s, m) => Asked(s, m)'
<1>1. Grows
      BY EveryStepGrows
<1>2. s # Null
      BY NullIsNothing
<1> QED BY <1>1, <1>2 DEF Grows, Patched, Asked

-----------------------------------------------------------------------------
(* Types.                                                                  *)

LEMMA CronTypeInit == CronInit => CronTypeOK
<1> SUFFICES ASSUME CronInit
             PROVE  CronTypeOK
    OBVIOUS
<1>1. 0 \in 0 .. MaxTime /\ 0 \in 0 .. MaxRestarts
      BY CronAssumption
<1> QED BY <1>1 DEF CronInit, CronTypeOK, Kept

LEMMA CronTypeStep ==
    ASSUME CronTypeOK, NamedInv, PassInv, [CronNext]_cronVars
    PROVE  CronTypeOK'
<1> USE DEF CronTypeOK, Kept
<1>a. now \in 0 .. MaxTime + 1 /\ listTime + 1 \in 0 .. MaxTime + 1
      BY CronAssumption
<1>1. ASSUME NEW s \in Schedules, NEW c \in Crons, Create(s, c)
      PROVE  CronTypeOK'
  <2>1. NextRunFor(c, now) \in AllMinutes
        BY <1>1, <1>a, NextRunType DEF Create
  <2> QED BY <1>1, <2>1, NullIsNothing DEF Create, worker, patch, trigger, firings
<1>2. ASSUME NEW s \in Schedules, SetEnabled(s)
      PROVE  CronTypeOK'
      BY <1>2 DEF SetEnabled, worker, patch, trigger, firings
<1>3. ASSUME NEW s \in Schedules, Delete(s)
      PROVE  CronTypeOK'
      BY <1>3 DEF Delete, worker, patch, trigger, firings
<1>4. ASSUME NEW p \in Patches, ReadPatch(p)
      PROVE  CronTypeOK'
  <2>1. \A c \in Crons : NextRunFor(c, now) # Null => NextRunFor(c, now) \in AllMinutes
        BY <1>a, NextRunType
  <2> QED BY <1>4, <2>1 DEF ReadPatch, table, worker, trigger, firings
<1>5. ASSUME NEW p \in Patches, WritePatch(p)
      PROVE  CronTypeOK'
  <2>1. ptarget[p] \in Schedules /\ pnext[p] \in AllMinutes /\ pcron[p] \in Crons
        BY <1>5 DEF WritePatch, NamedInv
  <2> QED BY <1>5, <2>1, NullIsNothing DEF WritePatch, worker, trigger, firings
<1>6. ASSUME NEW t \in Triggers, ReadTrigger(t)
      PROVE  CronTypeOK'
      BY <1>6 DEF ReadTrigger, table, worker, patch
<1>7. ASSUME NEW t \in Triggers, WriteTrigger(t)
      PROVE  CronTypeOK'
  <2>1. ttarget[t] \in Schedules /\ tnext[t] \in AllMinutes
        BY <1>7 DEF WriteTrigger, NamedInv
  <2> QED BY <1>7, <2>1, NullIsNothing DEF WriteTrigger, MarkScheduleRun, worker, patch, firings
<1>8. ASSUME List
      PROVE  CronTypeOK'
  <2>1. PICK S \in SUBSET Due : due' = {[s |-> s, cron |-> cron[s], next |-> nextRun[s]] : s \in S}
        BY <1>8 DEF List
  <2>2. \A s \in S : /\ s \in Schedules /\ cron[s] \in Crons /\ nextRun[s] \in AllMinutes
        BY DEF Due
  <2>3. due' \subseteq Entry
        BY <2>1, <2>2 DEF Entry
  <2> QED BY <1>8, <2>3 DEF List, table, patch, trigger, firings
<1>9. ASSUME NEW e \in due, Invoke(e)
      PROVE  CronTypeOK'
  <2>1. e \in Entry /\ <<e.s, e.next>> \in Schedules \X AllMinutes
        BY NullIsNothing
  <2>2. due' \subseteq Entry /\ listTime' \in 0 .. MaxTime /\ running' \in Entry \cup {Null}
        BY <1>9, <2>1, CronAssumption DEF Invoke
  <2>3. /\ invoked' \subseteq Schedules \X AllMinutes /\ repeated' \subseteq invoked'
        /\ crossed' \subseteq Schedules /\ unmarked' \subseteq invoked'
        BY <1>9, <2>1 DEF Invoke, firings
  <2> QED BY <1>9, <2>2, <2>3 DEF Invoke, table, patch, trigger
<1>10. ASSUME MarkRun
       PROVE  CronTypeOK'
  <2>1. running \in Entry /\ running.s \in Schedules
        BY <1>10, NullIsNothing DEF MarkRun
  <2>2. Following(running) \in AllMinutes
        BY <1>10, <2>1, FollowingIsLater DEF MarkRun, PassInv
  <2>3. listTime' \in 0 .. MaxTime
        BY <1>10, CronAssumption DEF MarkRun
  <2>4. nextRun' \in [Schedules -> AllMinutes \cup {Null}]
        BY <1>10, <2>1, <2>2 DEF MarkRun, MarkScheduleRun
  <2>5. \A s \in Schedules : nextRun[s] # Null => nextRun'[s] # Null
        BY <1>10, <2>1, <2>2, NullIsNothing DEF MarkRun, MarkScheduleRun
  <2> QED BY <1>10, <2>3, <2>4, <2>5 DEF MarkRun, patch, trigger, firings
<1>11. ASSUME WorkerRestart
       PROVE  CronTypeOK'
  <2>1. restarts' \in 0 .. MaxRestarts /\ listTime' \in 0 .. MaxTime
        BY <1>11, CronAssumption DEF WorkerRestart
  <2> QED BY <1>11, <2>1 DEF WorkerRestart, table, patch, trigger, firings
<1>12. ASSUME Tick
       PROVE  CronTypeOK'
  <2>1. now' \in 0 .. MaxTime
        BY <1>12, CronAssumption DEF Tick
  <2> QED BY <1>12, <2>1 DEF Tick, table, worker, patch, trigger, firings
<1>13. ASSUME UNCHANGED cronVars
       PROVE  CronTypeOK'
       BY <1>13 DEF cronVars, table, worker, patch, trigger, firings
<1>14. ASSUME MarkFails
       PROVE  CronTypeOK'
  <2>1. listTime' \in 0 .. MaxTime
        BY <1>14, CronAssumption DEF MarkFails
  <2>2. unmarked' \subseteq invoked'
        BY <1>14 DEF MarkFails, PassInv
  <2> QED BY <1>14, <2>1, <2>2 DEF MarkFails, table, patch, trigger
<1> QED BY <1>1, <1>2, <1>3, <1>4, <1>5, <1>6, <1>7, <1>8, <1>9, <1>10, <1>11, <1>12, <1>13, <1>14
        DEF CronNext, WorkerStep

-----------------------------------------------------------------------------
(* Requests and entries belong to schedules that were created.             *)

LEMMA NamedStep ==
    ASSUME CronTypeOK, NamedInv, PassInv, [CronNext]_cronVars
    PROVE  NamedInv'
<1>g. Grows /\ CronTypeOK'
      BY EveryStepGrows, CronTypeStep
<1> DEFINE Work == /\ \A e \in Entries : mode[e.s] # "none"
                   /\ \A r \in invoked : mode[r[1]] # "none"
           Requests == /\ \A p \in Patches : IF ppc[p] = "idle" THEN ptarget[p] = Null
                          ELSE /\ ptarget[p] \in Schedules /\ pnext[p] \in AllMinutes
                               /\ ppc[p] = "write" => pcron[p] \in Crons
                       /\ \A t \in Triggers : IF tpc[t] = "idle" THEN ttarget[t] = Null
                           ELSE /\ ttarget[t] \in Schedules /\ tnext[t] \in AllMinutes
                                /\ mode[ttarget[t]] # "none"
<1>w. /\ \A e \in Entries : e.s \in Schedules /\ mode[e.s] # "none" /\ mode'[e.s] # "none"
      /\ \A r \in invoked : r[1] \in Schedules /\ mode[r[1]] # "none" /\ mode'[r[1]] # "none"
      BY <1>g, EntriesAre, NullIsNothing DEF NamedInv, CronTypeOK, Grows
<1>q. ASSUME UNCHANGED <<ppc, ptarget, pnext, tpc, ttarget, tnext>>, UNCHANGED pcron
      PROVE  Requests'
      BY <1>q, <1>g DEF NamedInv, Grows
<1>v. ASSUME Entries' \subseteq Entries, invoked' = invoked
      PROVE  Work'
      BY <1>v, <1>w
<1>k. ASSUME UNCHANGED <<due, running, invoked>>
      PROVE  Work'
      BY <1>k, <1>w DEF Entries
<1>z. ASSUME Work', Requests'
      PROVE  NamedInv'
      BY <1>z DEF NamedInv
<1>1. ASSUME NEW s \in Schedules, NEW c \in Crons, Create(s, c)
      PROVE  NamedInv'
      BY <1>1, <1>q, <1>k, <1>z DEF Create, worker, patch, trigger, firings
<1>2. ASSUME NEW s \in Schedules, SetEnabled(s)
      PROVE  NamedInv'
      BY <1>2, <1>q, <1>k, <1>z DEF SetEnabled, worker, patch, trigger, firings
<1>3. ASSUME NEW s \in Schedules, Delete(s)
      PROVE  NamedInv'
      BY <1>3, <1>q, <1>k, <1>z DEF Delete, worker, patch, trigger, firings
<1>4. ASSUME NEW p \in Patches, ReadPatch(p)
      PROVE  NamedInv'
  <2>1. ptarget'[p] \in Schedules /\ pcron'[p] \in Crons /\ pnext'[p] \in AllMinutes
    <3>1. \A c \in Crons : NextRunFor(c, now) # Null => NextRunFor(c, now) \in AllMinutes
          BY NextRunType, CronAssumption DEF CronTypeOK
    <3> QED BY <1>4, <3>1 DEF ReadPatch, CronTypeOK
  <2>2. Requests'
        BY <1>4, <2>1 DEF ReadPatch, NamedInv, CronTypeOK, table, trigger
  <2> QED BY <1>4, <2>2, <1>k, <1>z DEF ReadPatch, worker, firings
<1>5. ASSUME NEW p \in Patches, WritePatch(p)
      PROVE  NamedInv'
  <2>1. Requests'
        BY <1>5 DEF WritePatch, NamedInv, CronTypeOK, trigger
  <2> QED BY <1>5, <2>1, <1>k, <1>z DEF WritePatch, worker, firings
<1>6. ASSUME NEW t \in Triggers, ReadTrigger(t)
      PROVE  NamedInv'
  <2>1. Requests'
        BY <1>6 DEF ReadTrigger, NamedInv, CronTypeOK, table, patch, Kept
  <2> QED BY <1>6, <2>1, <1>k, <1>z DEF ReadTrigger, worker
<1>7. ASSUME NEW t \in Triggers, WriteTrigger(t)
      PROVE  NamedInv'
  <2>1. Requests'
        BY <1>7 DEF WriteTrigger, NamedInv, CronTypeOK, patch
  <2> QED BY <1>7, <2>1, <1>k, <1>z DEF WriteTrigger, worker, firings
<1>8. ASSUME List
      PROVE  NamedInv'
  <2>1. PICK S \in SUBSET Due : due' = {[s |-> s, cron |-> cron[s], next |-> nextRun[s]] : s \in S}
        BY <1>8 DEF List
  <2>2. \A e \in due' : mode[e.s] # "none"
        BY <2>1 DEF Due
  <2>3. Work'
        BY <1>8, <2>2, <1>w DEF List, Entries, table, firings
  <2> QED BY <1>8, <2>3, <1>q, <1>z DEF List, patch, trigger
<1>9. ASSUME NEW e \in due, Invoke(e)
      PROVE  NamedInv'
  <2>1. Entries' \subseteq Entries
        BY <1>9 DEF Invoke, Entries
  <2>2. \A r \in invoked' : r \in invoked \/ r = <<e.s, e.next>>
        BY <1>9 DEF Invoke, firings
  <2>3. e \in Entries
        BY EntriesAre
  <2>4. Work'
        BY <2>1, <2>2, <2>3, <1>w
  <2> QED BY <1>9, <2>4, <1>q, <1>z DEF Invoke, patch, trigger
<1>10. ASSUME MarkRun
       PROVE  NamedInv'
  <2>1. Entries' \subseteq Entries
        BY <1>10 DEF MarkRun, Entries
  <2> QED BY <1>10, <2>1, <1>v, <1>q, <1>z DEF MarkRun, patch, trigger, firings
<1>11. ASSUME WorkerRestart
       PROVE  NamedInv'
  <2>1. Entries' \subseteq Entries
        BY <1>11 DEF WorkerRestart, Entries
  <2> QED BY <1>11, <2>1, <1>v, <1>q, <1>z DEF WorkerRestart, patch, trigger, firings
<1>12. ASSUME Tick
       PROVE  NamedInv'
       BY <1>12, <1>k, <1>q, <1>z DEF Tick, worker, patch, trigger, firings
<1>13. ASSUME UNCHANGED cronVars
       PROVE  NamedInv'
       BY <1>13, <1>k, <1>q, <1>z DEF cronVars, worker, patch, trigger, firings
<1>14. ASSUME MarkFails
       PROVE  NamedInv'
  <2>1. Entries' \subseteq Entries
        BY <1>14 DEF MarkFails, Entries
  <2> QED BY <1>14, <2>1, <1>v, <1>q, <1>z DEF MarkFails, patch, trigger
<1> QED BY <1>1, <1>2, <1>3, <1>4, <1>5, <1>6, <1>7, <1>8, <1>9, <1>10, <1>11, <1>12, <1>13, <1>14
        DEF CronNext, WorkerStep

-----------------------------------------------------------------------------
(* A pass of the worker.                                                   *)

LEMMA PassStep ==
    ASSUME CronTypeOK, NamedInv, PassInv, [CronNext]_cronVars
    PROVE  PassInv'
<1>t. /\ now \in Nat /\ listTime \in Nat /\ Minute(now) \in Nat /\ Minute(listTime) \in Nat
      /\ Minute(listTime) <= Minute(now)
  <2>1. now \in Nat /\ listTime \in Nat /\ listTime <= now
        BY CronAssumption DEF CronTypeOK, PassInv
  <2> QED BY <2>1, MinuteOrder
<1>r. \A r \in invoked : r[2] \in Nat
      BY NullIsNothing DEF CronTypeOK
<1>e. \A e \in Entries : e.next \in Nat /\ e \in Entry
      BY EntriesAre, NullIsNothing
<1>k. ASSUME UNCHANGED <<now, due, listTime, running, invoked>>
      PROVE  PassInv'
      BY <1>k DEF PassInv, Entries, Following, Minute
<1>1. ASSUME NEW s \in Schedules, NEW c \in Crons, Create(s, c)
      PROVE  PassInv'
      BY <1>1, <1>k DEF Create, worker, firings
<1>2. ASSUME NEW s \in Schedules, SetEnabled(s)
      PROVE  PassInv'
      BY <1>2, <1>k DEF SetEnabled, worker, firings
<1>3. ASSUME NEW s \in Schedules, Delete(s)
      PROVE  PassInv'
      BY <1>3, <1>k DEF Delete, worker, firings
<1>4. ASSUME NEW p \in Patches, ReadPatch(p)
      PROVE  PassInv'
      BY <1>4, <1>k DEF ReadPatch, worker, firings
<1>5. ASSUME NEW p \in Patches, WritePatch(p)
      PROVE  PassInv'
      BY <1>5, <1>k DEF WritePatch, worker, firings
<1>6. ASSUME NEW t \in Triggers, ReadTrigger(t)
      PROVE  PassInv'
      BY <1>6, <1>k DEF ReadTrigger, worker
<1>7. ASSUME NEW t \in Triggers, WriteTrigger(t)
      PROVE  PassInv'
      BY <1>7, <1>k DEF WriteTrigger, worker, firings
<1>8. ASSUME List
      PROVE  PassInv'
  <2>1. PICK S \in SUBSET Due : due' = {[s |-> s, cron |-> cron[s], next |-> nextRun[s]] : s \in S}
        BY <1>8 DEF List
  <2>2. running' = Null /\ listTime' = now /\ now' = now /\ invoked' = invoked
        BY <1>8 DEF List, firings
  <2>3. \A e \in due' : e.next <= Minute(now)
        BY <2>1 DEF Due
  <2>4. \A d, e \in due' : d.s = e.s => d = e
        BY <2>1
  <2>5. Entries' = due'
        BY <2>2 DEF Entries
  <2> HIDE DEF Minute
  <2> QED BY <1>t, <2>2, <2>3, <2>4, <2>5 DEF PassInv
<1>9. ASSUME NEW e \in due, Invoke(e)
      PROVE  PassInv'
  <2>e. e \in Entries /\ e \in Entry /\ e # Null /\ running = Null
        BY <1>9, EntriesAre, NullIsNothing DEF Invoke
  <2>1. CASE Following(e) = Null
    <3>1. due' = {} /\ listTime' = 0 /\ running' = Null /\ invoked' = invoked /\ now' = now
          BY <1>9, <2>1, <2>e DEF Invoke, firings
    <3>2. Entries' = {}
          BY <3>1 DEF Entries
    <3> QED BY <1>t, <3>1, <3>2 DEF PassInv
  <2>2. CASE Following(e) # Null
    <3>1. /\ due' = due \ {e} /\ listTime' = listTime /\ running' = e /\ now' = now
          /\ invoked' = invoked \cup {<<e.s, e.next>>}
          BY <1>9, <2>2 DEF Invoke
    <3>2. Entries' \subseteq Entries
          BY <3>1, <2>e DEF Entries
    <3>3. e.next <= Minute(listTime) /\ e.next <= Minute(now)
          BY <2>e, <1>e, <1>t DEF PassInv
    <3>4. Following(e)' = Following(e)
          BY <3>1 DEF Following
    <3>5. \A f \in due \ {e} : f.s # e.s
          BY DEF PassInv
    <3>6. Minute(listTime)' = Minute(listTime) /\ Minute(now)' = Minute(now)
          BY <3>1
    <3>7. \A r \in invoked' : r[2] <= Minute(listTime) /\ r[2] <= Minute(now)
          BY <3>1, <3>3, <2>e DEF PassInv
    <3> HIDE DEF Minute
    <3>8. /\ \A f \in Entries' : f.next <= Minute(listTime)'
          /\ \A d, f \in due' : d.s = f.s => d = f
          /\ \A f \in due' : f.s # running'.s
          BY <3>1, <3>2, <3>5, <3>6 DEF PassInv
    <3>9. Following(running)' # Null /\ <<running.s, running.next>>' \in invoked'
          BY <3>1, <3>4, <2>2
    <3>10. (listTime <= now)'
          BY <3>1 DEF PassInv
    <3> QED BY <3>6, <3>7, <3>8, <3>9, <3>10 DEF PassInv
  <2> QED BY <2>1, <2>2
<1>10. ASSUME MarkRun
       PROVE  PassInv'
  <2>1. /\ running' = Null /\ due' = due /\ invoked' = invoked /\ now' = now
        /\ listTime' = IF due = {} THEN 0 ELSE listTime
        BY <1>10 DEF MarkRun, firings
  <2>2. Entries' = due /\ due \subseteq Entries
        BY <2>1 DEF Entries
  <2>3. due # {} => Minute(listTime)' = Minute(listTime)
        BY <2>1
  <2> HIDE DEF Minute
  <2>4. (listTime <= now)'
        BY <2>1, <1>t DEF PassInv
  <2> QED BY <2>1, <2>2, <2>3, <2>4 DEF PassInv
<1>11. ASSUME WorkerRestart
       PROVE  PassInv'
  <2>1. /\ running' = Null /\ due' = {} /\ invoked' = invoked /\ now' = now /\ listTime' = 0
        BY <1>11 DEF WorkerRestart, firings
  <2>2. Entries' = {}
        BY <2>1 DEF Entries
  <2> QED BY <1>t, <2>1, <2>2 DEF PassInv
<1>12. ASSUME Tick
       PROVE  PassInv'
  <2>1. /\ UNCHANGED <<due, running, invoked, listTime>> /\ now' = now + 1
        BY <1>12 DEF Tick, worker, firings
  <2>2. Minute(now) <= Minute(now') /\ Minute(now') \in Nat /\ listTime' <= now'
        BY <2>1, <1>t, MinuteOrder DEF PassInv
  <2>3. \A r \in invoked' : r[2] <= Minute(now')
        BY <2>1, <2>2, <1>t, <1>r DEF PassInv
  <2> QED BY <2>1, <2>2, <2>3 DEF PassInv, Entries, Following
<1>13. ASSUME UNCHANGED cronVars
       PROVE  PassInv'
       BY <1>13, <1>k DEF cronVars, worker, firings
<1>14. ASSUME MarkFails
       PROVE  PassInv'
  <2>1. /\ running' = Null /\ due' = {} /\ invoked' = invoked /\ now' = now /\ listTime' = 0
        BY <1>14 DEF MarkFails
  <2>2. Entries' = {}
        BY <2>1 DEF Entries
  <2> QED BY <1>t, <2>1, <2>2 DEF PassInv
<1> QED BY <1>1, <1>2, <1>3, <1>4, <1>5, <1>6, <1>7, <1>8, <1>9, <1>10, <1>11, <1>12, <1>13, <1>14
        DEF CronNext, WorkerStep

-----------------------------------------------------------------------------
(* Repeated runs.                                                          *)

LEMMA LeftStep ==
    ASSUME CronInv, LeftInv, [CronNext]_cronVars
    PROVE  LeftInv'
<1>i. CronTypeOK /\ NamedInv /\ PassInv /\ CronTypeOK' /\ Grows
      BY CronTypeStep, EveryStepGrows DEF CronInv
<1>f. restarts \in Nat /\ restarts' \in Nat /\ nextRun \in [Schedules -> AllMinutes \cup {Null}]
      BY <1>i, CronAssumption DEF CronTypeOK
<1>r. restarts' = restarts \/ restarts' = restarts + 1
      BY DEF CronNext, Create, SetEnabled, Delete, ReadPatch, WritePatch, ReadTrigger, WriteTrigger,
             WorkerStep, List, Invoke, MarkRun, MarkFails, WorkerRestart, Tick, cronVars
<1> SUFFICES ASSUME restarts = 0, restarts' = 0,
                    NEW s \in Schedules, NEW m \in AllMinutes,
                    <<s, m>> \in invoked', <<s, m>> \notin unmarked', ~Asked(s, m)'
             PROVE  /\ \A e \in due' : e.s # s \/ e.next # m
                    /\ Kept(s)' /\ nextRun'[s] = m =>
                          running' # Null /\ running'.s = s /\ running'.next = m
    BY <1>f, <1>r DEF LeftInv
<1> DEFINE Gone == /\ \A e \in due' : e.s # s \/ e.next # m
                   /\ Kept(s)' /\ nextRun'[s] = m =>
                          running' # Null /\ running'.s = s /\ running'.next = m
<1>a. ~Asked(s, m) /\ <<s, m>> \notin unmarked
      BY <1>i, RequestsStay DEF Grows
<1>b. <<s, m>> \in invoked =>
          /\ \A e \in due : e.s # s \/ e.next # m
          /\ Kept(s) /\ nextRun[s] = m => running # Null /\ running.s = s /\ running.next = m
          /\ mode[s] # "none"
      BY <1>a, <1>i DEF LeftInv, NamedInv
<1>k. ASSUME UNCHANGED <<due, running, invoked>>, Kept(s)' => Kept(s) /\ nextRun'[s] = nextRun[s]
      PROVE  Gone
      BY <1>k, <1>b
<1>1. ASSUME NEW q \in Schedules, NEW c \in Crons, Create(q, c)
      PROVE  Gone
  <2>1. invoked' = invoked /\ q # s
        BY <1>1, <1>b DEF Create, firings
  <2> QED BY <1>1, <2>1, <1>k, <1>i DEF Create, Kept, CronTypeOK, worker, firings
<1>2. ASSUME NEW q \in Schedules, SetEnabled(q)
      PROVE  Gone
      BY <1>2, <1>k, <1>i DEF SetEnabled, Kept, CronTypeOK, worker, firings
<1>3. ASSUME NEW q \in Schedules, Delete(q)
      PROVE  Gone
      BY <1>3, <1>k, <1>i DEF Delete, Kept, CronTypeOK, worker, firings
<1>4. ASSUME NEW p \in Patches, ReadPatch(p)
      PROVE  Gone
      BY <1>4, <1>k DEF ReadPatch, Kept, table, worker, firings
<1>5. ASSUME NEW p \in Patches, WritePatch(p)
      PROVE  Gone
  <2>1. ptarget[p] = s => pnext[p] # m
        BY <1>5, <1>a DEF Asked
  <2>2. ptarget[p] \in Schedules
        BY <1>5, <1>i DEF NamedInv, WritePatch
  <2>3. /\ UNCHANGED <<due, running, invoked, mode>>
        /\ nextRun' = nextRun \/ nextRun' = [nextRun EXCEPT ![ptarget[p]] = pnext[p]]
        BY <1>5 DEF WritePatch, worker, firings
  <2> QED BY <2>1, <2>2, <2>3, <1>b, <1>f DEF Kept
<1>6. ASSUME NEW t \in Triggers, ReadTrigger(t)
      PROVE  Gone
      BY <1>6, <1>k DEF ReadTrigger, Kept, table, worker
<1>7. ASSUME NEW t \in Triggers, WriteTrigger(t)
      PROVE  Gone
  <2>1. ttarget[t] = s => tnext[t] # m
        BY <1>7, <1>a DEF Asked
  <2>2. ttarget[t] \in Schedules
        BY <1>7, <1>i DEF NamedInv, WriteTrigger
  <2>3. /\ UNCHANGED <<due, running, invoked, mode>>
        /\ nextRun' = nextRun \/ nextRun' = [nextRun EXCEPT ![ttarget[t]] = tnext[t]]
        BY <1>7 DEF WriteTrigger, MarkScheduleRun, worker, firings
  <2> QED BY <2>1, <2>2, <2>3, <1>b, <1>f DEF Kept
<1>8. ASSUME List
      PROVE  Gone
  <2>1. PICK S \in SUBSET Due : due' = {[s |-> q, cron |-> cron[q], next |-> nextRun[q]] : q \in S}
        BY <1>8 DEF List
  <2>2. invoked' = invoked /\ running = Null /\ mode' = mode /\ nextRun' = nextRun
        BY <1>8 DEF List, firings, table
  <2>3. Kept(s) => nextRun[s] # m
        BY <2>2, <1>b
  <2>4. \A e \in due' : e.s = s => Kept(s) /\ e.next = nextRun[s]
        BY <2>1 DEF Due, Kept
  <2> QED BY <2>2, <2>3, <2>4 DEF Kept
<1>9. ASSUME NEW e \in due, Invoke(e)
      PROVE  Gone
  <2>1. CASE Following(e) = Null
        BY <1>9, <2>1, <1>b DEF Invoke, firings, table, Kept
  <2>2. CASE Following(e) # Null
    <3>1. /\ due' = due \ {e} /\ running' = e /\ running = Null
          /\ invoked' = invoked \cup {<<e.s, e.next>>}
          /\ mode' = mode /\ nextRun' = nextRun
          BY <1>9, <2>2 DEF Invoke, table
    <3>2. CASE <<s, m>> \in invoked
          BY <3>1, <3>2, <1>b DEF Kept
    <3>3. CASE s = e.s /\ m = e.next
      <4>1. \A d \in due \ {e} : d.s # s
            BY <3>3, <1>i DEF PassInv
      <4>2. e # Null
            BY <1>i, EntriesAre, NullIsNothing
      <4> QED BY <3>1, <3>3, <4>1, <4>2
    <3> QED BY <3>1, <3>2, <3>3
  <2> QED BY <2>1, <2>2
<1>10. ASSUME MarkRun
       PROVE  Gone
  <2>1. /\ due' = due /\ invoked' = invoked /\ mode' = mode /\ running # Null
        /\ nextRun' = IF Kept(running.s) THEN [nextRun EXCEPT ![running.s] = Following(running)]
                      ELSE nextRun
        BY <1>10 DEF MarkRun, MarkScheduleRun, firings
  <2>2. running \in Entry /\ running.s \in Schedules
        BY <2>1, <1>i, NullIsNothing DEF CronTypeOK
  <2>3. Following(running) \in Nat /\ Minute(listTime) < Following(running)
        BY <2>1, <2>2, <1>i, FollowingIsLater, NullIsNothing DEF PassInv
  <2>4. m <= Minute(listTime) /\ m \in Nat /\ Minute(listTime) \in Nat
    <3>1. Entries # {}
          BY <2>1, <1>i, EntriesAre
    <3>2. <<s, m>> \in invoked /\ <<s, m>>[2] = m
          BY <2>1
    <3>3. listTime \in Nat
          BY <1>i, CronAssumption DEF CronTypeOK
    <3> QED BY <3>1, <3>2, <3>3, <1>i, NullIsNothing, MinuteOrder DEF PassInv
  <2>5. Following(running) # m
        BY <2>3, <2>4
  <2>6. Kept(s)' /\ nextRun'[s] = m => FALSE
    <3>1. CASE s = running.s
          BY <2>1, <2>2, <2>5, <3>1, <1>f DEF Kept
    <3>2. CASE s # running.s
          BY <2>1, <2>2, <3>2, <1>b, <1>f DEF Kept
    <3> QED BY <3>1, <3>2
  <2> QED BY <2>1, <2>6, <1>b
<1>11. ASSUME WorkerRestart
       PROVE  Gone
       BY <1>11 DEF WorkerRestart
<1>12. ASSUME Tick
       PROVE  Gone
       BY <1>12, <1>k DEF Tick, Kept, table, worker, firings
<1>13. ASSUME UNCHANGED cronVars
       PROVE  Gone
       BY <1>13, <1>k DEF cronVars, Kept, table, worker, firings
<1>14. ASSUME MarkFails
       PROVE  Gone
  <2>1. /\ due' = {} /\ invoked' = invoked /\ mode' = mode /\ nextRun' = nextRun
        /\ unmarked' = unmarked \cup {<<running.s, running.next>>}
        BY <1>14 DEF MarkFails, table
  <2>2. ~(running.s = s /\ running.next = m)
        BY <2>1
  <2> QED BY <2>1, <2>2, <1>b DEF Kept
<1> QED BY <1>1, <1>2, <1>3, <1>4, <1>5, <1>6, <1>7, <1>8, <1>9, <1>10, <1>11, <1>12, <1>13, <1>14
        DEF CronNext, WorkerStep

LEMMA RepeatStep ==
    ASSUME CronInv, LeftInv, RepeatsHaveAReason, [CronNext]_cronVars
    PROVE  RepeatsHaveAReason'
<1>i. CronTypeOK /\ NamedInv /\ PassInv /\ CronTypeOK' /\ Grows
      BY CronTypeStep, EveryStepGrows DEF CronInv
<1>f. restarts \in Nat /\ restarts' \in Nat
      BY <1>i, CronAssumption DEF CronTypeOK
<1>r. restarts' = restarts \/ restarts' = restarts + 1
      BY DEF CronNext, Create, SetEnabled, Delete, ReadPatch, WritePatch, ReadTrigger, WriteTrigger,
             WorkerStep, List, Invoke, MarkRun, MarkFails, WorkerRestart, Tick, cronVars
<1>1. \A r \in repeated' : \/ r \in repeated
                           \/ \E e \in due : r = <<e.s, e.next>> /\ r \in invoked
      BY DEF CronNext, Create, SetEnabled, Delete, ReadPatch, WritePatch, ReadTrigger, WriteTrigger,
             WorkerStep, List, Invoke, MarkRun, MarkFails, WorkerRestart, Tick, cronVars, firings
<1> SUFFICES ASSUME NEW r \in repeated', restarts' = 0, r \notin unmarked'
             PROVE  Asked(r[1], r[2])'
    BY <1>f DEF RepeatsHaveAReason, Asked
<1>2. restarts = 0 /\ r \notin unmarked
      BY <1>f, <1>r, <1>i DEF Grows
<1>3. Asked(r[1], r[2]) /\ r[1] \in Schedules /\ r[2] \in AllMinutes
  <2>1. CASE r \in repeated
        BY <2>1, <1>2, <1>i DEF RepeatsHaveAReason, Asked, CronTypeOK
  <2>2. CASE \E e \in due : r = <<e.s, e.next>> /\ r \in invoked
    <3>1. PICK e \in due : r = <<e.s, e.next>> /\ r \in invoked
          BY <2>2
    <3>2. e.s \in Schedules /\ e.next \in AllMinutes
          BY <1>i, EntriesAre, NullIsNothing
    <3> QED BY <3>1, <3>2, <1>2 DEF LeftInv
  <2> QED BY <1>1, <2>1, <2>2
<1> QED BY <1>3, <1>i, RequestsStay

-----------------------------------------------------------------------------
(* Runs that are due.                                                      *)

\* What HeldInv says of one schedule.
Held(s) ==
    /\ \A t \in Triggers : tpc[t] = "write" /\ ttarget[t] = s =>
          tnext[t] <= nextRun[s] /\ (tnext[t] = nextRun[s] \/ <<s, tnext[t]>> \in invoked)
    /\ \A e \in Entries : e.s = s =>
          nextRun[s] <= e.next /\ (nextRun[s] = e.next \/ <<s, nextRun[s]>> \in invoked)
    /\ \A t, u \in Triggers : /\ tpc[t] = "write" /\ ttarget[t] = s
                              /\ tpc[u] = "write" /\ ttarget[u] = s
                              => t = u

LEMMA HeldIsHeld ==
    HeldInv <=> \A s \in Schedules : Kept(s) /\ s \notin crossed /\ ~Patched(s) => Held(s)
BY DEF HeldInv, Held

\* The entry the worker marks: the row's run was invoked, and its next is later.
LEMMA MarkedIsInvoked ==
    ASSUME CronInv, running # Null, Kept(running.s), Held(running.s)
    PROVE  /\ <<running.s, nextRun[running.s]>> \in invoked
           /\ nextRun[running.s] < Following(running)
<1>1. running \in Entries /\ running \in Entry /\ CronTypeOK /\ PassInv
      BY EntriesAre DEF CronInv
<1>2. running.s \in Schedules /\ running.next \in Nat
      BY <1>1, NullIsNothing
<1>3. nextRun[running.s] \in Nat
      BY <1>1, <1>2, NullIsNothing DEF CronTypeOK
<1>4. nextRun[running.s] <= running.next
      BY <1>1 DEF Held
<1>5. <<running.s, nextRun[running.s]>> \in invoked
      BY <1>1 DEF Held, PassInv
<1>6. running.next <= Minute(listTime)
      BY <1>1 DEF PassInv
<1>7. Following(running) \in Nat /\ Minute(listTime) < Following(running)
      BY <1>1, FollowingIsLater, NullIsNothing DEF PassInv
<1>8. Minute(listTime) \in Nat
      BY <1>1, MinuteOrder, CronAssumption DEF CronTypeOK
<1> QED BY <1>2, <1>3, <1>4, <1>5, <1>6, <1>7, <1>8

LEMMA HeldStep ==
    ASSUME CronInv, HeldInv, [CronNext]_cronVars
    PROVE  HeldInv'
<1>i. CronTypeOK /\ NamedInv /\ PassInv /\ CronTypeOK' /\ Grows
      BY CronTypeStep, EveryStepGrows DEF CronInv
<1> SUFFICES ASSUME NEW s \in Schedules, Kept(s)', s \notin crossed', ~Patched(s)'
             PROVE  Held(s)'
    BY DEF HeldInv, Held
<1>a. ~Patched(s) /\ s \notin crossed
      BY <1>i, RequestsStay DEF Grows
<1>h. Kept(s) => Held(s)
      BY <1>a DEF HeldInv, Held
<1>n. Kept(s) => nextRun[s] \in Nat
      BY <1>i, NullIsNothing DEF CronTypeOK
<1>k. ASSUME UNCHANGED <<due, running, invoked, trigger>>, Kept(s), nextRun'[s] = nextRun[s]
      PROVE  Held(s)'
      BY <1>k, <1>h DEF Held, Entries, trigger
<1>1. ASSUME NEW q \in Schedules, NEW c \in Crons, Create(q, c)
      PROVE  Held(s)'
  <2>1. CASE q # s
        BY <1>1, <2>1, <1>k, <1>i DEF Create, Kept, CronTypeOK, worker, firings
  <2>2. CASE q = s
    <3>1. UNCHANGED <<due, running, trigger>> /\ mode[s] = "none"
          BY <1>1, <2>2 DEF Create, worker
    <3>2. Entries' = Entries
          BY <3>1 DEF Entries
    <3>3. \A e \in Entries : e.s # s
          BY <3>1, <1>i DEF NamedInv
    <3>4. \A t \in Triggers : tpc[t] = "write" => ttarget[t] # s
          BY <3>1, <1>i DEF NamedInv
    <3> QED BY <3>1, <3>2, <3>3, <3>4 DEF Held, trigger
  <2> QED BY <2>1, <2>2
<1>2. ASSUME NEW q \in Schedules, SetEnabled(q)
      PROVE  Held(s)'
      BY <1>2, <1>k, <1>i DEF SetEnabled, Kept, CronTypeOK, worker, firings
<1>3. ASSUME NEW q \in Schedules, Delete(q)
      PROVE  Held(s)'
      BY <1>3, <1>k, <1>i DEF Delete, Kept, CronTypeOK, worker, firings
<1>4. ASSUME NEW p \in Patches, ReadPatch(p)
      PROVE  Held(s)'
      BY <1>4, <1>k DEF ReadPatch, Kept, table, worker, firings
<1>5. ASSUME NEW p \in Patches, WritePatch(p)
      PROVE  Held(s)'
  <2>1. ptarget[p] # s
        BY <1>a DEF Patched
  <2>2. Kept(s) /\ nextRun'[s] = nextRun[s]
        BY <1>5, <2>1, <1>i DEF WritePatch, Kept, CronTypeOK
  <2> QED BY <1>5, <2>2, <1>k DEF WritePatch, worker, firings
<1>6. ASSUME NEW t \in Triggers, ReadTrigger(t)
      PROVE  Held(s)'
  <2>1. PICK q \in Schedules :
           /\ Kept(q)
           /\ ttarget' = [ttarget EXCEPT ![t] = q]
           /\ tnext' = [tnext EXCEPT ![t] = nextRun[q]]
           /\ crossed' = crossed \cup
                 {z \in {q} : \E u \in Triggers : tpc[u] = "write" /\ ttarget[u] = q}
        BY <1>6 DEF ReadTrigger
  <2>2. /\ UNCHANGED <<due, running, invoked, mode, nextRun>>
        /\ tpc' = [tpc EXCEPT ![t] = "write"]
        BY <1>6 DEF ReadTrigger, table, worker
  <2>3. Kept(s) /\ Entries' = Entries
        BY <2>2 DEF Kept, Entries
  <2>4. q = s => \A u \in Triggers : ~(tpc[u] = "write" /\ ttarget[u] = s)
        BY <2>1
  <2>5. \A u \in Triggers \ {t} : /\ tpc'[u] = tpc[u] /\ ttarget'[u] = ttarget[u] /\ tnext'[u] = tnext[u]
        BY <2>1, <2>2, <1>i DEF CronTypeOK
  <2>6. ttarget'[t] = q /\ tnext'[t] = nextRun[q]
        BY <2>1, <1>i DEF CronTypeOK
  <2>7. \A u \in Triggers : tpc'[u] = "write" /\ ttarget'[u] = s =>
           tnext'[u] <= nextRun[s] /\ (tnext'[u] = nextRun[s] \/ <<s, tnext'[u]>> \in invoked)
        BY <2>3, <2>5, <2>6, <1>h, <1>n DEF Held
  <2>8. \A u, v \in Triggers : /\ tpc'[u] = "write" /\ ttarget'[u] = s
                               /\ tpc'[v] = "write" /\ ttarget'[v] = s
                               => u = v
        BY <2>3, <2>4, <2>5, <2>6, <1>h DEF Held
  <2> QED BY <2>2, <2>3, <2>7, <2>8, <1>h DEF Held
<1>7. ASSUME NEW t \in Triggers, WriteTrigger(t)
      PROVE  Held(s)'
  <2>1. ttarget[t] \in Schedules /\ tpc[t] = "write"
        BY <1>7, <1>i DEF NamedInv, WriteTrigger
  <2>2. /\ UNCHANGED <<due, running, invoked, mode, ttarget, tnext>>
        /\ tpc' = [tpc EXCEPT ![t] = "done"]
        /\ nextRun' = IF Kept(ttarget[t]) THEN [nextRun EXCEPT ![ttarget[t]] = tnext[t]] ELSE nextRun
        BY <1>7 DEF WriteTrigger, MarkScheduleRun, worker, firings
  <2>3. Kept(s) /\ Entries' = Entries
        BY <2>2 DEF Kept, Entries
  <2>4. CASE ttarget[t] # s
    <3>1. nextRun'[s] = nextRun[s]
          BY <2>1, <2>2, <2>4, <1>i DEF CronTypeOK
    <3>2. \A u \in Triggers : tpc'[u] = "write" => tpc[u] = "write"
          BY <2>2, <1>i DEF CronTypeOK
    <3> QED BY <2>2, <2>3, <3>1, <3>2, <1>h DEF Held
  <2>5. CASE ttarget[t] = s
    <3>1. nextRun'[s] = tnext[t]
          BY <2>1, <2>2, <2>3, <2>5, <1>i DEF CronTypeOK
    <3>2. tnext[t] <= nextRun[s] /\ (tnext[t] = nextRun[s] \/ <<s, tnext[t]>> \in invoked)
          BY <2>1, <2>3, <2>5, <1>h DEF Held
    <3>3. \A u \in Triggers : ~(tpc'[u] = "write" /\ ttarget'[u] = s)
          BY <2>1, <2>2, <2>3, <2>5, <1>h, <1>i DEF Held, CronTypeOK
    <3>4. tnext[t] \in Nat
          BY <2>1, <1>i, NullIsNothing DEF NamedInv
    <3>5. \A e \in Entries : e.next \in Nat
          BY <1>i, EntriesAre, NullIsNothing
    <3>6. \A e \in Entries : e.s = s =>
             tnext[t] <= e.next /\ (tnext[t] = e.next \/ <<s, tnext[t]>> \in invoked)
          BY <3>2, <3>4, <3>5, <2>3, <1>h, <1>n DEF Held
    <3> QED BY <2>2, <2>3, <3>1, <3>3, <3>6 DEF Held
  <2> QED BY <2>4, <2>5
<1>8. ASSUME List
      PROVE  Held(s)'
  <2>1. PICK S \in SUBSET Due : due' = {[s |-> q, cron |-> cron[q], next |-> nextRun[q]] : q \in S}
        BY <1>8 DEF List
  <2>2. invoked' = invoked /\ running' = Null /\ mode' = mode /\ nextRun' = nextRun
        BY <1>8 DEF List, firings, table
  <2>3. UNCHANGED <<tpc, ttarget, tnext>>
        BY <1>8 DEF List, trigger
  <2>4. Kept(s) /\ Entries' = due'
        BY <2>2 DEF Kept, Entries
  <2>5. \A e \in due' : e.s = s => e.next = nextRun[s]
        BY <2>1
  <2> QED BY <2>2, <2>3, <2>4, <2>5, <1>h, <1>n DEF Held
<1>9. ASSUME NEW e \in due, Invoke(e)
      PROVE  Held(s)'
  <2>1. Entries' \subseteq Entries
        BY <1>9 DEF Invoke, Entries
  <2>2. invoked \subseteq invoked'
        BY <1>i DEF Grows
  <2>3. UNCHANGED <<mode, nextRun, tpc, ttarget, tnext>>
        BY <1>9 DEF Invoke, table, trigger
  <2>4. Kept(s)
        BY <2>3 DEF Kept
  <2> QED BY <2>1, <2>2, <2>3, <2>4, <1>h DEF Held
<1>10. ASSUME MarkRun
       PROVE  Held(s)'
  <2>1. /\ running' = Null /\ due' = due /\ running # Null
        /\ UNCHANGED <<mode, invoked, tpc, ttarget, tnext>>
        /\ nextRun' = IF Kept(running.s) THEN [nextRun EXCEPT ![running.s] = Following(running)]
                      ELSE nextRun
        BY <1>10 DEF MarkRun, MarkScheduleRun, firings, trigger
  <2>2. Kept(s) /\ Entries' = due /\ due \subseteq Entries
        BY <2>1 DEF Kept, Entries
  <2>3. running \in Entry /\ running.s \in Schedules
        BY <2>1, <1>i, NullIsNothing DEF CronTypeOK
  <2>4. CASE running.s # s
    <3>1. nextRun'[s] = nextRun[s]
          BY <2>1, <2>3, <2>4, <1>i DEF CronTypeOK
    <3> QED BY <2>1, <2>2, <3>1, <1>h DEF Held
  <2>5. CASE running.s = s
    <3>1. nextRun'[s] = Following(running)
          BY <2>1, <2>2, <2>3, <2>5, <1>i DEF CronTypeOK
    <3>2. <<s, nextRun[s]>> \in invoked /\ nextRun[s] < Following(running)
          BY <2>1, <2>2, <2>5, <1>h, MarkedIsInvoked
    <3>3. Following(running) \in Nat
          BY <2>1, <2>3, <1>i, FollowingIsLater, NullIsNothing DEF PassInv
    <3>4. \A e \in due : e.s # s
          BY <2>1, <2>5, <1>i DEF PassInv
    <3>5. \A t \in Triggers : tpc[t] = "write" /\ ttarget[t] = s =>
             tnext[t] <= Following(running) /\ <<s, tnext[t]>> \in invoked
      <4>1. \A t \in Triggers : tpc[t] = "write" => tnext[t] \in Nat
            BY <1>i, NullIsNothing DEF NamedInv
      <4> QED BY <4>1, <3>2, <3>3, <2>2, <1>h, <1>n DEF Held
    <3> QED BY <2>1, <2>2, <3>1, <3>4, <3>5, <1>h DEF Held
  <2> QED BY <2>4, <2>5
<1>11. ASSUME WorkerRestart
       PROVE  Held(s)'
  <2>1. Entries' = {} /\ UNCHANGED <<mode, nextRun, invoked, tpc, ttarget, tnext>>
        BY <1>11 DEF WorkerRestart, Entries, table, trigger, firings
  <2>2. Kept(s)
        BY <2>1 DEF Kept
  <2> QED BY <2>1, <2>2, <1>h DEF Held
<1>12. ASSUME Tick
       PROVE  Held(s)'
       BY <1>12, <1>k DEF Tick, Kept, table, worker, firings
<1>13. ASSUME UNCHANGED cronVars
       PROVE  Held(s)'
       BY <1>13, <1>k DEF cronVars, Kept, table, worker, firings
<1>14. ASSUME MarkFails
       PROVE  Held(s)'
  <2>1. Entries' = {} /\ UNCHANGED <<mode, nextRun, invoked, tpc, ttarget, tnext>>
        BY <1>14 DEF MarkFails, Entries, table, trigger
  <2>2. Kept(s)
        BY <2>1 DEF Kept
  <2> QED BY <2>1, <2>2, <1>h DEF Held
<1> QED BY <1>1, <1>2, <1>3, <1>4, <1>5, <1>6, <1>7, <1>8, <1>9, <1>10, <1>11, <1>12, <1>13, <1>14
        DEF CronNext, WorkerStep

\* A step passes over a run only when the worker marks it, which it invoked.
LEMMA PassedOverIsInvoked ==
    ASSUME CronInv, HeldInv, [CronNext]_cronVars, NEW s \in Schedules,
           Kept(s), Kept(s)', nextRun'[s] > nextRun[s], s \notin crossed, ~Patched(s)
    PROVE  <<s, nextRun[s]>> \in invoked
<1>i. CronTypeOK /\ NamedInv /\ PassInv
      BY DEF CronInv
<1>h. Held(s) /\ nextRun[s] \in Nat
      BY <1>i, NullIsNothing DEF HeldInv, Held, CronTypeOK
<1>1. nextRun'[s] # nextRun[s]
      BY <1>h
<1>2. ASSUME NEW t \in Triggers, WriteTrigger(t)
      PROVE  FALSE
  <2>1. ttarget[t] \in Schedules /\ tpc[t] = "write" /\ tnext[t] \in Nat
        BY <1>2, <1>i, NullIsNothing DEF NamedInv, WriteTrigger
  <2>2. nextRun'[s] = tnext[t] /\ ttarget[t] = s
        BY <1>2, <2>1, <1>1, <1>i DEF WriteTrigger, MarkScheduleRun, CronTypeOK
  <2>3. tnext[t] <= nextRun[s]
        BY <2>1, <2>2, <1>h DEF Held
  <2>4. tnext[t] > nextRun[s]
        BY <2>2
  <2> QED BY <2>1, <2>3, <2>4, <1>h
<1>3. ASSUME NEW p \in Patches, WritePatch(p)
      PROVE  FALSE
  <2>1. ptarget[p] # s
        BY DEF Patched
  <2> QED BY <1>3, <2>1, <1>1, <1>i DEF WritePatch, CronTypeOK
<1>4. ASSUME NEW q \in Schedules, NEW c \in Crons, Create(q, c)
      PROVE  FALSE
      BY <1>4, <1>1, <1>i DEF Create, CronTypeOK, Kept
<1>5. ASSUME NEW q \in Schedules, Delete(q)
      PROVE  FALSE
      BY <1>5, <1>1, <1>i DEF Delete, CronTypeOK, Kept
<1>6. ASSUME MarkRun
      PROVE  <<s, nextRun[s]>> \in invoked
  <2>1. /\ running # Null
        /\ nextRun' = IF Kept(running.s) THEN [nextRun EXCEPT ![running.s] = Following(running)]
                      ELSE nextRun
        BY <1>6 DEF MarkRun, MarkScheduleRun
  <2>2. running.s = s
        BY <2>1, <1>1, <1>i DEF CronTypeOK
  <2> QED BY <2>1, <2>2, <1>h, MarkedIsInvoked
<1> QED BY <1>1, <1>2, <1>3, <1>4, <1>5, <1>6
        DEF CronNext, WorkerStep, SetEnabled, ReadPatch, ReadTrigger, List, Invoke, MarkFails, WorkerRestart, Tick,
            cronVars, table

-----------------------------------------------------------------------------
(* The theorems.                                                           *)

LEMMA CronInvHolds == CronSpec => []CronInv
<1>1. CronInit => CronInv
      BY CronTypeInit DEF CronInv, CronInit, NamedInv, PassInv, Entries
<1>2. CronInv /\ [CronNext]_cronVars => CronInv'
      BY CronTypeStep, NamedStep, PassStep DEF CronInv
<1> QED BY <1>1, <1>2, PTL DEF CronSpec

\* The rows, the worker's pass, the requests and the history keep their types;
\* a row that is kept always has an expression and a next run, whichever requests
\* and marks overtake one another.
THEOREM CronTypeCorrect == CronSpec => []CronTypeOK
BY CronInvHolds, PTL DEF CronInv

\* A run is invoked twice only after a restart of the worker, when recording it
\* failed twice, or when a trigger or PATCH writes it back.
THEOREM RepeatedRunsHaveAReason == CronSpec => []RepeatsHaveAReason
<1>1. CronInit => LeftInv /\ RepeatsHaveAReason
      BY DEF CronInit, LeftInv, RepeatsHaveAReason
<1>2. CronInv /\ LeftInv /\ RepeatsHaveAReason /\ [CronNext]_cronVars => LeftInv' /\ RepeatsHaveAReason'
      BY LeftStep, RepeatStep
<1> QED BY <1>1, <1>2, CronInvHolds, PTL DEF CronSpec

\* A stored run that has come due is passed over only once it was invoked,
\* unless the expression was changed or two triggers of the schedule crossed.
THEOREM DueRunsAreInvokedFirst == CronSpec => DueRunsAreInvoked
<1>1. CronInit => HeldInv
      BY DEF CronInit, HeldInv, Kept
<1>2. CronInv /\ HeldInv /\ [CronNext]_cronVars => HeldInv'
      BY HeldStep
<1> DEFINE Step ==
      \A s \in Schedules :
          /\ Kept(s) /\ Kept(s)' /\ nextRun[s] <= Minute(now) /\ nextRun'[s] > nextRun[s]
          => \/ <<s, nextRun[s]>> \in invoked \/ s \in crossed
             \/ \E p \in Patches : ptarget[p] = s
<1>3. CronInv /\ HeldInv /\ [CronNext]_cronVars => [Step]_cronVars
      BY PassedOverIsInvoked DEF Patched
<1>4. CronSpec => [][Step]_cronVars
      BY <1>1, <1>2, <1>3, CronInvHolds, PTL DEF CronSpec
<1> QED BY <1>4 DEF DueRunsAreInvoked
=============================================================================
