-------------------------- MODULE MessagingProofs --------------------------
(***************************************************************************)
(* TLAPS proofs about WebhookDeliveries, for any number of events, webhooks, *)
(* attempts, crashes and restarts, and RealtimeGateway, for any number of  *)
(* connections, channels, tries and changes.                            *)
(***************************************************************************)
EXTENDS WebhookDeliveries, RealtimeGateway, FiniteSetTheorems, TLAPS

-----------------------------------------------------------------------------
(* WebhookDeliveries.                                                      *)

\* An inline attempt belongs to its emit's loop; the worker attempts what is
\* no longer on its list; nobody begins an attempt after the last one.
ActorInv ==
    /\ \A e \in Emits :
          /\ seen[e] = 0
          /\ stage[e] # "idle" =>
                /\ stage[e] # "drop" /\ emit[e] = "inline"
                /\ cur[e] \in Deliveries /\ cur[e][1] = e /\ cur[e][2] \notin todo[e]
    /\ stage[Worker] # "idle" => cur[Worker] \in Deliveries \ due /\ status[cur[Worker]] # "none"
    /\ seen[Worker] < Limit
    /\ \A d \in Deliveries :
          /\ listed[d] < Limit
          /\ d \in due => status[d] # "none"
          /\ status[d] = "none" => attempts[d] = 0
          /\ next[d] \in {"due", "later"} => attempts[d] < Limit

\* What is recorded, listed or read of a delivery's attempts was requested.
EarnedInv ==
    /\ OutcomesAreEarned
    /\ \A d \in Deliveries : attempts[d] <= tries[d] /\ listed[d] <= tries[d]
    /\ \A a \in Actors :
          /\ stage[a] # "idle" => seen[a] <= tries[cur[a]]
          /\ stage[a] = "record" =>
                seen[a] < tries[cur[a]] /\ (outcome[a] => cur[a] \in received)

\* d's inline attempt: it may still make its request, or has yet to record it.
Coming(d) ==
    \/ emit[d[1]] = "idle"
    \/ emit[d[1]] \in {"fan", "inline"} /\ d[2] \in todo[d[1]]
    \/ stage[d[1]] \in {"mark", "send"} /\ cur[d[1]] = d
Unrecorded(a, d) == stage[a] = "record" /\ cur[a] = d

\* The tries that an attempts list may lack: one for each restart, and what
\* the inline attempt wrote over with the list it began with.
Overwritten(d) == IF Coming(d) THEN 0 ELSE IF Unrecorded(d[1], d) THEN 1 ELSE Limit
Lost(d) == restarts + Overwritten(d)
Late(d) == IF Unrecorded(Worker, d) THEN 1 ELSE 0

CountInv ==
    \A d \in Deliveries :
        /\ tries[d] <= Limit + Lost(d)
        /\ status[d] # "gone" => tries[d] <= attempts[d] + Lost(d) + Late(d)
        /\ d \in due => tries[d] <= listed[d] + Lost(d)
        /\ stage[Worker] # "idle" /\ cur[Worker] = d =>
              tries[d] <= seen[Worker] + Lost(d) + Late(d)

Inv == TypeOK /\ ActorInv /\ EarnedInv /\ CountInv

-----------------------------------------------------------------------------
\* The number of attempts after which a delivery fails.
LEMMA LimitNumber == Limit \in Nat \ {0}
BY ConstantsAssumption DEF Limit

LEMMA ExhaustedAtTheLimit == ASSUME NEW n \in Nat PROVE Exhausted(n) <=> n >= Limit
BY ConstantsAssumption DEF Exhausted, Limit

LEMMA InitInv == Init => Inv
<1> USE ConstantsAssumption, LimitNumber
<1> SUFFICES ASSUME Init PROVE Inv
  OBVIOUS
<1>1. TypeOK
  BY DEF Init, TypeOK, MaxTries
<1>2. ActorInv
  BY DEF Init, ActorInv, Actors
<1>3. EarnedInv
  BY DEF Init, EarnedInv, OutcomesAreEarned
<1>4. \A d \in Deliveries : Coming(d)
  BY DEF Init, Coming, Deliveries
<1>5. CountInv
  BY <1>4 DEF Init, CountInv, Lost, Overwritten, Late, Unrecorded, Actors
<1> QED
  BY <1>1, <1>2, <1>3, <1>5 DEF Inv

\* Lost and Late are small numbers.
LEMMA LostType ==
    ASSUME TypeOK, NEW d \in Deliveries
    PROVE  Lost(d) \in Nat /\ Late(d) \in {0, 1} /\ Lost(d) <= restarts + Limit
BY ConstantsAssumption, LimitNumber DEF TypeOK, Lost, Overwritten, Late

\* Nothing finds a lost request again: an inline attempt only moves on.
LEMMA LostGrows ==
    ASSUME TypeOK, TypeOK', NEW d \in Deliveries, restarts <= restarts',
           Coming(d)' => Coming(d),
           Unrecorded(d[1], d)' => Coming(d) \/ Unrecorded(d[1], d)
    PROVE  Lost(d) <= Lost(d)'
<1>1. restarts \in Nat /\ restarts' \in Nat /\ Limit \in Nat \ {0}
  BY ConstantsAssumption, LimitNumber DEF TypeOK
<1>2. /\ Overwritten(d) \in Nat /\ Overwritten(d)' \in Nat
      /\ Overwritten(d) <= Overwritten(d)'
  BY <1>1 DEF Overwritten
<1> QED
  BY <1>1, <1>2 DEF Lost

\* Steps that make no request, record none and read no list.
LEMMA CountKeeps ==
    ASSUME TypeOK, TypeOK', CountInv, UNCHANGED tries,
           \A d \in Deliveries : Lost(d) <= Lost(d)' /\ Late(d)' = Late(d),
           \A d \in Deliveries : status'[d] # "gone" => status[d] # "gone" /\ attempts'[d] = attempts[d],
           \A d \in due' : d \in due /\ listed'[d] = listed[d],
           stage'[Worker] # "idle" =>
               stage[Worker] # "idle" /\ cur'[Worker] = cur[Worker] /\ seen'[Worker] = seen[Worker]
    PROVE  CountInv'
<1> SUFFICES ASSUME NEW d \in Deliveries
             PROVE  (/\ tries[d] <= Limit + Lost(d)
                     /\ status[d] # "gone" => tries[d] <= attempts[d] + Lost(d) + Late(d)
                     /\ d \in due => tries[d] <= listed[d] + Lost(d)
                     /\ stage[Worker] # "idle" /\ cur[Worker] = d =>
                           tries[d] <= seen[Worker] + Lost(d) + Late(d))'
  BY DEF CountInv
<1>1. /\ Lost(d) \in Nat /\ Late(d) \in Nat /\ Lost(d) <= Lost(d)' /\ Late(d)' = Late(d)
  BY LostType
<1>3. Lost(d)' \in Nat
  <2>1. Overwritten(d)' \in Nat /\ restarts' \in Nat
    BY ConstantsAssumption, LimitNumber DEF TypeOK, Overwritten
  <2> QED
    BY <2>1 DEF Lost
<1>2. /\ tries[d] \in Nat /\ attempts[d] \in Nat /\ listed[d] \in Nat /\ seen[Worker] \in Nat
      /\ Limit \in Nat
  BY ConstantsAssumption, LimitNumber DEF TypeOK, Actors, MaxTries
<1> QED
  BY <1>1, <1>2, <1>3 DEF CountInv

-----------------------------------------------------------------------------
(* Fan-out and the inline loop. *)

LEMMA SendStepInv ==
    ASSUME Inv, NEW e \in Emits, (e \in Events /\ Emit(e)) \/ Test(e) PROVE Inv'
<1> USE ConstantsAssumption, LimitNumber DEF Inv, hooks, rows, try, list, ghost, faults
<1>0. /\ emit[e] = "idle" /\ emit'[e] # "idle"
      /\ \E S \in SUBSET Hooks : todo' = [todo EXCEPT ![e] = S]
      /\ \E l \in {"fan", "done"} : emit' = [emit EXCEPT ![e] = l]
      /\ UNCHANGED <<hooks, rows, try, list, ghost, faults>>
  BY DEF Emit, Test, MaySend, TypeOK
<1>1. TypeOK'
  BY <1>0 DEF TypeOK
<1>2. ActorInv'
  BY <1>0 DEF TypeOK, ActorInv
<1>3. EarnedInv'
  BY <1>0 DEF EarnedInv, OutcomesAreEarned
<1>4. ASSUME NEW d \in Deliveries PROVE Lost(d) <= Lost(d)' /\ Late(d)' = Late(d)
  <2>1. d[1] \in Emits
    BY DEF Deliveries
  <2>2. Coming(d)' => Coming(d)
    BY <1>0, <2>1 DEF Coming, TypeOK
  <2>3. Unrecorded(d[1], d)' => Unrecorded(d[1], d)
    BY <1>0 DEF Unrecorded
  <2>4. restarts <= restarts'
    BY <1>0 DEF TypeOK
  <2> QED
    BY <1>0, <1>1, <2>2, <2>3, <2>4, LostGrows DEF Late, Unrecorded
<1>5. CountInv'
  BY <1>0, <1>1, <1>4, CountKeeps
<1> QED
  BY <1>1, <1>2, <1>3, <1>5

LEMMA CreateInv ==
    ASSUME Inv, NEW e \in Emits, NEW h \in Hooks, CreateDelivery(e, h) PROVE Inv'
<1> USE ConstantsAssumption, LimitNumber DEF Inv, hooks, rows, try, list, ghost, faults
<1> DEFINE d0 == <<e, h>>
<1>0. /\ d0 \in Deliveries /\ emit[e] = "fan" /\ status[d0] = "none"
      /\ \/ UNCHANGED <<status, next>>
         \/ status' = [status EXCEPT ![d0] = "pending"] /\ next' = [next EXCEPT ![d0] = "due"]
      /\ emit' = emit \/ \E l \in {"inline", "done"} : emit' = [emit EXCEPT ![e] = l]
      /\ UNCHANGED <<hooks, attempts, todo, try, list, ghost, faults>>
  BY DEF CreateDelivery, Deliveries
<1> HIDE DEF d0
<1>1. TypeOK'
  BY <1>0 DEF TypeOK
<1>2. ActorInv'
  BY <1>0 DEF TypeOK, ActorInv
<1>3. EarnedInv'
  BY <1>0 DEF TypeOK, EarnedInv, OutcomesAreEarned
<1>4. ASSUME NEW d \in Deliveries PROVE Lost(d) <= Lost(d)' /\ Late(d)' = Late(d)
  <2>1. d[1] \in Emits
    BY DEF Deliveries
  <2>2. Coming(d)' => Coming(d)
    BY <1>0, <2>1 DEF Coming, TypeOK
  <2>3. Unrecorded(d[1], d)' => Unrecorded(d[1], d)
    BY <1>0 DEF Unrecorded
  <2>4. restarts <= restarts'
    BY <1>0 DEF TypeOK
  <2> QED
    BY <1>0, <1>1, <2>2, <2>3, <2>4, LostGrows DEF Late, Unrecorded
<1>5. CountInv'
  BY <1>0, <1>1, <1>4, CountKeeps DEF TypeOK
<1> QED
  BY <1>1, <1>2, <1>3, <1>5

LEMMA InlineInv ==
    ASSUME Inv, NEW e \in Emits, (\E h \in Hooks : BeginInline(e, h)) \/ EndInline(e) PROVE Inv'
<1> USE ConstantsAssumption, LimitNumber DEF Inv, hooks, rows, try, list, ghost, faults
<1>1. CASE EndInline(e)
  <2>1. TypeOK'
    BY <1>1 DEF EndInline, TypeOK
  <2>2. ActorInv'
    BY <1>1 DEF EndInline, TypeOK, ActorInv
  <2>3. EarnedInv'
    BY <1>1 DEF EndInline, EarnedInv, OutcomesAreEarned
  <2>4. ASSUME NEW d \in Deliveries PROVE Lost(d) <= Lost(d)' /\ Late(d)' = Late(d)
    <3>1. d[1] \in Emits
      BY DEF Deliveries
    <3>2. Coming(d)' => Coming(d)
      BY <1>1, <3>1 DEF EndInline, Coming, TypeOK
    <3> QED
      BY <1>1, <2>1, <3>2, LostGrows DEF EndInline, Late, Unrecorded, TypeOK
  <2> QED
    BY <1>1, <2>1, <2>2, <2>3, <2>4, CountKeeps DEF EndInline
<1>2. ASSUME NEW h \in Hooks, BeginInline(e, h) PROVE Inv'
  <2>0. /\ emit[e] = "inline" /\ h \in todo[e] /\ stage[e] = "idle" /\ e # Worker
        /\ todo' = [todo EXCEPT ![e] = @ \ {h}]
        /\ \/ UNCHANGED <<cur, stage>>
           \/ cur' = [cur EXCEPT ![e] = <<e, h>>] /\ stage' = [stage EXCEPT ![e] = "mark"]
        /\ UNCHANGED <<hooks, rows, emit, seen, outcome, list, ghost, faults>>
        /\ <<e, h>> \in Deliveries
    BY <1>2 DEF BeginInline, Deliveries, Emits
  <2>1. TypeOK'
    BY <2>0 DEF TypeOK, Actors
  <2>2. ActorInv'
    BY <2>0 DEF TypeOK, ActorInv, Actors
  <2>3. EarnedInv'
    <3>1. seen[e] = 0 /\ tries[<<e, h>>] \in Nat
      BY <2>0 DEF ActorInv, TypeOK, MaxTries
    <3> QED
      BY <2>0, <3>1 DEF TypeOK, EarnedInv, OutcomesAreEarned, Actors
  <2>4. ASSUME NEW d \in Deliveries PROVE Lost(d) <= Lost(d)' /\ Late(d)' = Late(d)
    <3>1. d[1] \in Emits /\ d[2] \in Hooks /\ d = <<d[1], d[2]>>
      BY DEF Deliveries
    <3>2. Coming(d)' => Coming(d)
      BY <2>0, <3>1 DEF Coming, TypeOK, Actors
    <3>3. Unrecorded(d[1], d)' => Unrecorded(d[1], d)
      BY <2>0, <3>1 DEF Unrecorded, TypeOK, Actors
    <3>4. Late(d)' = Late(d)
      BY <2>0 DEF Late, Unrecorded, TypeOK, Actors
    <3>5. restarts <= restarts'
      BY <2>0 DEF TypeOK
    <3> QED
      BY <2>1, <3>2, <3>3, <3>4, <3>5, LostGrows
  <2>5. UNCHANGED <<stage[Worker], cur[Worker]>>
    BY <2>0 DEF TypeOK, Actors
  <2> QED
    BY <2>0, <2>1, <2>2, <2>3, <2>4, <2>5, CountKeeps
<1> QED
  BY <1>1, <1>2

-----------------------------------------------------------------------------
(* Time, managers, and what ends an attempt without a request. *)

\* Forgetting an attempt keeps the types.
LEMMA ForgetType ==
    ASSUME TypeOK, NEW A, Forget(A)
    PROVE  /\ stage' \in [Actors -> {"idle", "drop", "mark", "send", "record"}]
           /\ cur' \in [Actors -> Deliveries \cup {None}]
           /\ seen' \in [Actors -> 0 .. Limit]
           /\ outcome' \in [Actors -> BOOLEAN]
<1>1. /\ stage' \in [Actors -> {"idle", "drop", "mark", "send", "record"}]
      /\ cur' \in [Actors -> Deliveries \cup {None}]
  BY DEF TypeOK, Forget
<1>2. seen' \in [Actors -> 0 .. Limit]
  BY ConstantsAssumption, LimitNumber DEF TypeOK, Forget
<1>3. outcome' \in [Actors -> BOOLEAN]
  BY Zenon DEF TypeOK, Forget
<1> QED
  BY <1>1, <1>2, <1>3

LEMMA MarkInv ==
    ASSUME Inv, NEW a \in Actors, MarkSending(a) PROVE Inv'
<1> USE ConstantsAssumption, LimitNumber DEF Inv, hooks, rows, fan, try, list, ghost, faults
<1>0. /\ stage[a] = "mark" /\ stage' = [stage EXCEPT ![a] = "send"]
      /\ cur[a] \in Deliveries
      /\ \/ UNCHANGED status
         \/ Stored(cur[a]) /\ status' = [status EXCEPT ![cur[a]] = "sending"]
      /\ UNCHANGED <<hooks, attempts, next, fan, cur, seen, outcome, list, ghost, faults>>
  BY DEF MarkSending, ActorInv, Actors
<1>1. TypeOK'
  BY <1>0 DEF TypeOK
<1>2. ActorInv'
  BY <1>0 DEF TypeOK, ActorInv, Actors, Stored
<1>3. EarnedInv'
  BY <1>0 DEF TypeOK, EarnedInv, OutcomesAreEarned
<1>4. ASSUME NEW d \in Deliveries PROVE Lost(d) <= Lost(d)' /\ Late(d)' = Late(d)
  <2>1. d[1] \in Actors /\ Worker \in Actors
    BY DEF Deliveries, Actors
  <2>2. Coming(d)' => Coming(d)
    BY <1>0, <2>1 DEF Coming, TypeOK
  <2>3. Unrecorded(d[1], d)' => Unrecorded(d[1], d)
    BY <1>0, <2>1 DEF Unrecorded, TypeOK
  <2>4. Late(d)' = Late(d)
    BY <1>0, <2>1 DEF Late, Unrecorded, TypeOK
  <2>5. restarts <= restarts'
    BY <1>0 DEF TypeOK
  <2> QED
    BY <1>1, <2>2, <2>3, <2>4, <2>5, LostGrows
<1>5. stage'[Worker] # "idle" => stage[Worker] # "idle"
  BY <1>0 DEF TypeOK, Actors
<1>6. CountInv'
  BY <1>0, <1>1, <1>4, <1>5, CountKeeps DEF TypeOK, Stored
<1> QED
  BY <1>1, <1>2, <1>3, <1>6

LEMMA BackoffInv ==
    ASSUME Inv, NEW d0 \in Deliveries, BackoffPasses(d0) PROVE Inv'
<1> USE ConstantsAssumption, LimitNumber DEF Inv, BackoffPasses, hooks, fan, try, list, ghost, faults
<1>1. TypeOK'
  BY DEF TypeOK
<1>2. ActorInv'
  BY DEF TypeOK, ActorInv
<1>3. EarnedInv'
  BY DEF EarnedInv, OutcomesAreEarned
<1>4. ASSUME NEW d \in Deliveries PROVE Lost(d) <= Lost(d)' /\ Late(d)' = Late(d)
  BY <1>1, LostGrows DEF Coming, Late, Unrecorded, TypeOK
<1>5. CountInv'
  BY <1>1, <1>4, CountKeeps
<1> QED
  BY <1>1, <1>2, <1>3, <1>5

LEMMA GiveUpInv ==
    ASSUME Inv, GiveUp PROVE Inv'
<1> USE ConstantsAssumption, LimitNumber DEF Inv, hooks, rows, fan, list, ghost, faults
<1> DEFINE d0 == cur[Worker]
<1>0. /\ stage[Worker] = "drop" /\ d0 \in Deliveries
      /\ Forget({Worker})
      /\ \/ UNCHANGED <<status, next, dropped>>
         \/ /\ Stored(d0)
            /\ status' = [status EXCEPT ![d0] = "failed"]
            /\ next' = [next EXCEPT ![d0] = "null"]
            /\ dropped' = dropped \cup {d0}
      /\ UNCHANGED <<hooks, attempts, fan, list, tries, received, faults>>
  BY DEF GiveUp, ActorInv
<1> HIDE DEF d0
<1>1. TypeOK'
  BY <1>0, ForgetType DEF TypeOK
<1>2. ActorInv'
  BY <1>0 DEF TypeOK, ActorInv, Forget, Actors, Stored
<1>3. EarnedInv'
  BY <1>0 DEF TypeOK, EarnedInv, OutcomesAreEarned, Forget, Actors
<1>4. ASSUME NEW d \in Deliveries PROVE Lost(d) <= Lost(d)' /\ Late(d)' = Late(d)
  <2>1. d[1] \in Emits /\ d[1] \in Actors /\ Worker \in Actors /\ d[1] # Worker
    BY DEF Deliveries, Actors
  <2>2. Coming(d)' => Coming(d)
    BY <1>0, <2>1 DEF Coming, TypeOK, Forget
  <2>3. Unrecorded(d[1], d)' => Unrecorded(d[1], d)
    BY <1>0, <2>1 DEF Unrecorded, TypeOK, Forget
  <2>4. Late(d)' = Late(d)
    BY <1>0, <2>1 DEF Late, Unrecorded, TypeOK, Forget
  <2>5. restarts <= restarts'
    BY <1>0 DEF TypeOK
  <2> QED
    BY <1>1, <2>2, <2>3, <2>4, <2>5, LostGrows
<1>5. stage'[Worker] = "idle"
  BY <1>0 DEF Forget, Actors
<1>6. CountInv'
  BY <1>0, <1>1, <1>4, <1>5, CountKeeps DEF TypeOK, Stored
<1> QED
  BY <1>1, <1>2, <1>3, <1>6

LEMMA ManagerInv ==
    ASSUME Inv, NEW h \in Hooks, ManagerStep(h) PROVE Inv'
<1> USE ConstantsAssumption, LimitNumber DEF Inv, hooks, rows, fan, try, list, ghost, faults
<1>0. /\ hook' \in [Hooks -> {"enabled", "disabled", "deleted"}] /\ deleting' \subseteq Hooks
      /\ UNCHANGED rows \/ RemoveDeliveries(h)
      /\ UNCHANGED <<fan, try, list, ghost, faults>>
  BY DEF ManagerStep, SetEnabled, DeleteDeliveries, DeleteHook, TypeOK
<1>1. TypeOK'
  BY <1>0 DEF TypeOK, RemoveDeliveries
<1>2. ActorInv'
  BY <1>0 DEF TypeOK, ActorInv, RemoveDeliveries, Stored
<1>3. EarnedInv'
  BY <1>0 DEF TypeOK, EarnedInv, OutcomesAreEarned, RemoveDeliveries, MaxTries
<1>4. ASSUME NEW d \in Deliveries PROVE Lost(d) <= Lost(d)' /\ Late(d)' = Late(d)
  BY <1>0, <1>1, LostGrows DEF Coming, Late, Unrecorded, TypeOK
<1>5. CountInv'
  BY <1>0, <1>1, <1>4, CountKeeps DEF RemoveDeliveries
<1> QED
  BY <1>1, <1>2, <1>3, <1>5

LEMMA CrashInv ==
    ASSUME Inv, Crash PROVE Inv'
<1> USE ConstantsAssumption, LimitNumber DEF Inv, Crash, hooks, rows, list, ghost
<1>1. TypeOK'
  BY ForgetType DEF TypeOK
<1>2. ActorInv'
  BY DEF TypeOK, ActorInv, Forget, Actors
<1>3. EarnedInv'
  BY DEF TypeOK, EarnedInv, OutcomesAreEarned, Forget
<1>0. UNCHANGED <<stage[Worker], cur[Worker], seen[Worker]>>
  BY DEF Forget, Actors
<1>4. ASSUME NEW d \in Deliveries PROVE Lost(d) <= Lost(d)' /\ Late(d)' = Late(d)
  <2>1. d[1] \in Emits /\ d[1] \in Actors
    BY DEF Deliveries, Actors
  <2>2. Coming(d)' => Coming(d)
    BY <2>1 DEF Coming, Forget
  <2>3. Unrecorded(d[1], d)' => Unrecorded(d[1], d)
    BY <2>1 DEF Unrecorded, Forget
  <2>4. restarts <= restarts'
    BY DEF TypeOK
  <2> QED
    BY <1>0, <1>1, <2>2, <2>3, <2>4, LostGrows DEF Late, Unrecorded
<1>5. CountInv'
  BY <1>0, <1>1, <1>4, CountKeeps
<1> QED
  BY <1>1, <1>2, <1>3, <1>5

-----------------------------------------------------------------------------
(* Steps that move a count: they prove CountInv for each delivery. *)

\* CountInv for one delivery, and the numbers it compares.
CountOf(d) ==
    /\ tries[d] <= Limit + Lost(d)
    /\ status[d] # "gone" => tries[d] <= attempts[d] + Lost(d) + Late(d)
    /\ d \in due => tries[d] <= listed[d] + Lost(d)
    /\ stage[Worker] # "idle" /\ cur[Worker] = d =>
          tries[d] <= seen[Worker] + Lost(d) + Late(d)

LEMMA CountNumbers ==
    ASSUME TypeOK, NEW d \in Deliveries
    PROVE  /\ tries[d] \in Nat /\ attempts[d] \in Nat /\ listed[d] \in Nat
           /\ seen[Worker] \in Nat /\ Limit \in Nat \ {0}
           /\ restarts \in Nat /\ Overwritten(d) \in Nat /\ Lost(d) = restarts + Overwritten(d)
BY ConstantsAssumption, LimitNumber DEF TypeOK, Actors, MaxTries, Overwritten, Lost

LEMMA ListDueInv ==
    ASSUME Inv, ListDue PROVE Inv'
<1> USE ConstantsAssumption, LimitNumber DEF Inv, ListDue, hooks, rows, fan, try, ghost, faults
<1>0. /\ due' = {d \in Open : next[d] = "due"} /\ due' \subseteq Deliveries
      /\ \A d \in Deliveries : listed'[d] = IF d \in due' THEN attempts[d] ELSE 0
  BY DEF Open
<1>1. TypeOK'
  BY <1>0 DEF TypeOK
<1>2. ActorInv'
  BY <1>0 DEF TypeOK, ActorInv, Open
<1>3. EarnedInv'
  BY <1>0 DEF TypeOK, EarnedInv, OutcomesAreEarned, MaxTries
<1>4. ASSUME NEW d \in Deliveries PROVE CountOf(d)'
  <2>1. Overwritten(d)' = Overwritten(d) /\ Lost(d)' = Lost(d) /\ Late(d)' = Late(d) /\ Late(d) = 0
    BY DEF Overwritten, Lost, Late, Coming, Unrecorded
  <2>2. d \in due' => status[d] # "gone" /\ listed'[d] = attempts[d]
    BY <1>0 DEF Open
  <2>3. CountOf(d)
    BY DEF CountInv, CountOf
  <2> QED
    BY <2>1, <2>2, <2>3, CountNumbers DEF CountOf
<1>5. CountInv'
  BY <1>4 DEF CountInv, CountOf
<1> QED
  BY <1>1, <1>2, <1>3, <1>5

LEMMA BeginRetryInv ==
    ASSUME Inv, NEW d0 \in Deliveries, BeginRetry(d0) PROVE Inv'
<1> USE ConstantsAssumption, LimitNumber DEF Inv, hooks, rows, fan, ghost, faults
<1>0. /\ d0 \in due /\ stage[Worker] = "idle" /\ due' = due \ {d0}
      /\ cur' = [cur EXCEPT ![Worker] = d0]
      /\ seen' = [seen EXCEPT ![Worker] = listed[d0]]
      /\ \E s \in {"mark", "drop"} : stage' = [stage EXCEPT ![Worker] = s]
      /\ listed' = [listed EXCEPT ![d0] = 0]
      /\ Worker \in Actors
      /\ UNCHANGED <<hooks, rows, fan, outcome, ghost, faults>>
  BY DEF BeginRetry, Actors
<1>1. TypeOK'
  BY <1>0 DEF TypeOK
<1>2. ActorInv'
  BY <1>0 DEF TypeOK, ActorInv, Actors
<1>3. EarnedInv'
  BY <1>0 DEF TypeOK, EarnedInv, OutcomesAreEarned, MaxTries
<1>4. ASSUME NEW d \in Deliveries PROVE CountOf(d)'
  <2>1. d[1] \in Emits /\ d[1] \in Actors /\ Worker # d[1]
    BY DEF Deliveries, Actors
  <2>2. Coming(d)' = Coming(d) /\ Unrecorded(d[1], d)' = Unrecorded(d[1], d)
    BY <1>0, <2>1 DEF Coming, Unrecorded, TypeOK
  <2>3. Overwritten(d)' = Overwritten(d) /\ Lost(d)' = Lost(d)
    BY <1>0, <2>2 DEF Overwritten, Lost
  <2>4. Late(d)' = 0 /\ Late(d) = 0
    BY <1>0 DEF Late, Unrecorded, TypeOK
  <2>5. CountOf(d)
    BY DEF CountInv, CountOf
  <2>6. /\ d \in due' => d \in due /\ listed'[d] = listed[d]
        /\ cur'[Worker] = d => d = d0 /\ d \in due
        /\ seen'[Worker] = listed[d0]
    BY <1>0 DEF TypeOK
  <2> QED
    BY <1>0, <2>3, <2>4, <2>5, <2>6, CountNumbers DEF CountOf
<1>5. CountInv'
  BY <1>4 DEF CountInv, CountOf
<1> QED
  BY <1>1, <1>2, <1>3, <1>5

LEMMA WorkerRestartInv ==
    ASSUME Inv, WorkerRestart PROVE Inv'
<1> USE ConstantsAssumption, LimitNumber DEF Inv, WorkerRestart, hooks, rows, fan, ghost
<1>1. TypeOK'
  BY ForgetType DEF TypeOK
<1>2. ActorInv'
  BY DEF TypeOK, ActorInv, Forget, Actors
<1>3. EarnedInv'
  BY DEF TypeOK, EarnedInv, OutcomesAreEarned, Forget, MaxTries
<1>4. ASSUME NEW d \in Deliveries PROVE CountOf(d)'
  <2>1. d[1] \in Emits /\ d[1] \in Actors /\ Worker \in Actors /\ Worker # d[1]
    BY DEF Deliveries, Actors
  <2>2. Coming(d)' = Coming(d) /\ Unrecorded(d[1], d)' = Unrecorded(d[1], d)
    BY <2>1 DEF Coming, Unrecorded, TypeOK, Forget
  <2>3. Overwritten(d)' = Overwritten(d)
    BY <2>2 DEF Overwritten
  <2>4. Lost(d)' = Lost(d) + 1
    BY <2>3, CountNumbers DEF Lost
  <2>5. Late(d)' = 0 /\ Late(d) \in {0, 1} /\ stage'[Worker] = "idle"
    BY <2>1 DEF Late, Unrecorded, Forget
  <2>6. CountOf(d)
    BY DEF CountInv, CountOf
  <2> QED
    BY <2>3, <2>4, <2>5, <2>6, CountNumbers DEF CountOf
<1>5. CountInv'
  BY <1>4 DEF CountInv, CountOf
<1> QED
  BY <1>1, <1>2, <1>3, <1>5

\* An attempt that a statement cuts off is forgotten: as by a restart, but the
\* actor goes on with the rest of its list.
LEMMA FailsInv ==
    ASSUME Inv, NEW a \in Actors, AttemptFails(a) PROVE Inv'
<1> USE ConstantsAssumption, LimitNumber DEF Inv, hooks, rows, fan, list, ghost
<1>0. /\ stage[a] # "idle" /\ Forget({a})
      /\ restarts' \in 0 .. MaxRestarts /\ crashes' \in 0 .. MaxCrashes
      /\ restarts' = IF a = Worker THEN restarts + 1 ELSE restarts
      /\ UNCHANGED <<hooks, rows, fan, list, ghost>>
  BY DEF AttemptFails, TypeOK
<1>1. TypeOK'
  BY <1>0, ForgetType DEF TypeOK
<1>2. ActorInv'
  BY <1>0 DEF TypeOK, ActorInv, Forget, Actors
<1>3. EarnedInv'
  BY <1>0 DEF TypeOK, EarnedInv, OutcomesAreEarned, Forget, MaxTries
<1>4. ASSUME NEW d \in Deliveries PROVE CountOf(d)'
  <2>1. d[1] \in Emits /\ d[1] \in Actors /\ Worker \in Actors /\ Worker # d[1]
    BY DEF Deliveries, Actors
  <2>2. CountOf(d)
    BY DEF CountInv, CountOf
  <2>3. CASE a = Worker
    <3>1. Coming(d)' = Coming(d) /\ Unrecorded(d[1], d)' = Unrecorded(d[1], d)
      BY <1>0, <2>1, <2>3 DEF Coming, Unrecorded, TypeOK, Forget
    <3>2. Overwritten(d)' = Overwritten(d)
      BY <3>1 DEF Overwritten
    <3>3. Lost(d)' = Lost(d) + 1
      BY <1>0, <2>3, <3>2, CountNumbers DEF Lost
    <3>4. Late(d)' = 0 /\ Late(d) \in {0, 1} /\ stage'[Worker] = "idle"
      BY <1>0, <2>1, <2>3 DEF Late, Unrecorded, Forget
    <3> QED
      BY <1>0, <2>2, <3>2, <3>3, <3>4, CountNumbers DEF CountOf
  <2>4. CASE a # Worker
    <3>1. Coming(d)' => Coming(d)
      BY <1>0, <2>1 DEF Coming, Forget
    <3>2. Unrecorded(d[1], d)' => Unrecorded(d[1], d)
      BY <1>0, <2>1 DEF Unrecorded, Forget
    <3>3. restarts <= restarts'
      BY <1>0, <2>4 DEF TypeOK
    <3>4. Lost(d) <= Lost(d)' /\ Lost(d)' \in Nat
      <4>1. Lost(d) <= Lost(d)'
        BY <1>1, <3>1, <3>2, <3>3, LostGrows
      <4>2. Overwritten(d)' \in Nat /\ restarts' \in Nat
        BY <1>1 DEF TypeOK, Overwritten
      <4> QED
        BY <4>1, <4>2 DEF Lost
    <3>5. UNCHANGED <<stage[Worker], cur[Worker], seen[Worker]>>
      BY <1>0, <2>1, <2>4 DEF Forget
    <3>6. Late(d)' = Late(d) /\ Late(d) \in {0, 1} /\ Lost(d) \in Nat
      BY <3>5, CountNumbers DEF Late, Unrecorded
    <3> QED
      BY <1>0, <2>2, <3>4, <3>5, <3>6, CountNumbers DEF CountOf
  <2> QED
    BY <2>3, <2>4
<1>5. CountInv'
  BY <1>4 DEF CountInv, CountOf
<1> QED
  BY <1>1, <1>2, <1>3, <1>5

-----------------------------------------------------------------------------
(* The request, and its record. *)

\* An actor makes another request than the one of d's inline attempt.
LEMMA ElseUnmoved ==
    ASSUME TypeOK, ActorInv, NEW a \in Actors, NEW d \in Deliveries, cur[a] # d \/ a # d[1],
           stage[a] \in {"send", "record"}, UNCHANGED <<fan, restarts>>,
           \A b \in Actors \ {a} : stage'[b] = stage[b] /\ cur'[b] = cur[b],
           (stage'[a] = "record" /\ cur'[a] = cur[a]) \/ stage'[a] = "idle"
    PROVE  Overwritten(d)' = Overwritten(d)
<1>1. d[1] \in Emits /\ d[1] \in Actors
  BY DEF Deliveries, Actors
<1>2. Coming(d)' = Coming(d) /\ Unrecorded(d[1], d)' = Unrecorded(d[1], d)
  <2>1. CASE a # d[1]
    BY <1>1, <2>1 DEF Coming, Unrecorded, fan
  <2>2. CASE a = d[1]
    BY <1>1, <2>2 DEF Coming, Unrecorded, fan
  <2> QED
    BY <2>1, <2>2
<1> QED
  BY <1>2 DEF Overwritten

LEMMA SendInv ==
    ASSUME Inv, NEW a \in Actors, Send(a) PROVE Inv'
<1> USE ConstantsAssumption, LimitNumber DEF Inv, hooks, rows, list, faults
<1> DEFINE d0 == cur[a]
<1>0. /\ stage[a] = "send" /\ stage' = [stage EXCEPT ![a] = "record"] /\ d0 \in Deliveries
      /\ tries' = [tries EXCEPT ![d0] = IF @ < MaxTries THEN @ + 1 ELSE @]
      /\ \E t \in BOOLEAN, w \in BOOLEAN :
            /\ w => t
            /\ outcome' = [outcome EXCEPT ![a] = w]
            /\ received' = IF t THEN received \cup {d0} ELSE received
      /\ UNCHANGED <<hooks, rows, fan, cur, seen, list, dropped, faults>>
  BY DEF Send, ActorInv, Actors
<1> HIDE DEF d0
<1>d. /\ stage[a] = "send" /\ stage' = [stage EXCEPT ![a] = "record"]
      /\ UNCHANGED <<hooks, rows, fan, cur, seen, list, dropped, faults>>
  BY <1>0
<1>a. tries[d0] < MaxTries
  <2>1. /\ tries[d0] <= Limit + Lost(d0)
        /\ tries[d0] \in Nat
    BY <1>0 DEF CountInv, TypeOK, MaxTries
  <2>2. Lost(d0) \in Nat /\ Lost(d0) <= restarts + Limit
    BY <1>0, LostType
  <2>3. restarts \in Nat /\ restarts <= MaxRestarts
    BY DEF TypeOK
  <2> QED
    BY <2>1, <2>2, <2>3 DEF MaxTries
<1>b. tries' = [tries EXCEPT ![d0] = @ + 1]
  BY <1>0, <1>a DEF TypeOK
<1>1. TypeOK'
  <2>1. tries' \in [Deliveries -> 0 .. MaxTries]
    BY <1>0, <1>a, <1>b DEF TypeOK, MaxTries
  <2>2. outcome' \in [Actors -> BOOLEAN] /\ received' \subseteq Deliveries
    BY <1>0 DEF TypeOK
  <2>3. stage' \in [Actors -> {"idle", "drop", "mark", "send", "record"}]
    BY <1>d DEF TypeOK
  <2> QED
    BY <1>d, <2>1, <2>2, <2>3 DEF TypeOK, fan
<1>2. ActorInv'
  BY <1>d DEF TypeOK, ActorInv, Actors, fan
<1>c. \A d \in Deliveries : tries[d] \in Nat /\ tries'[d] = IF d = d0 THEN tries[d] + 1 ELSE tries[d]
  BY <1>b DEF TypeOK, MaxTries
<1>3. EarnedInv'
  <2>1. OutcomesAreEarned'
    BY <1>0, <1>c DEF TypeOK, EarnedInv, OutcomesAreEarned
  <2>2. \A d \in Deliveries : attempts'[d] <= tries'[d] /\ listed'[d] <= tries'[d]
    BY <1>0, <1>c DEF TypeOK, EarnedInv
  <2>3. ASSUME NEW b \in Actors, stage'[b] # "idle"
        PROVE  /\ seen'[b] <= tries'[cur'[b]]
               /\ stage'[b] = "record" =>
                     seen'[b] < tries'[cur'[b]] /\ (outcome'[b] => cur'[b] \in received')
    <3>1. cur[b] \in Deliveries /\ stage[b] # "idle" /\ seen[b] \in Nat
      BY <1>0, <2>3 DEF ActorInv, Actors, TypeOK
    <3>2. CASE b = a
      BY <1>0, <1>c, <3>1, <3>2 DEF EarnedInv, TypeOK, d0
    <3>3. CASE b # a
      BY <1>0, <1>c, <2>3, <3>1, <3>3 DEF EarnedInv, TypeOK
    <3> QED
      BY <3>2, <3>3
  <2> QED
    BY <2>1, <2>2, <2>3 DEF EarnedInv
<1>4. ASSUME NEW d \in Deliveries PROVE CountOf(d)'
  <2>1. d[1] \in Emits /\ d[1] \in Actors /\ Worker \in Actors /\ Worker # d[1]
    BY DEF Deliveries, Actors
  <2>2. CountOf(d)
    BY DEF CountInv, CountOf
  <2>3. CASE d # d0 \/ (a # d[1] /\ a # Worker)
    <3>1. a = Worker => d # d0
      BY <2>3
    <3>2. d # d0
      <4>1. CASE a # Worker
        BY <1>0, <2>3, <4>1 DEF ActorInv, Actors, d0
      <4> QED
        BY <3>1, <4>1
    <3>3. Overwritten(d)' = Overwritten(d)
      BY <1>0, <1>1, <3>2, ElseUnmoved DEF TypeOK, d0
    <3>4. Late(d)' = Late(d)
      BY <1>0, <3>2, <2>1 DEF Late, Unrecorded, TypeOK, d0
    <3> QED
      BY <1>0, <1>c, <2>1, <2>2, <3>2, <3>3, <3>4 DEF CountOf, Lost, TypeOK
  <2>4. CASE d = d0 /\ a = d[1]
    <3>1. Overwritten(d) = 0 /\ Overwritten(d)' = 1
      <4>1. Coming(d)
        BY <1>0, <2>4 DEF Coming, d0
      <4>2. ~Coming(d)' /\ Unrecorded(d[1], d)'
        BY <1>d, <2>1, <2>4 DEF Coming, Unrecorded, ActorInv, TypeOK, d0, fan
      <4> QED
        BY <4>1, <4>2 DEF Overwritten
    <3>2. Late(d)' = Late(d) /\ Late(d) \in {0, 1}
      BY <1>0, <2>1, <2>4 DEF Late, Unrecorded, TypeOK
    <3>3. Lost(d)' = Lost(d) + 1 /\ tries'[d] = tries[d] + 1
      BY <1>0, <1>c, <2>4, <3>1, CountNumbers DEF Lost
    <3>4. (stage[Worker] # "idle") = (stage'[Worker] # "idle")
      BY <1>0, <2>1, <2>4 DEF TypeOK
    <3> QED
      BY <1>0, <2>2, <3>1, <3>2, <3>3, <3>4, CountNumbers DEF CountOf
  <2>5. CASE d = d0 /\ a = Worker
    <3>1. Overwritten(d)' = Overwritten(d)
      BY <1>0, <1>1, <2>1, <2>5, ElseUnmoved DEF TypeOK
    <3>2. Late(d) = 0 /\ Late(d)' = 1
      BY <1>0, <2>1, <2>5 DEF Late, Unrecorded, TypeOK, d0
    <3>3. Lost(d)' = Lost(d) /\ tries'[d] = tries[d] + 1
      BY <1>0, <1>c, <2>5, <3>1 DEF Lost
    <3>4. tries[d] <= seen[Worker] + Lost(d) /\ seen[Worker] < Limit /\ d \notin due
      BY <1>0, <2>2, <2>5, <3>2, CountNumbers DEF CountOf, ActorInv, d0
    <3> QED
      BY <1>0, <2>2, <3>1, <3>2, <3>3, <3>4, CountNumbers DEF CountOf
  <2> QED
    BY <2>3, <2>4, <2>5
<1>5. CountInv'
  BY <1>4 DEF CountInv, CountOf
<1> QED
  BY <1>1, <1>2, <1>3, <1>5

LEMMA RecordInv ==
    ASSUME Inv, NEW a \in Actors, Record(a) PROVE Inv'
<1> USE ConstantsAssumption, LimitNumber DEF Inv, hooks, list, ghost, faults
<1> DEFINE d0 == cur[a]
           n == seen[a] + 1
<1>0. /\ stage[a] = "record" /\ Forget({a}) /\ d0 \in Deliveries
      /\ n \in Nat \ {0} /\ n <= Limit /\ n <= tries[d0] /\ (outcome[a] => d0 \in received)
      /\ UNCHANGED <<hooks, fan, list, ghost, faults>>
  <2>1. seen[a] \in Nat /\ seen[a] < Limit /\ d0 \in Deliveries
    BY DEF Record, ActorInv, Actors, TypeOK
  <2>2. seen[a] < tries[d0] /\ (outcome[a] => d0 \in received) /\ tries[d0] \in Nat
    BY <2>1 DEF Record, EarnedInv, TypeOK, MaxTries
  <2> QED
    BY <2>1, <2>2 DEF Record
<1>w. \/ ~Stored(d0) /\ UNCHANGED rows
      \/ /\ Stored(d0)
         /\ attempts' = [attempts EXCEPT ![d0] = n]
         /\ \E s \in {"succeeded", "failed", "pending"}, t \in {"null", "later"} :
               /\ status' = [status EXCEPT ![d0] = s]
               /\ next' = [next EXCEPT ![d0] = t]
               /\ s = "succeeded" => outcome[a]
               /\ s = "failed" => n >= Limit
               /\ t = "later" => n < Limit
  <2>1. CASE ~Stored(d0)
    BY <2>1 DEF Record
  <2>2. CASE Stored(d0)
    BY <1>0, <2>2, ExhaustedAtTheLimit DEF Record
  <2> QED
    BY <2>1, <2>2
<1>f. /\ \A b \in Actors \ {a} : stage'[b] = stage[b] /\ cur'[b] = cur[b] /\ seen'[b] = seen[b]
                                  /\ outcome'[b] = outcome[b]
      /\ stage'[a] = "idle" /\ cur'[a] = None /\ seen'[a] = 0
  BY <1>0 DEF Forget
<1> HIDE DEF n, d0
<1>1. TypeOK'
  <2>1. /\ status' \in [Deliveries -> {"none", "pending", "sending", "succeeded", "failed", "gone"}]
        /\ attempts' \in [Deliveries -> 0 .. Limit]
        /\ next' \in [Deliveries -> {"due", "later", "null"}]
    BY <1>0, <1>w DEF TypeOK, rows
  <2> QED
    BY <1>0, <2>1, ForgetType DEF TypeOK, fan
<1>2. ActorInv'
  <2>1. \A d \in Deliveries :
            /\ listed'[d] < Limit
            /\ d \in due' => status'[d] # "none"
            /\ status'[d] = "none" => attempts'[d] = 0
            /\ next'[d] \in {"due", "later"} => attempts'[d] < Limit
    BY <1>0, <1>w DEF TypeOK, ActorInv, rows, Stored
  <2>2. /\ seen'[Worker] < Limit
        /\ stage'[Worker] # "idle" => cur'[Worker] \in Deliveries \ due' /\ status'[cur'[Worker]] # "none"
    BY <1>0, <1>w, <1>f DEF TypeOK, ActorInv, rows, Stored, Actors
  <2>3. ASSUME NEW e \in Emits
        PROVE  /\ seen'[e] = 0
               /\ stage'[e] # "idle" =>
                     /\ stage'[e] # "drop" /\ emit'[e] = "inline"
                     /\ cur'[e] \in Deliveries /\ cur'[e][1] = e /\ cur'[e][2] \notin todo'[e]
    BY <1>0, <1>f DEF ActorInv, Actors, fan
  <2> QED
    BY <2>1, <2>2, <2>3 DEF ActorInv
<1>3. EarnedInv'
  <2>1. OutcomesAreEarned'
    BY <1>0, <1>w DEF TypeOK, EarnedInv, OutcomesAreEarned, rows, MaxTries
  <2>2. \A d \in Deliveries : attempts'[d] <= tries'[d] /\ listed'[d] <= tries'[d]
    BY <1>0, <1>w DEF TypeOK, EarnedInv, rows
  <2>3. ASSUME NEW b \in Actors, stage'[b] # "idle"
        PROVE  /\ seen'[b] <= tries'[cur'[b]]
               /\ stage'[b] = "record" =>
                     seen'[b] < tries'[cur'[b]] /\ (outcome'[b] => cur'[b] \in received')
    BY <1>0, <1>f, <2>3 DEF EarnedInv
  <2> QED
    BY <2>1, <2>2, <2>3 DEF EarnedInv
<1>4. ASSUME NEW d \in Deliveries PROVE CountOf(d)'
  <2>1. d[1] \in Emits /\ d[1] \in Actors /\ Worker \in Actors /\ Worker # d[1]
    BY DEF Deliveries, Actors
  <2>2. CountOf(d) /\ Overwritten(d) \in Nat /\ restarts \in Nat /\ restarts' = restarts
    BY <1>0, CountNumbers DEF CountInv, CountOf
  <2>3. CASE d # d0
    <3>1. Overwritten(d)' = Overwritten(d)
      BY <1>0, <1>f, <2>3, ElseUnmoved DEF d0
    <3>2. Late(d)' = Late(d)
      BY <1>0, <1>f, <2>1, <2>3 DEF Late, Unrecorded, d0
    <3>3. /\ status'[d] = status[d] /\ attempts'[d] = attempts[d]
          /\ UNCHANGED <<tries, due, listed>>
      BY <1>0, <1>w, <2>3 DEF TypeOK, rows
    <3>4. stage'[Worker] # "idle" =>
            stage[Worker] # "idle" /\ cur'[Worker] = cur[Worker] /\ seen'[Worker] = seen[Worker]
      BY <1>f, <2>1
    <3> QED
      BY <2>2, <3>1, <3>2, <3>3, <3>4 DEF CountOf, Lost
  <2>4. CASE d = d0 /\ a # Worker
    <3>1. a = d[1] /\ seen[a] = 0
      BY <1>0, <2>1, <2>4 DEF ActorInv, Actors, d0
    <3>2. ~Coming(d) /\ Unrecorded(d[1], d) /\ ~Coming(d)' /\ ~Unrecorded(d[1], d)'
      BY <1>0, <1>f, <2>1, <2>4, <3>1 DEF Coming, Unrecorded, ActorInv, d0, fan
    <3>3. Overwritten(d) = 1 /\ Overwritten(d)' = Limit
      BY <3>2 DEF Overwritten
    <3>4. Late(d)' = Late(d) /\ Late(d) \in {0, 1}
      BY <1>f, <2>1, <2>4, <3>1 DEF Late, Unrecorded
    <3>5. /\ UNCHANGED <<tries, due, listed>>
          /\ status'[d] # "gone" => (attempts'[d] = 1 \/ (status[d] # "gone" /\ attempts'[d] = attempts[d]))
      BY <1>0, <1>w, <2>4, <3>1 DEF TypeOK, rows, n
    <3>6. stage'[Worker] # "idle" =>
            stage[Worker] # "idle" /\ cur'[Worker] = cur[Worker] /\ seen'[Worker] = seen[Worker]
      BY <1>f, <2>1, <2>4
    <3> QED
      BY <2>2, <3>3, <3>4, <3>5, <3>6, CountNumbers DEF CountOf, Lost
  <2>5. CASE d = d0 /\ a = Worker
    <3>1. Overwritten(d)' = Overwritten(d)
      BY <1>0, <1>f, <2>1, <2>5, ElseUnmoved
    <3>2. Late(d)' = 0 /\ Late(d) = 1 /\ stage'[Worker] = "idle"
      BY <1>0, <1>f, <2>5 DEF Late, Unrecorded, d0
    <3>3. tries[d] <= n + Lost(d) /\ status[d] # "none"
      BY <1>0, <2>2, <2>5, <3>2, CountNumbers DEF CountOf, ActorInv, d0, n
    <3>4. /\ UNCHANGED <<tries, due, listed>>
          /\ status'[d] # "gone" => attempts'[d] = n
      BY <1>0, <1>w, <2>5, <3>3 DEF TypeOK, rows, Stored
    <3> QED
      BY <1>0, <2>2, <3>1, <3>2, <3>3, <3>4, CountNumbers DEF CountOf, Lost
  <2> QED
    BY <2>3, <2>4, <2>5
<1>5. CountInv'
  BY <1>4 DEF CountInv, CountOf
<1> QED
  BY <1>1, <1>2, <1>3, <1>5

-----------------------------------------------------------------------------
(* The invariant, and what follows from it. *)

LEMMA StepInv == ASSUME Inv, [Next]_vars PROVE Inv'
<1>1. CASE UNCHANGED vars
  <2>1. TypeOK'
    BY <1>1 DEF Inv, TypeOK, vars, hooks, rows, fan, try, list, ghost, faults
  <2>2. ActorInv'
    BY <1>1 DEF Inv, ActorInv, vars, hooks, rows, fan, try, list, ghost, faults
  <2>3. EarnedInv'
    BY <1>1 DEF Inv, EarnedInv, OutcomesAreEarned, vars, hooks, rows, fan, try, list, ghost, faults
  <2>4. CountInv'
    BY <1>1 DEF Inv, CountInv, Lost, Overwritten, Late, Coming, Unrecorded,
                vars, hooks, rows, fan, try, list, ghost, faults
  <2> QED
    BY <2>1, <2>2, <2>3, <2>4 DEF Inv
<1>2. ASSUME NEW a \in Actors, AttemptStep(a) PROVE Inv'
  BY <1>2, MarkInv, SendInv, RecordInv DEF AttemptStep
<1>3. ASSUME NEW e \in Events, Emit(e) PROVE Inv'
  BY <1>3, SendStepInv DEF Emits
<1>4. ASSUME NEW t \in Tests, Test(t) PROVE Inv'
  BY <1>4, SendStepInv DEF Emits
<1>5. ASSUME NEW e \in Emits, EmitStep(e) PROVE Inv'
  BY <1>2, <1>5, CreateInv, InlineInv DEF EmitStep, Actors
<1>6. CASE WorkerStep
  BY <1>2, <1>6, ListDueInv, BeginRetryInv, GiveUpInv DEF WorkerStep, Actors
<1> QED
  BY <1>1, <1>3, <1>4, <1>5, <1>6, BackoffInv, ManagerInv, CrashInv, WorkerRestartInv,
     FailsInv DEF Next

LEMMA Invariance == Spec => []Inv
<1>1. Init => Inv
  BY InitInv
<1>2. Inv /\ [Next]_vars => Inv'
  BY StepInv
<1> QED
  BY <1>1, <1>2, PTL DEF Spec

\* Every variable stays within its type.
THEOREM TypeCorrect == Spec => []TypeOK
<1>1. Inv => TypeOK
  BY DEF Inv
<1> QED
  BY <1>1, Invariance, PTL

\* A delivery is succeeded only if the receiver took it, and failed only after
\* as many attempts as maxAttempts and the backoff table allow or because its
\* webhook was off, whatever inline attempts, retries, replays and managers
\* write over each other's rows.
THEOREM FinalStatusesAreEarned == Spec => []OutcomesAreEarned
<1>1. Inv => OutcomesAreEarned
  BY DEF Inv, EarnedInv
<1> QED
  BY <1>1, Invariance, PTL

\* A delivery is attempted at most twice as often as that, and once more for
\* each restart of the worker or attempt of it that a statement cut off, whatever
\* attempts overwrite each other.
THEOREM TriesStayBounded == Spec => []TriesAreBounded
<1>1. Inv => TriesAreBounded
  <2> SUFFICES ASSUME Inv, NEW d \in Deliveries
               PROVE  tries[d] <= 2 * Limit + restarts
    BY DEF TriesAreBounded
  <2>1. tries[d] <= Limit + Lost(d) /\ tries[d] \in Nat
    BY CountNumbers DEF Inv, CountInv
  <2>2. Lost(d) \in Nat /\ Lost(d) <= restarts + Limit /\ restarts \in Nat /\ Limit \in Nat
    BY LostType, CountNumbers DEF Inv
  <2> QED
    BY <2>1, <2>2
<1> QED
  BY <1>1, Invariance, PTL

-----------------------------------------------------------------------------
(* RealtimeGateway.                                                        *)

\* A frame under way is known, is at a step of its kind, and touches presence
\* only for a user.
FrameInv ==
    \A r \in Requests :
        /\ pc[r] # "idle" => req[r] \in Frames
        /\ pc[r] = "ensure" => req[r].kind = "subscribe"
        /\ pc[r] \in {"track", "join"} => req[r].kind = "presence.set"
        /\ pc[r] \in {"track", "join", "remove"} => UserOf[req[r].conn] # Null

\* Connections register once, and leave once; a fan-out stands at one of them.
SocketInv ==
    /\ Cardinality(Range(arrived)) = Len(arrived)
    /\ \A k \in Conns : /\ leaving[k].at = "no" => leaving[k].seen = {}
                        /\ leaving[k].at # "no" => k \in Range(arrived) \ live
                        /\ leaving[k].at \in Channels \cup {"next"} => UserOf[k] # Null
    /\ \A m \in Changes : /\ fanOut[m].at \in 0 .. Len(arrived)
                          /\ fanOut[m].at # 0 => fanOut[m].channel # Null

GatewayInv == GatewayTypeOK /\ FrameInv /\ SocketInv

\* A subscription that nobody overtook still has the room it was promised.
RoomInv ==
    /\ \A k \in Conns : IsFiniteSet(subs[k])
    /\ \A r \in Requests : pc[r] = "ensure" /\ r \notin crowded =>
          Cardinality(subs[req[r].conn]) < MaxSubs

\* Until its fan-out ends, a change has been delivered to a steady subscriber
\* or stands no further than at it.
Ahead(m, k) == fanOut[m].at # 0 /\ \E i \in fanOut[m].at .. Len(arrived) : arrived[i] = k

SteadyInv ==
    \A m \in Changes : fanOut[m].channel # Null =>
        \A k \in steady[m] :
            k \in live /\ fanOut[m].channel \in subs[k] /\ (k \in got[m] \/ Ahead(m, k))

-----------------------------------------------------------------------------
(* Sequences, positions.                                                   *)

LEMMA AppendRange ==
    ASSUME NEW S, NEW q \in Seq(S), NEW k \in S
    PROVE  /\ Append(q, k) \in Seq(S) /\ Len(Append(q, k)) = Len(q) + 1
           /\ Range(Append(q, k)) = Range(q) \cup {k}
           /\ \A i \in 1 .. Len(q) : Append(q, k)[i] = q[i]
<1>1. /\ Append(q, k) \in Seq(S) /\ Len(Append(q, k)) = Len(q) + 1 /\ Len(q) \in Nat
      /\ \A i \in 1 .. Len(q) : Append(q, k)[i] = q[i]
      /\ Append(q, k)[Len(q) + 1] = k
      OBVIOUS
<1>2. DOMAIN q = 1 .. Len(q) /\ DOMAIN Append(q, k) = 1 .. Len(q) + 1
      OBVIOUS
<1>3. Range(q) = {q[i] : i \in 1 .. Len(q)}
      BY <1>2 DEF Range
<1>4. Range(Append(q, k)) = {Append(q, k)[i] : i \in 1 .. Len(q) + 1}
      BY <1>2 DEF Range
<1>5. Range(Append(q, k)) = Range(q) \cup {k}
  <2>1. \A i \in 1 .. Len(q) + 1 : i \in 1 .. Len(q) \/ i = Len(q) + 1
        BY <1>1
  <2>2. \A i \in 1 .. Len(q) : i \in 1 .. Len(q) + 1
        BY <1>1
  <2>3. Len(q) + 1 \in 1 .. Len(q) + 1
        BY <1>1
  <2> QED BY <1>1, <1>3, <1>4, <2>1, <2>2, <2>3
<1> QED BY <1>1, <1>5

\* A set of naturals has a least element: the smallest initial interval.
LEMMA LeastNatural ==
    ASSUME NEW S \in SUBSET Nat, S # {}
    PROVE  \E m \in S : \A k \in S : m <= k
<1> DEFINE Upto == {0 .. m : m \in S}
<1>1. Upto \subseteq FiniteSubsetsOf(Nat)
  <2>1. ASSUME NEW m \in S
        PROVE  0 .. m \in SUBSET Nat /\ IsFiniteSet(0 .. m)
    <3>1. 0 \in Int /\ m \in Int
          OBVIOUS
    <3> QED BY <3>1, FS_Interval
  <2> QED BY <2>1 DEF FiniteSubsetsOf
<1>2. Upto # {}
      OBVIOUS
<1>3. PICK I \in Upto : \A J \in Upto : <<J, I>> \notin StrictSubsetOrdering(Nat)
  <2> HIDE DEF Upto
  <2> QED BY <1>1, <1>2, FS_StrictSubsetOrderingWellFounded, WFMin
<1>4. \E m \in S : I = 0 .. m
      OBVIOUS
<1>5. PICK m \in S : I = 0 .. m
      BY <1>4
<1>6. ASSUME NEW k \in S, k < m
      PROVE  FALSE
  <2>1. <<0 .. k, 0 .. m>> \in StrictSubsetOrdering(Nat)
    <3>1. m \in 0 .. m /\ m \notin 0 .. k /\ 0 .. k \subseteq 0 .. m /\ 0 .. m \subseteq Nat
          BY <1>6
    <3> QED BY <3>1 DEF StrictSubsetOrdering
  <2>2. 0 .. k \in Upto
        OBVIOUS
  <2> HIDE DEF Upto
  <2> QED BY <2>1, <2>2, <1>3, <1>5
<1> QED BY <1>6

\* The next subscriber lies after p, and no subscriber after p before it.
LEMMA AfterIsNext ==
    ASSUME GatewayTypeOK, NEW c \in Channels, NEW p \in Nat
    PROVE  /\ After(c, p) \in 0 .. Len(arrived)
           /\ \A i \in p + 1 .. Len(arrived) :
                 arrived[i] \in live /\ c \in subs[arrived[i]] => After(c, p) # 0 /\ After(c, p) <= i
<1> DEFINE later == {i \in p + 1 .. Len(arrived) : arrived[i] \in live /\ c \in subs[arrived[i]]}
<1>1. Len(arrived) \in Nat /\ later \in SUBSET Nat
      BY DEF GatewayTypeOK
<1>2. CASE later = {}
      BY <1>1, <1>2 DEF After
<1>3. CASE later # {}
  <2>1. \E m \in later : \A k \in later : m <= k
    <3> HIDE DEF later
    <3> QED BY <1>1, <1>3, LeastNatural
  <2>2. After(c, p) = Min(later)
        BY <1>3 DEF After
  <2>3. After(c, p) \in later /\ \A k \in later : After(c, p) <= k
    <3> HIDE DEF later
    <3> QED BY <2>1, <2>2 DEF Min
  <2> QED BY <1>1, <2>3
<1> QED BY <1>2, <1>3

-----------------------------------------------------------------------------
(* Types.                                                                  *)

LEMMA ConnectionsFit ==
    ASSUME GatewayTypeOK, Cardinality(Range(arrived)) = Len(arrived)
    PROVE  Len(arrived) \in 0 .. Cardinality(Conns)
<1>1. Range(arrived) \subseteq Conns /\ Len(arrived) \in Nat
      BY DEF GatewayTypeOK, Range
<1>2. Cardinality(Range(arrived)) <= Cardinality(Conns) /\ Cardinality(Conns) \in Nat
      BY <1>1, GatewayAssumption, FS_Subset, FS_CardinalityType
<1> QED BY <1>1, <1>2

LEMMA AfterType ==
    ASSUME GatewayTypeOK, SocketInv, NEW c \in Channels, NEW p \in Nat
    PROVE  After(c, p) \in 0 .. Cardinality(Conns)
<1>1. Len(arrived) \in 0 .. Cardinality(Conns) /\ Cardinality(Conns) \in Nat
      BY ConnectionsFit, GatewayAssumption, FS_CardinalityType DEF SocketInv
<1>2. After(c, p) \in 0 .. Len(arrived)
      BY AfterIsNext
<1> QED BY <1>1, <1>2

LEMMA EntryType ==
    ASSUME NEW k \in Conns, NEW c \in Channels, UserOf[k] # Null
    PROVE  Entry(k, c) \in Channels \X Users
BY DEF Entry, Users

\* Of a frame that is known.
LEMMA FrameType ==
    ASSUME NEW r \in Requests, req[r] \in Frames
    PROVE  req[r].conn \in Conns /\ req[r].channel \in Channels /\ req[r].kind \in Kinds
BY DEF Frames

LEMMA GatewayTypeInit == GatewayInit => GatewayInv
<1> SUFFICES ASSUME GatewayInit
             PROVE  GatewayInv
    OBVIOUS
<1>1. Range(arrived) = {} /\ Len(arrived) = 0 /\ arrived \in Seq(Conns)
      BY DEF GatewayInit, Range
<1>2. Cardinality(Range(arrived)) = 0
      BY <1>1, FS_EmptySet
<1>3. 0 \in 0 .. Cardinality(Conns)
      BY GatewayAssumption, FS_CardinalityType
<1>4. 0 \in 0 .. MaxFaults
      BY GatewayAssumption
<1>5. GatewayTypeOK
      BY <1>1, <1>3, <1>4 DEF GatewayInit, GatewayTypeOK
<1>6. FrameInv
      BY DEF GatewayInit, FrameInv
<1>7. SocketInv
      BY <1>1, <1>2, GatewayAssumption DEF GatewayInit, SocketInv
<1> QED BY <1>5, <1>6, <1>7 DEF GatewayInv

\* The frame of a step past the limit is known.
LEMMA KnownFrame ==
    ASSUME GatewayTypeOK, FrameInv, NEW r \in Requests, pc[r] # "idle"
    PROVE  /\ req[r] \in Frames /\ req[r].conn \in Conns /\ req[r].channel \in Channels
           /\ EntryOf(r) = Entry(req[r].conn, req[r].channel)
BY FrameType DEF FrameInv, EntryOf

LEMMA AddSubscriptionType ==
    ASSUME GatewayTypeOK, FrameInv, NEW r \in Requests, pc[r] # "idle", AddSubscription(r)
    PROVE  subs' \in [Conns -> SUBSET Channels] /\ crowded' \subseteq Requests
BY KnownFrame DEF GatewayTypeOK, AddSubscription

LEMMA RemoveEntryType ==
    ASSUME GatewayTypeOK, NEW e, RemoveEntry(e)
    PROVE  present' \subseteq Channels \X Users /\ late' \subseteq present' /\ failures' \in 0 .. MaxFaults
<1>1. failures \in Nat /\ MaxFaults \in Nat
      BY GatewayAssumption DEF GatewayTypeOK
<1>2. CASE present' = present \ {e} /\ late' = late \ {e} /\ UNCHANGED failures
      BY <1>2 DEF GatewayTypeOK
<1>3. CASE Fault /\ late' = late \cup ({e} \cap present) /\ UNCHANGED present
      BY <1>1, <1>3 DEF GatewayTypeOK, Fault
<1> QED BY <1>2, <1>3 DEF RemoveEntry

LEMMA GatewayTypeStep ==
    ASSUME GatewayInv, [GatewayNext]_gatewayVars
    PROVE  GatewayTypeOK'
<1>i. GatewayTypeOK /\ FrameInv /\ SocketInv
      BY DEF GatewayInv
<1> USE <1>i DEF GatewayTypeOK
<1>1. ASSUME NEW k \in Conns, Register(k)
      PROVE  GatewayTypeOK'
  <2>1. arrived' \in Seq(Conns) /\ Range(arrived') = Range(arrived) \cup {k}
        BY <1>1, AppendRange DEF Register
  <2> QED BY <1>1, <2>1 DEF Register, calls, feed
<1>2. ASSUME NEW k \in Conns, Drop(k)
      PROVE  GatewayTypeOK'
  <2>1. steady' \in [Changes -> SUBSET Conns]
        BY <1>2 DEF Drop, NotSteady
  <2>2. leaving' \in [Conns -> [at : {"no", "next", "closed"} \cup Channels, seen : SUBSET Channels]]
        BY <1>2 DEF Drop
  <2> QED BY <1>2, <2>1, <2>2 DEF Drop, calls
<1>3. ASSUME NEW k \in Conns, DropNext(k)
      PROVE  GatewayTypeOK'
  <2>1. CASE leaving' = [leaving EXCEPT ![k].at = "closed"]
    <3>1. leaving' \in [Conns -> [at : {"no", "next", "closed"} \cup Channels, seen : SUBSET Channels]]
          BY <2>1
    <3> QED BY <1>3, <3>1 DEF DropNext, sockets, calls, feed
  <2>2. ASSUME NEW c \in subs[k] \ leaving[k].seen,
               leaving' = [leaving EXCEPT ![k] = [at |-> c, seen |-> @.seen \cup {c}]]
        PROVE  GatewayTypeOK'
    <3>1. c \in Channels /\ leaving[k].seen \cup {c} \in SUBSET Channels
          OBVIOUS
    <3>2. leaving' \in [Conns -> [at : {"no", "next", "closed"} \cup Channels, seen : SUBSET Channels]]
          BY <2>2, <3>1
    <3> QED BY <1>3, <3>2 DEF DropNext, sockets, calls, feed
  <2> QED BY <1>3, <2>1, <2>2 DEF DropNext
<1>4. ASSUME NEW k \in Conns, DropRemove(k)
      PROVE  GatewayTypeOK'
  <2>1. leaving' \in [Conns -> [at : {"no", "next", "closed"} \cup Channels, seen : SUBSET Channels]]
    <3>1. leaving' = [leaving EXCEPT ![k].at = "next"]
          BY <1>4 DEF DropRemove
    <3>2. leaving \in [Conns -> [at : {"no", "next", "closed"} \cup Channels, seen : SUBSET Channels]]
          OBVIOUS
    <3> QED BY <3>1, <3>2
  <2>2. present' \subseteq Channels \X Users /\ late' \subseteq present' /\ failures' \in 0 .. MaxFaults
        BY <1>4, RemoveEntryType DEF DropRemove
  <2> QED BY <1>4, <2>1, <2>2 DEF DropRemove, sockets, calls, feed
<1>5. ASSUME NEW r \in Requests, HandleText(r)
      PROVE  GatewayTypeOK'
  <2>1. req' \in [Requests -> Frames \cup {Null}]
        BY <1>5 DEF HandleText, Frames, Range
  <2>2. pc' = [pc EXCEPT ![r] = "limit"]
        BY <1>5 DEF HandleText, Moved, Goto
  <2> QED BY <1>5, <2>1, <2>2 DEF HandleText, sockets, feed
<1>6. ASSUME NEW r \in Requests, Subscribe(r)
      PROVE  GatewayTypeOK'
  <2>1. subs' \in [Conns -> SUBSET Channels] /\ crowded' \subseteq Requests
        BY <1>6, AddSubscriptionType DEF Subscribe, Asks
  <2> QED BY <1>6, <2>1 DEF Subscribe, Asks, Goto, feed
<1>7. ASSUME NEW r \in Requests, EnsureTable(r)
      PROVE  GatewayTypeOK'
  <2>1. subs' \in [Conns -> SUBSET Channels] /\ crowded' \subseteq Requests
        BY <1>7, AddSubscriptionType DEF EnsureTable, Moved
  <2> QED BY <1>7, <2>1 DEF EnsureTable, Moved, Goto, feed
<1>8. ASSUME NEW r \in Requests, Unsubscribe(r)
      PROVE  GatewayTypeOK'
  <2>1. req[r].conn \in Conns
        BY <1>8, KnownFrame DEF Unsubscribe, Asks
  <2>2. steady' \in [Changes -> SUBSET Conns]
        BY <1>8 DEF Unsubscribe, NotSteady
  <2>3. leaving' \in [Conns -> [at : {"no", "next", "closed"} \cup Channels, seen : SUBSET Channels]]
        BY <1>8, <2>1 DEF Unsubscribe
  <2>4. subs' \in [Conns -> SUBSET Channels]
        BY <1>8, <2>1 DEF Unsubscribe
  <2>5. pc' \in [Requests -> {"idle", "limit", "ensure", "track", "join", "remove", "done"}]
        BY <1>8 DEF Unsubscribe, Goto
  <2> QED BY <1>8, <2>2, <2>3, <2>4, <2>5 DEF Unsubscribe
<1>9. ASSUME NEW r \in Requests, AskForPresence(r)
      PROVE  GatewayTypeOK'
  <2>1. pc' \in [Requests -> {"idle", "limit", "ensure", "track", "join", "remove", "done"}]
        BY <1>9 DEF AskForPresence, Goto
  <2> QED BY <1>9, <2>1 DEF AskForPresence, sockets, feed
<1>10. ASSUME NEW r \in Requests, Track(r)
       PROVE  GatewayTypeOK'
  <2>1. EntryOf(r) \in Channels \X Users
    <3>1. pc[r] = "track" /\ UserOf[req[r].conn] # Null
          BY <1>10 DEF Track, FrameInv
    <3> QED BY <3>1, KnownFrame, EntryType
  <2>2. failures' \in 0 .. MaxFaults
        BY <1>10, GatewayAssumption DEF Track, Fault
  <2>3. pc' \in [Requests -> {"idle", "limit", "ensure", "track", "join", "remove", "done"}]
        BY <1>10 DEF Track, Goto
  <2>4. present' \subseteq Channels \X Users /\ present \subseteq present'
        BY <1>10, <2>1 DEF Track
  <2> QED BY <1>10, <2>2, <2>3, <2>4 DEF Track, sockets, feed
<1>11. ASSUME NEW r \in Requests, Join(r)
       PROVE  GatewayTypeOK'
  <2>1. subs' \in [Conns -> SUBSET Channels] /\ crowded' \subseteq Requests
        BY <1>11, AddSubscriptionType DEF Join, Moved
  <2>2. late' \subseteq present
        BY <1>11 DEF Join
  <2>3. pc' = [pc EXCEPT ![r] = "done"]
        BY <1>11 DEF Join, Moved, Goto
  <2> QED BY <1>11, <2>1, <2>2, <2>3 DEF Join, feed
<1>12. ASSUME NEW r \in Requests, Remove(r)
       PROVE  GatewayTypeOK'
  <2>1. present' \subseteq Channels \X Users /\ late' \subseteq present' /\ failures' \in 0 .. MaxFaults
        BY <1>12, RemoveEntryType DEF Remove
  <2>2. pc' = [pc EXCEPT ![r] = "done"]
        BY <1>12 DEF Remove, Moved, Goto
  <2> QED BY <1>12, <2>1, <2>2 DEF Remove, sockets, feed
<1>13. ASSUME NEW c \in Channels, RoomExpires(c)
       PROVE  GatewayTypeOK'
  <2>1. present' \subseteq Channels \X Users /\ late' \subseteq present'
        BY <1>13 DEF RoomExpires
  <2> QED BY <1>13, <2>1 DEF RoomExpires, sockets, calls, feed
<1>14. ASSUME NEW m \in Changes, Publish(m)
       PROVE  GatewayTypeOK'
  <2>1. PICK c \in Tables : /\ fanOut' = [fanOut EXCEPT ![m] = [channel |-> c, at |-> After(c, 0)]]
                            /\ steady' = [steady EXCEPT ![m] = {k \in live : c \in subs[k]}]
        BY <1>14 DEF Publish
  <2>2. After(c, 0) \in 0 .. Cardinality(Conns)
    <3>1. c \in Channels /\ 0 \in Nat
          BY GatewayAssumption
    <3> QED BY <3>1, AfterType
  <2>3. {k \in live : c \in subs[k]} \subseteq Conns
        BY DEF Range
  <2> QED BY <1>14, <2>1, <2>2, <2>3 DEF Publish, sockets, calls
<1>15. ASSUME NEW m \in Changes, Deliver(m)
       PROVE  GatewayTypeOK'
  <2>1. fanOut[m].at \in 1 .. Len(arrived) /\ fanOut[m].at \in Nat
        BY <1>15 DEF Deliver, SocketInv
  <2>2. arrived[fanOut[m].at] \in Conns
        BY <2>1
  <2>3. fanOut[m].channel \in Channels
        BY <1>15, GatewayAssumption DEF Deliver, SocketInv
  <2>4. After(fanOut[m].channel, fanOut[m].at) \in 0 .. Cardinality(Conns)
        BY <2>1, <2>3, AfterType
  <2>5. fanOut' \in [Changes -> [channel : Tables \cup {Null}, at : 0 .. Cardinality(Conns)]]
        BY <1>15, <2>4 DEF Deliver
  <2>6. got' \in [Changes -> SUBSET Conns]
        BY <1>15, <2>2 DEF Deliver
  <2> QED BY <1>15, <2>5, <2>6 DEF Deliver, sockets, calls
<1>16. ASSUME UNCHANGED gatewayVars
       PROVE  GatewayTypeOK'
       BY <1>16 DEF gatewayVars, sockets, calls, feed
<1> QED BY <1>1, <1>2, <1>3, <1>4, <1>5, <1>6, <1>7, <1>8, <1>9, <1>10, <1>11, <1>12, <1>13, <1>14,
           <1>15, <1>16 DEF GatewayNext, Handle

-----------------------------------------------------------------------------
(* Frames and sockets.                                                     *)

LEMMA FrameStep ==
    ASSUME GatewayInv, [GatewayNext]_gatewayVars
    PROVE  FrameInv'
<1>i. GatewayTypeOK /\ FrameInv
      BY DEF GatewayInv
\* A step of a handler moves one frame.
<1>m. ASSUME NEW r \in Requests, NEW label, pc[r] # "idle", Goto(r, label), req' = req,
             label = "ensure" => req[r].kind = "subscribe",
             label \in {"track", "join"} => req[r].kind = "presence.set",
             label \in {"track", "join", "remove"} => UserOf[req[r].conn] # Null
      PROVE  FrameInv'
      BY <1>m, <1>i DEF FrameInv, Goto, GatewayTypeOK
<1>k. ASSUME UNCHANGED calls
      PROVE  FrameInv'
      BY <1>k, <1>i DEF FrameInv, calls
<1>1. ASSUME NEW k \in Conns, Register(k) \/ Drop(k) \/ DropNext(k) \/ DropRemove(k)
      PROVE  FrameInv'
      BY <1>1, <1>k DEF Register, Drop, DropNext, DropRemove
<1>2. ASSUME NEW r \in Requests, HandleText(r)
      PROVE  FrameInv'
  <2>1. req'[r] \in Frames /\ pc'[r] = "limit"
        BY <1>2, <1>i DEF HandleText, Moved, Goto, GatewayTypeOK, Frames, Range
  <2>2. \A s \in Requests \ {r} : req'[s] = req[s] /\ pc'[s] = pc[s]
        BY <1>2, <1>i DEF HandleText, Moved, Goto, GatewayTypeOK
  <2> QED BY <2>1, <2>2, <1>i DEF FrameInv
<1>3. ASSUME NEW r \in Requests, Subscribe(r)
      PROVE  FrameInv'
      BY <1>3, <1>m DEF Subscribe, Asks
<1>4. ASSUME NEW r \in Requests, EnsureTable(r) \/ Join(r) \/ Remove(r)
      PROVE  FrameInv'
      BY <1>4, <1>m DEF EnsureTable, Join, Remove, Moved
<1>5. ASSUME NEW r \in Requests, Unsubscribe(r)
      PROVE  FrameInv'
      BY <1>5, <1>m DEF Unsubscribe, Asks
<1>6. ASSUME NEW r \in Requests, AskForPresence(r)
      PROVE  FrameInv'
      BY <1>6, <1>m DEF AskForPresence, Asks
<1>7. ASSUME NEW r \in Requests, Track(r)
      PROVE  FrameInv'
  <2>1. CASE Goto(r, "join")
    <3>1. req[r].kind = "presence.set" /\ UserOf[req[r].conn] # Null
          BY <1>7, <1>i DEF Track, FrameInv
    <3> QED BY <1>7, <2>1, <3>1, <1>m DEF Track
  <2>2. CASE Goto(r, "done")
        BY <1>7, <2>2, <1>m DEF Track
  <2> QED BY <1>7, <2>1, <2>2 DEF Track
<1>8. ASSUME NEW c \in Channels, RoomExpires(c)
      PROVE  FrameInv'
      BY <1>8, <1>k DEF RoomExpires
<1>9. ASSUME NEW m \in Changes, Publish(m) \/ Deliver(m)
      PROVE  FrameInv'
      BY <1>9, <1>k DEF Publish, Deliver
<1>10. ASSUME UNCHANGED gatewayVars
       PROVE  FrameInv'
       BY <1>10, <1>k DEF gatewayVars
<1> QED BY <1>1, <1>2, <1>3, <1>4, <1>5, <1>6, <1>7, <1>8, <1>9, <1>10 DEF GatewayNext, Handle

LEMMA SocketStep ==
    ASSUME GatewayInv, [GatewayNext]_gatewayVars
    PROVE  SocketInv'
<1>i. GatewayTypeOK /\ FrameInv /\ SocketInv /\ Len(arrived) \in Nat /\ 0 \in Nat
      BY DEF GatewayInv, GatewayTypeOK
<1> DEFINE Leaves(k) == /\ leaving[k].at = "no" => leaving[k].seen = {}
                        /\ leaving[k].at # "no" => k \in Range(arrived) \ live
                        /\ leaving[k].at \in Channels \cup {"next"} => UserOf[k] # Null
           Stands(m) == /\ fanOut[m].at \in 0 .. Len(arrived)
                        /\ fanOut[m].at # 0 => fanOut[m].channel # Null
<1>z. ASSUME Cardinality(Range(arrived'))  = Len(arrived'),
             \A k \in Conns : Leaves(k)', \A m \in Changes : Stands(m)'
      PROVE  SocketInv'
      BY <1>z DEF SocketInv
<1>k. ASSUME UNCHANGED <<arrived, live, leaving, fanOut>>
      PROVE  SocketInv'
  <2>1. \A k \in Conns : Leaves(k)'
        BY <1>k, <1>i DEF SocketInv
  <2>2. \A m \in Changes : Stands(m)'
        BY <1>k, <1>i DEF SocketInv
  <2> QED BY <1>k, <2>1, <2>2, <1>z, <1>i DEF SocketInv
\* drop() goes on.
<1>l. ASSUME UNCHANGED <<arrived, live, fanOut>>, NEW k \in Conns, k \notin live,
             \A q \in Conns \ {k} : leaving'[q] = leaving[q],
             Leaves(k)'
      PROVE  SocketInv'
  <2>1. \A q \in Conns : Leaves(q)'
        BY <1>l, <1>i DEF SocketInv
  <2>2. \A m \in Changes : Stands(m)'
        BY <1>l, <1>i DEF SocketInv
  <2> QED BY <1>l, <2>1, <2>2, <1>z, <1>i DEF SocketInv
<1>1. ASSUME NEW k \in Conns, Register(k)
      PROVE  SocketInv'
  <2>1. /\ Range(arrived') = Range(arrived) \cup {k} /\ Len(arrived') = Len(arrived) + 1
        /\ live' = live \cup {k} /\ leaving' = leaving /\ fanOut' = fanOut
        BY <1>1, <1>i, AppendRange DEF Register, GatewayTypeOK, feed
  <2>2. Cardinality(Range(arrived')) = Len(arrived')
    <3>1. IsFiniteSet(Range(arrived))
      <4>1. Range(arrived) \subseteq Conns
            BY <1>i DEF GatewayTypeOK, Range
      <4> QED BY <4>1, GatewayAssumption, FS_Subset
    <3>2. k \notin Range(arrived)
          BY <1>1 DEF Register
    <3> QED BY <3>1, <3>2, <2>1, <1>i, FS_AddElement DEF SocketInv
  <2>3. \A q \in Conns : Leaves(q)'
    <3> SUFFICES ASSUME NEW q \in Conns
                 PROVE  Leaves(q)'
        OBVIOUS
    <3>1. leaving[q].at # "no" => q # k
          BY <1>1, <1>i DEF Register, SocketInv
    <3> QED BY <2>1, <3>1, <1>i DEF SocketInv
  <2>4. \A m \in Changes : Stands(m)'
        BY <2>1, <1>i DEF SocketInv
  <2> QED BY <2>2, <2>3, <2>4, <1>z
<1>2. ASSUME NEW k \in Conns, Drop(k)
      PROVE  SocketInv'
  <2>1. /\ k \in live /\ live' = live \ {k} /\ arrived' = arrived /\ fanOut' = fanOut
        /\ leaving'[k].at = IF UserOf[k] = Null THEN "closed" ELSE "next"
        /\ \A q \in Conns \ {k} : leaving'[q] = leaving[q]
        BY <1>2, <1>i DEF Drop, GatewayTypeOK
  <2>2. \A q \in Conns \ {k} : Leaves(q)'
        BY <2>1, <1>i DEF SocketInv
  <2>3. Leaves(k)'
    <3>1. k \in Range(arrived)
          BY <2>1, <1>i DEF GatewayTypeOK
    <3> QED BY <2>1, <3>1, GatewayAssumption
  <2>4. \A m \in Changes : Stands(m)'
        BY <2>1, <1>i DEF SocketInv
  <2>5. \A q \in Conns : Leaves(q)'
        BY <2>2, <2>3
  <2> QED BY <2>1, <2>4, <2>5, <1>z, <1>i DEF SocketInv
<1>3. ASSUME NEW k \in Conns, DropNext(k)
      PROVE  SocketInv'
  <2>1. k \in Range(arrived) \ live /\ UserOf[k] # Null
        BY <1>3, <1>i DEF DropNext, SocketInv
  <2>2. /\ UNCHANGED <<arrived, live, fanOut>>
        /\ \A q \in Conns \ {k} : leaving'[q] = leaving[q]
        BY <1>3, <1>i DEF DropNext, sockets, feed, GatewayTypeOK
  <2>3. leaving'[k].at # "no"
    <3>1. CASE leaving' = [leaving EXCEPT ![k].at = "closed"]
          BY <3>1, <1>i DEF GatewayTypeOK
    <3>2. ASSUME NEW c \in subs[k] \ leaving[k].seen,
                 leaving' = [leaving EXCEPT ![k] = [at |-> c, seen |-> @.seen \cup {c}]]
          PROVE  leaving'[k].at # "no"
      <4>1. c \in Channels
            BY <1>i DEF GatewayTypeOK
      <4>2. leaving'[k].at = c
            BY <3>2, <1>i DEF GatewayTypeOK
      <4> QED BY <4>1, <4>2, GatewayAssumption
    <3> QED BY <1>3, <3>1, <3>2 DEF DropNext
  <2>4. Leaves(k)'
        BY <2>1, <2>2, <2>3
  <2> QED BY <2>1, <2>2, <2>4, <1>l
<1>4. ASSUME NEW k \in Conns, DropRemove(k)
      PROVE  SocketInv'
  <2>1. k \in Range(arrived) \ live /\ UserOf[k] # Null
        BY <1>4, <1>i, GatewayAssumption DEF DropRemove, SocketInv
  <2>2. /\ UNCHANGED <<arrived, live, fanOut>>
        /\ leaving' = [leaving EXCEPT ![k].at = "next"]
        BY <1>4 DEF DropRemove, sockets, feed
  <2>3. leaving'[k].at = "next" /\ \A q \in Conns \ {k} : leaving'[q] = leaving[q]
        BY <2>2, <1>i DEF GatewayTypeOK
  <2>4. Leaves(k)'
        BY <2>1, <2>2, <2>3
  <2> QED BY <2>1, <2>2, <2>3, <2>4, <1>l
<1>5. ASSUME NEW r \in Requests, Handle(r), ~Unsubscribe(r)
      PROVE  SocketInv'
      BY <1>5, <1>k DEF Handle, HandleText, Subscribe, EnsureTable, AskForPresence, Track, Join,
                        Remove, sockets, feed
<1>6. ASSUME NEW r \in Requests, Unsubscribe(r)
      PROVE  SocketInv'
  <2>1. /\ UNCHANGED <<arrived, live, fanOut>>
        /\ \A q \in Conns : /\ leaving'[q].at = leaving[q].at
                            /\ leaving'[q].seen \subseteq leaving[q].seen
        BY <1>6, <1>i DEF Unsubscribe, GatewayTypeOK
  <2>2. \A q \in Conns : Leaves(q)'
        BY <2>1, <1>i DEF SocketInv
  <2>3. \A m \in Changes : Stands(m)'
        BY <2>1, <1>i DEF SocketInv
  <2> QED BY <2>1, <2>2, <2>3, <1>z, <1>i DEF SocketInv
<1>7. ASSUME NEW c \in Channels, RoomExpires(c)
      PROVE  SocketInv'
      BY <1>7, <1>k DEF RoomExpires, sockets, feed
<1>8. ASSUME NEW m \in Changes, Publish(m) \/ Deliver(m)
      PROVE  SocketInv'
  <2>1. /\ UNCHANGED <<arrived, live, leaving>>
        /\ \A q \in Changes \ {m} : fanOut'[q] = fanOut[q]
        BY <1>8, <1>i DEF Publish, Deliver, sockets, GatewayTypeOK
  <2>2. Stands(m)'
    <3>1. ASSUME NEW c \in Tables, fanOut'[m] = [channel |-> c, at |-> After(c, 0)]
          PROVE  Stands(m)'
      <4>1. c \in Channels /\ c # Null
            BY GatewayAssumption
      <4>2. After(c, 0) \in 0 .. Len(arrived)
            BY <4>1, <1>i, AfterIsNext
      <4> QED BY <2>1, <3>1, <4>1, <4>2
    <3>2. CASE Publish(m)
          BY <3>1, <3>2, <1>i DEF Publish, GatewayTypeOK
    <3>3. CASE Deliver(m)
      <4>1. fanOut[m].at \in Nat /\ fanOut[m].channel \in Channels /\ fanOut[m].channel # Null
            BY <3>3, <1>i, GatewayAssumption DEF Deliver, SocketInv, GatewayTypeOK
      <4>2. fanOut'[m].at = After(fanOut[m].channel, fanOut[m].at) /\ fanOut'[m].channel = fanOut[m].channel
            BY <3>3, <1>i DEF Deliver, GatewayTypeOK
      <4>3. After(fanOut[m].channel, fanOut[m].at) \in 0 .. Len(arrived)
            BY <4>1, <1>i, AfterIsNext
      <4> QED BY <2>1, <4>1, <4>2, <4>3
    <3> QED BY <1>8, <3>2, <3>3
  <2>3. \A q \in Changes : Stands(q)'
        BY <2>1, <2>2, <1>i DEF SocketInv
  <2>4. \A k \in Conns : Leaves(k)'
        BY <2>1, <1>i DEF SocketInv
  <2> QED BY <2>1, <2>3, <2>4, <1>z, <1>i DEF SocketInv
<1>9. ASSUME UNCHANGED gatewayVars
      PROVE  SocketInv'
      BY <1>9, <1>k DEF gatewayVars, sockets, feed
<1> QED BY <1>1, <1>2, <1>3, <1>4, <1>5, <1>6, <1>7, <1>8, <1>9 DEF GatewayNext

LEMMA GatewayInvStep == GatewayInv /\ [GatewayNext]_gatewayVars => GatewayInv'
BY GatewayTypeStep, FrameStep, SocketStep DEF GatewayInv

-----------------------------------------------------------------------------
(* Presence.                                                               *)

\* What PresentMeansListening says of one entry.
Heard(c, u) == \E k \in Conns : UserOf[k] = u /\ k \in live /\ c \in subs[k]
Departing(c, u) ==
    \E k \in Conns : /\ UserOf[k] = u
                     /\ \/ leaving[k].at = c
                        \/ /\ leaving[k].at \in Channels \cup {"next"}
                           /\ c \in subs[k] \ leaving[k].seen
Handled(c, u) == \E r \in Requests : pc[r] \in {"join", "remove"} /\ EntryOf(r) = <<c, u>>
Accounted(c, u) == Heard(c, u) \/ Departing(c, u) \/ Handled(c, u) \/ <<c, u>> \in late

LEMMA PresentMeansAccounted ==
    ASSUME GatewayTypeOK
    PROVE  PresentMeansListening
              <=> \A c \in Channels, u \in Users : <<c, u>> \in present => Accounted(c, u)
<1>1. \A e \in present : \E c \in Channels, u \in Users : e = <<c, u>>
      BY DEF GatewayTypeOK
<1>2. \A c \in Channels, u \in Users :
         (<<c, u>>[1] = c /\ <<c, u>>[2] = u)
      OBVIOUS
<1>3. ASSUME NEW c \in Channels, NEW u \in Users
      PROVE  Accounted(c, u) <=>
               (LET own == {k \in Conns : UserOf[k] = u}
                IN \/ \E k \in own \cap live : c \in subs[k]
                   \/ \E k \in own : \/ leaving[k].at = c
                                     \/ /\ leaving[k].at \in Channels \cup {"next"}
                                        /\ c \in subs[k] \ leaving[k].seen
                   \/ \E r \in Requests : pc[r] \in {"join", "remove"} /\ EntryOf(r) = <<c, u>>
                   \/ <<c, u>> \in late)
      BY DEF Accounted, Heard, Departing, Handled
<1> QED BY <1>1, <1>2, <1>3 DEF PresentMeansListening

\* An entry that is there before and after a step stays accounted for.
LEMMA AccountedStep ==
    ASSUME GatewayInv, [GatewayNext]_gatewayVars,
           NEW c \in Channels, NEW u \in Users, <<c, u>> \in present, <<c, u>> \in present',
           Accounted(c, u)
    PROVE  Accounted(c, u)'
<1>i. GatewayTypeOK /\ FrameInv /\ SocketInv /\ u # Null
      BY DEF GatewayInv, Users
<1>1. ASSUME NEW k \in Conns, Register(k)
      PROVE  Accounted(c, u)'
      BY <1>1 DEF Register, calls, Accounted, Heard, Departing, Handled, EntryOf, Entry
<1>2. ASSUME NEW k \in Conns, Drop(k)
      PROVE  Accounted(c, u)'
  <2>0. /\ leaving[k].at = "no" /\ leaving[k].seen = {} /\ k \in live
        /\ leaving'[k].seen = {} /\ live' = live \ {k}
        /\ UserOf[k] = u => leaving'[k].at = "next"
        /\ \A q \in Conns \ {k} : leaving'[q] = leaving[q]
        /\ UNCHANGED <<subs, pc, req, late>>
        BY <1>2, <1>i DEF Drop, SocketInv, GatewayTypeOK, calls
  <2>1. CASE Heard(c, u)
    <3>1. PICK q \in Conns : UserOf[q] = u /\ q \in live /\ c \in subs[q]
          BY <2>1 DEF Heard
    <3>2. CASE q = k
          BY <2>0, <3>1, <3>2 DEF Accounted, Departing
    <3>3. CASE q # k
          BY <2>0, <3>1, <3>3 DEF Accounted, Heard
    <3> QED BY <3>2, <3>3
  <2>2. CASE Departing(c, u)
    <3>1. PICK q \in Conns : /\ UserOf[q] = u
                             /\ \/ leaving[q].at = c
                                \/ /\ leaving[q].at \in Channels \cup {"next"}
                                   /\ c \in subs[q] \ leaving[q].seen
          BY <2>2 DEF Departing
    <3>2. q # k
          BY <2>0, <3>1, GatewayAssumption
    <3> QED BY <2>0, <3>1, <3>2 DEF Accounted, Departing
  <2>3. CASE Handled(c, u) \/ <<c, u>> \in late
        BY <2>0, <2>3 DEF Accounted, Handled, EntryOf, Entry
  <2> QED BY <2>1, <2>2, <2>3 DEF Accounted
<1>3. ASSUME NEW k \in Conns, DropNext(k)
      PROVE  Accounted(c, u)'
  <2>0. /\ UNCHANGED <<subs, live, pc, req, late>>
        /\ \A q \in Conns \ {k} : leaving'[q] = leaving[q]
        BY <1>3, <1>i DEF DropNext, sockets, calls, GatewayTypeOK
  <2>1. CASE Departing(c, u)
    <3>1. PICK q \in Conns : /\ UserOf[q] = u
                             /\ \/ leaving[q].at = c
                                \/ /\ leaving[q].at \in Channels \cup {"next"}
                                   /\ c \in subs[q] \ leaving[q].seen
          BY <2>1 DEF Departing
    <3>2. CASE q # k
          BY <2>0, <3>1, <3>2 DEF Accounted, Departing
    <3>3. CASE q = k
      <4>1. leaving[k].at = "next" /\ c \in subs[k] \ leaving[k].seen
            BY <1>3, <3>1, <3>3, GatewayAssumption DEF DropNext
      <4>2. PICK d \in subs[k] \ leaving[k].seen :
               leaving' = [leaving EXCEPT ![k] = [at |-> d, seen |-> @.seen \cup {d}]]
            BY <1>3, <4>1 DEF DropNext
      <4>3. d \in Channels /\ leaving'[k].at = d /\ leaving'[k].seen = leaving[k].seen \cup {d}
            BY <4>2, <1>i DEF GatewayTypeOK
      <4>4. CASE d = c
            BY <4>3, <4>4, <3>1, <3>3 DEF Accounted, Departing
      <4>5. CASE d # c
            BY <4>1, <4>3, <4>5, <3>1, <3>3, <2>0 DEF Accounted, Departing
      <4> QED BY <4>4, <4>5
    <3> QED BY <3>2, <3>3
  <2>2. CASE Heard(c, u) \/ Handled(c, u) \/ <<c, u>> \in late
        BY <2>0, <2>2 DEF Accounted, Heard, Handled, EntryOf, Entry
  <2> QED BY <2>1, <2>2 DEF Accounted
<1>4. ASSUME NEW k \in Conns, DropRemove(k)
      PROVE  Accounted(c, u)'
  <2>0. /\ UNCHANGED <<subs, live, pc, req>>
        /\ \A q \in Conns \ {k} : leaving'[q] = leaving[q]
        /\ leaving'[k].at = "next" /\ leaving'[k].seen = leaving[k].seen
        /\ RemoveEntry(<<leaving[k].at, UserOf[k]>>)
        BY <1>4, <1>i DEF DropRemove, sockets, calls, GatewayTypeOK, Entry
  <2>1. <<c, u>> \in late => <<c, u>> \in late'
        BY <2>0 DEF RemoveEntry
  <2>2. leaving[k].at = c /\ UserOf[k] = u => <<c, u>> \in late'
        BY <2>0 DEF RemoveEntry
  <2>3. CASE Departing(c, u)
    <3>1. PICK q \in Conns : /\ UserOf[q] = u
                             /\ \/ leaving[q].at = c
                                \/ /\ leaving[q].at \in Channels \cup {"next"}
                                   /\ c \in subs[q] \ leaving[q].seen
          BY <2>3 DEF Departing
    <3>2. CASE q # k
          BY <2>0, <3>1, <3>2 DEF Accounted, Departing
    <3>3. CASE q = k
          BY <2>0, <2>2, <3>1, <3>3 DEF Accounted, Departing
    <3> QED BY <3>2, <3>3
  <2>4. CASE Heard(c, u) \/ Handled(c, u) \/ <<c, u>> \in late
        BY <2>0, <2>1, <2>4 DEF Accounted, Heard, Handled, EntryOf, Entry
  <2> QED BY <2>3, <2>4 DEF Accounted
\* The steps of a handler that leave presence alone, and only add subscriptions.
<1>g. ASSUME UNCHANGED <<live, leaving>>, \A k \in Conns : subs[k] \subseteq subs'[k],
             late \subseteq late',
             \A r \in Requests : pc[r] \in {"join", "remove"} =>
                 pc'[r] = pc[r] /\ req'[r] = req[r]
      PROVE  Accounted(c, u)'
      BY <1>g DEF Accounted, Heard, Departing, Handled, EntryOf, Entry
<1>a. ASSUME NEW r \in Requests, AddSubscription(r), pc[r] # "idle"
      PROVE  /\ \A k \in Conns : subs[k] \subseteq subs'[k]
             /\ req[r].channel \in subs'[req[r].conn] /\ req[r].conn \in Conns
      BY <1>a, <1>i, KnownFrame DEF AddSubscription, GatewayTypeOK
<1>5. ASSUME NEW r \in Requests, HandleText(r)
      PROVE  Accounted(c, u)'
  <2>1. \A s \in Requests : pc[s] \in {"join", "remove"} => pc'[s] = pc[s] /\ req'[s] = req[s]
        BY <1>5, <1>i DEF HandleText, Moved, Goto, GatewayTypeOK
  <2> QED BY <1>5, <2>1, <1>g DEF HandleText, sockets
<1>6. ASSUME NEW r \in Requests, Subscribe(r)
      PROVE  Accounted(c, u)'
  <2>1. \A s \in Requests : pc[s] \in {"join", "remove"} => pc'[s] = pc[s] /\ req'[s] = req[s]
        BY <1>6, <1>i DEF Subscribe, Asks, Goto, GatewayTypeOK
  <2>2. \A k \in Conns : subs[k] \subseteq subs'[k]
        BY <1>6, <1>a DEF Subscribe, Asks
  <2> QED BY <1>6, <2>1, <2>2, <1>g DEF Subscribe
<1>7. ASSUME NEW r \in Requests, EnsureTable(r)
      PROVE  Accounted(c, u)'
  <2>1. \A s \in Requests : pc[s] \in {"join", "remove"} => pc'[s] = pc[s] /\ req'[s] = req[s]
        BY <1>7, <1>i DEF EnsureTable, Moved, Goto, GatewayTypeOK
  <2>2. \A k \in Conns : subs[k] \subseteq subs'[k]
        BY <1>7, <1>a DEF EnsureTable, Moved
  <2> QED BY <1>7, <2>1, <2>2, <1>g DEF EnsureTable
<1>8. ASSUME NEW r \in Requests, Unsubscribe(r)
      PROVE  Accounted(c, u)'
  <2> DEFINE k == req[r].conn
             d == req[r].channel
  <2>0. /\ k \in Conns /\ d \in Channels /\ UNCHANGED <<live, req, late>>
        /\ subs' = [subs EXCEPT ![k] = @ \ {d}]
        /\ leaving' = [leaving EXCEPT ![k].seen = @ \ {d}]
        /\ pc' = [pc EXCEPT ![r] = IF UserOf[k] = Null THEN "done" ELSE "remove"]
        /\ pc[r] = "limit"
        BY <1>8, <1>i, KnownFrame DEF Unsubscribe, Asks, Goto
  <2>1. CASE d = c /\ UserOf[k] = u
    <3>1. pc'[r] = "remove" /\ EntryOf(r)' = <<c, u>>
          BY <2>0, <2>1, <1>i DEF GatewayTypeOK, EntryOf, Entry
    <3> QED BY <3>1 DEF Accounted, Handled
  <2>2. CASE ~(d = c /\ UserOf[k] = u)
    <3>1. \A q \in Conns : UserOf[q] = u =>
             /\ c \in subs[q] => c \in subs'[q]
             /\ leaving'[q].at = leaving[q].at
             /\ c \notin leaving[q].seen => c \notin leaving'[q].seen
          BY <2>0, <2>2, <1>i DEF GatewayTypeOK
    <3>2. \A s \in Requests : pc[s] \in {"join", "remove"} => pc'[s] = pc[s] /\ req'[s] = req[s]
          BY <2>0, <1>i DEF GatewayTypeOK
    <3>3. Heard(c, u) => Heard(c, u)'
          BY <2>0, <3>1 DEF Heard
    <3>4. Departing(c, u) => Departing(c, u)'
          BY <3>1 DEF Departing
    <3>5. Handled(c, u) => Handled(c, u)'
          BY <3>2 DEF Handled, EntryOf, Entry
    <3> QED BY <2>0, <3>3, <3>4, <3>5 DEF Accounted
  <2> QED BY <2>1, <2>2
<1>9. ASSUME NEW r \in Requests, AskForPresence(r)
      PROVE  Accounted(c, u)'
  <2>1. \A s \in Requests : pc[s] \in {"join", "remove"} => pc'[s] = pc[s] /\ req'[s] = req[s]
        BY <1>9, <1>i DEF AskForPresence, Asks, Goto, GatewayTypeOK
  <2> QED BY <1>9, <2>1, <1>g DEF AskForPresence, sockets
<1>10. ASSUME NEW r \in Requests, Track(r)
       PROVE  Accounted(c, u)'
  <2>1. \A s \in Requests : pc[s] \in {"join", "remove"} => pc'[s] = pc[s] /\ req'[s] = req[s]
        BY <1>10, <1>i DEF Track, Goto, GatewayTypeOK
  <2> QED BY <1>10, <2>1, <1>g DEF Track, sockets
<1>11. ASSUME NEW r \in Requests, Join(r)
       PROVE  Accounted(c, u)'
  <2>0. /\ pc[r] = "join" /\ pc' = [pc EXCEPT ![r] = "done"]
        /\ UNCHANGED <<live, present, req, leaving>>
        /\ late' = IF req[r].conn \in live THEN late ELSE late \cup ({EntryOf(r)} \cap present)
        BY <1>11 DEF Join, Moved, Goto
  <2>1. /\ \A k \in Conns : subs[k] \subseteq subs'[k]
        /\ req[r].channel \in subs'[req[r].conn] /\ req[r].conn \in Conns
        BY <1>11, <2>0, <1>a DEF Join
  <2>2. CASE EntryOf(r) = <<c, u>>
    <3>1. req[r].channel = c /\ UserOf[req[r].conn] = u
          BY <2>2 DEF EntryOf, Entry
    <3>2. CASE req[r].conn \in live
          BY <2>0, <2>1, <3>1, <3>2 DEF Accounted, Heard
    <3>3. CASE req[r].conn \notin live
          BY <2>0, <2>2, <3>3 DEF Accounted
    <3> QED BY <3>2, <3>3
  <2>3. CASE EntryOf(r) # <<c, u>>
    <3>1. Handled(c, u) => Handled(c, u)'
          BY <2>0, <2>3, <1>i DEF Handled, EntryOf, Entry, GatewayTypeOK
    <3>2. Heard(c, u) => Heard(c, u)'
          BY <2>0, <2>1 DEF Heard
    <3>3. Departing(c, u) => Departing(c, u)'
          BY <2>0, <2>1 DEF Departing
    <3> QED BY <2>0, <3>1, <3>2, <3>3 DEF Accounted
  <2> QED BY <2>2, <2>3
<1>12. ASSUME NEW r \in Requests, Remove(r)
       PROVE  Accounted(c, u)'
  <2>0. /\ pc' = [pc EXCEPT ![r] = "done"] /\ UNCHANGED <<live, subs, req, leaving>>
        /\ RemoveEntry(EntryOf(r))
        BY <1>12 DEF Remove, Moved, Goto, sockets
  <2>1. CASE EntryOf(r) = <<c, u>> \/ <<c, u>> \in late
        BY <2>0, <2>1 DEF RemoveEntry, Accounted
  <2>2. CASE EntryOf(r) # <<c, u>> /\ <<c, u>> \notin late
    <3>1. Handled(c, u) => Handled(c, u)'
          BY <2>0, <2>2, <1>i DEF Handled, EntryOf, Entry, GatewayTypeOK
    <3>2. Heard(c, u) => Heard(c, u)'
          BY <2>0 DEF Heard
    <3>3. Departing(c, u) => Departing(c, u)'
          BY <2>0 DEF Departing
    <3> QED BY <2>0, <2>2, <3>1, <3>2, <3>3 DEF Accounted
  <2> QED BY <2>1, <2>2
<1>13. ASSUME NEW d \in Channels, RoomExpires(d)
       PROVE  Accounted(c, u)'
  <2>1. c # d
        BY <1>13 DEF RoomExpires
  <2>2. <<c, u>> \in late => <<c, u>> \in late'
        BY <1>13, <2>1 DEF RoomExpires
  <2> QED BY <1>13, <2>2 DEF RoomExpires, sockets, calls, Accounted, Heard, Departing, Handled, EntryOf, Entry
<1>14. ASSUME NEW m \in Changes, Publish(m) \/ Deliver(m)
       PROVE  Accounted(c, u)'
       BY <1>14 DEF Publish, Deliver, sockets, calls, Accounted, Heard, Departing, Handled, EntryOf, Entry
<1>15. ASSUME UNCHANGED gatewayVars
       PROVE  Accounted(c, u)'
       BY <1>15 DEF gatewayVars, sockets, calls, Accounted, Heard, Departing, Handled, EntryOf, Entry
<1> QED BY <1>1, <1>2, <1>3, <1>4, <1>5, <1>6, <1>7, <1>8, <1>9, <1>10, <1>11, <1>12, <1>13, <1>14,
           <1>15 DEF GatewayNext, Handle

\* An entry is made by a frame that is about to join its channel.
LEMMA NewEntriesAreAccounted ==
    ASSUME GatewayInv, [GatewayNext]_gatewayVars,
           NEW c \in Channels, NEW u \in Users, <<c, u>> \notin present, <<c, u>> \in present'
    PROVE  Accounted(c, u)'
<1>1. PICK r \in Requests : Track(r) /\ present' = present \cup {EntryOf(r)} /\ Goto(r, "join")
      BY DEF GatewayNext, Handle, Register, Drop, DropNext, DropRemove, HandleText, Subscribe,
             EnsureTable, Unsubscribe, AskForPresence, Track, Join, Remove, RemoveEntry, RoomExpires,
             Publish, Deliver, gatewayVars
<1>2. pc'[r] = "join" /\ req' = req
      BY <1>1 DEF Track, Goto, GatewayInv, GatewayTypeOK
<1>3. EntryOf(r) = <<c, u>>
      BY <1>1
<1> QED BY <1>2, <1>3 DEF Accounted, Handled, EntryOf, Entry

LEMMA PresentStep ==
    ASSUME GatewayInv, PresentMeansListening, [GatewayNext]_gatewayVars
    PROVE  PresentMeansListening'
<1>1. GatewayTypeOK /\ GatewayTypeOK'
      BY GatewayTypeStep DEF GatewayInv
<1>2. \A c \in Channels, u \in Users : <<c, u>> \in present => Accounted(c, u)
      BY <1>1, PresentMeansAccounted
<1>3. \A c \in Channels, u \in Users : <<c, u>> \in present' => Accounted(c, u)'
      BY <1>2, AccountedStep, NewEntriesAreAccounted
<1>4. (GatewayTypeOK => (PresentMeansListening
              <=> \A c \in Channels, u \in Users : <<c, u>> \in present => Accounted(c, u)))'
      BY PresentMeansAccounted, PTL
<1> QED BY <1>1, <1>3, <1>4

-----------------------------------------------------------------------------
(* The limit of subscriptions.                                             *)

\* The subscriptions past the limit that have a reason.
Excused(k) ==
    {r \in Requests : /\ pc[r] = "done" /\ req[r].conn = k
                      /\ req[r].kind = "presence.set" \/ r \in crowded}

LEMMA ExcusedIsFinite ==
    ASSUME NEW k
    PROVE  IsFiniteSet(Excused(k)) /\ Cardinality(Excused(k)) \in Nat
<1>1. Excused(k) \subseteq Requests
      BY DEF Excused
<1> QED BY <1>1, GatewayAssumption, FS_Subset, FS_CardinalityType

\* Frames end once, and what was counted stays counted.
LEMMA CrowdingStays ==
    ASSUME GatewayInv, [GatewayNext]_gatewayVars
    PROVE  /\ crowded \subseteq crowded'
           /\ \A r \in Requests : pc[r] # "idle" => req'[r] = req[r]
           /\ \A r \in Requests : pc[r] = "done" => pc'[r] = "done"
<1> USE DEF GatewayInv, GatewayTypeOK
<1>1. ASSUME NEW r \in Requests, Handle(r)
      PROVE  /\ crowded \subseteq crowded'
             /\ \A s \in Requests : pc[s] # "idle" => req'[s] = req[s]
             /\ \A s \in Requests : pc[s] = "done" => pc'[s] = "done"
  <2>1. crowded \subseteq crowded'
        BY <1>1 DEF Handle, HandleText, Subscribe, EnsureTable, Unsubscribe, AskForPresence, Track,
                    Join, Remove, AddSubscription
  <2>2. \A s \in Requests : pc[s] # "idle" => req'[s] = req[s]
        BY <1>1 DEF Handle, HandleText, Subscribe, EnsureTable, Unsubscribe, AskForPresence, Track,
                    Join, Remove, Moved
  <2>3. \E label : Goto(r, label) /\ pc[r] # "done"
        BY <1>1 DEF Handle, HandleText, Subscribe, EnsureTable, Unsubscribe, AskForPresence, Track,
                    Join, Remove, Moved, Asks
  <2> QED BY <2>1, <2>2, <2>3 DEF Goto
<1>2. ASSUME NEW k \in Conns, Register(k) \/ Drop(k) \/ DropNext(k) \/ DropRemove(k)
      PROVE  UNCHANGED <<crowded, pc, req>>
      BY <1>2 DEF Register, Drop, DropNext, DropRemove, calls
<1>3. ASSUME NEW c \in Channels, RoomExpires(c)
      PROVE  UNCHANGED <<crowded, pc, req>>
      BY <1>3 DEF RoomExpires, calls
<1>4. ASSUME NEW m \in Changes, Publish(m) \/ Deliver(m)
      PROVE  UNCHANGED <<crowded, pc, req>>
      BY <1>4 DEF Publish, Deliver, calls
<1>5. ASSUME UNCHANGED gatewayVars
      PROVE  UNCHANGED <<crowded, pc, req>>
      BY <1>5 DEF gatewayVars, calls
<1> QED BY <1>1, <1>2, <1>3, <1>4, <1>5 DEF GatewayNext

LEMMA ExcusesStay ==
    ASSUME GatewayInv, [GatewayNext]_gatewayVars, NEW k
    PROVE  /\ Excused(k) \subseteq Excused(k)'
           /\ Cardinality(Excused(k)) <= Cardinality(Excused(k)')
           /\ Cardinality(Excused(k)') \in Nat
           /\ \A r \in Excused(k)' : r \notin Excused(k) =>
                 Cardinality(Excused(k)) + 1 <= Cardinality(Excused(k)')
<1>1. Excused(k) \subseteq Excused(k)' /\ Excused(k)' \subseteq Requests
      BY CrowdingStays DEF Excused
<1>2. IsFiniteSet(Excused(k)') /\ IsFiniteSet(Excused(k)) /\ Cardinality(Excused(k)) \in Nat
      BY <1>1, GatewayAssumption, FS_Subset, ExcusedIsFinite
<1>3. Cardinality(Excused(k)) <= Cardinality(Excused(k)') /\ Cardinality(Excused(k)') \in Nat
      BY <1>1, <1>2, FS_Subset, FS_CardinalityType
<1>4. ASSUME NEW r \in Excused(k)', r \notin Excused(k)
      PROVE  Cardinality(Excused(k)) + 1 <= Cardinality(Excused(k)')
  <2>1. Cardinality(Excused(k) \cup {r}) = Cardinality(Excused(k)) + 1
        BY <1>2, <1>4, FS_AddElement
  <2>2. Excused(k) \cup {r} \subseteq Excused(k)'
        BY <1>1, <1>4
  <2> QED BY <1>2, <2>1, <2>2, FS_Subset
<1> QED BY <1>1, <1>3, <1>4

\* What a step does to the subscriptions of one connection: it may take some
\* away, or add the channel of one frame, after which every subscription that
\* was counted and waits is crowded.
LEMMA SubscriptionSteps ==
    ASSUME GatewayInv, [GatewayNext]_gatewayVars, NEW k \in Conns
    PROVE  \/ subs'[k] \subseteq subs[k]
           \/ \E r \in Requests :
                 /\ req[r].conn = k /\ req'[r] = req[r] /\ subs'[k] = subs[k] \cup {req[r].channel}
                 /\ \A s \in Requests \ {r} : pc[s] = "ensure" /\ req[s].conn = k => s \in crowded'
                 /\ pc[r] # "done" /\ pc'[r] = "done"
                 /\ \/ HasRoom(k)
                    \/ pc[r] = "ensure"
                    \/ req[r].kind = "presence.set"
<1>i. GatewayTypeOK /\ FrameInv
      BY DEF GatewayInv
<1>a. ASSUME NEW r \in Requests, AddSubscription(r), pc[r] \notin {"idle", "done"},
             pc' = [pc EXCEPT ![r] = "done"], req' = req,
             HasRoom(req[r].conn) \/ pc[r] = "ensure" \/ req[r].kind = "presence.set"
      PROVE  \/ subs'[k] \subseteq subs[k]
             \/ /\ req[r].conn = k /\ req'[r] = req[r] /\ subs'[k] = subs[k] \cup {req[r].channel}
                /\ \A s \in Requests \ {r} : pc[s] = "ensure" /\ req[s].conn = k => s \in crowded'
                /\ pc[r] # "done" /\ pc'[r] = "done"
                /\ HasRoom(k) \/ pc[r] = "ensure" \/ req[r].kind = "presence.set"
  <2>1. req[r].conn \in Conns /\ pc'[r] = "done"
        BY <1>a, <1>i, KnownFrame DEF GatewayTypeOK
  <2>2. CASE req[r].conn = k
        BY <1>a, <1>i, <2>1, <2>2 DEF AddSubscription, GatewayTypeOK
  <2>3. CASE req[r].conn # k
        BY <1>a, <1>i, <2>1, <2>3 DEF AddSubscription, GatewayTypeOK
  <2> QED BY <2>2, <2>3
<1>1. ASSUME NEW r \in Requests, Subscribe(r), subs' # subs
      PROVE  AddSubscription(r) /\ HasRoom(req[r].conn) /\ Goto(r, "done") /\ req' = req /\ pc[r] = "limit"
      BY <1>1 DEF Subscribe, Asks
<1>2. ASSUME NEW r \in Requests, EnsureTable(r), subs' # subs
      PROVE  AddSubscription(r) /\ Goto(r, "done") /\ req' = req /\ pc[r] = "ensure"
      BY <1>2 DEF EnsureTable, Moved
<1>3. ASSUME NEW r \in Requests, Join(r)
      PROVE  AddSubscription(r) /\ Goto(r, "done") /\ req' = req /\ pc[r] = "join" /\ req[r].kind = "presence.set"
      BY <1>3, <1>i DEF Join, Moved, FrameInv
<1>4. ASSUME NEW r \in Requests, Unsubscribe(r)
      PROVE  subs'[k] \subseteq subs[k]
      BY <1>4, <1>i DEF Unsubscribe, GatewayTypeOK
<1>5. CASE subs' = subs
      BY <1>5
<1>6. CASE subs' # subs
  <2>1. \E r \in Requests : Subscribe(r) \/ EnsureTable(r) \/ Join(r) \/ Unsubscribe(r)
        BY <1>6 DEF GatewayNext, Handle, Register, Drop, DropNext, DropRemove, HandleText,
                    AskForPresence, Track, Remove, RoomExpires, Publish, Deliver, gatewayVars, sockets
  <2> QED BY <1>6, <2>1, <1>1, <1>2, <1>3, <1>4, <1>a DEF Goto
<1> QED BY <1>5, <1>6

LEMMA RoomStep ==
    ASSUME GatewayInv, RoomInv, [GatewayNext]_gatewayVars
    PROVE  RoomInv'
<1>i. GatewayTypeOK /\ FrameInv /\ GatewayTypeOK' /\ FrameInv' /\ MaxSubs \in Nat
      BY GatewayInvStep, GatewayAssumption DEF GatewayInv
<1>1. ASSUME NEW k \in Conns
      PROVE  /\ IsFiniteSet(subs'[k])
             /\ Cardinality(subs[k]) \in Nat /\ Cardinality(subs'[k]) \in Nat
             /\ subs'[k] \subseteq subs[k] => Cardinality(subs'[k]) <= Cardinality(subs[k])
  <2>1. IsFiniteSet(subs[k])
        BY DEF RoomInv
  <2>2. CASE subs'[k] \subseteq subs[k]
        BY <2>1, <2>2, FS_Subset, FS_CardinalityType
  <2>3. ASSUME NEW c, subs'[k] = subs[k] \cup {c}
        PROVE  IsFiniteSet(subs'[k]) /\ Cardinality(subs[k]) \in Nat /\ Cardinality(subs'[k]) \in Nat
        BY <2>1, <2>3, FS_AddElement, FS_CardinalityType
  <2> QED BY <2>2, <2>3, SubscriptionSteps
<1>2. ASSUME NEW r \in Requests, pc'[r] = "ensure", r \notin crowded'
      PROVE  Cardinality(subs'[req'[r].conn]) < MaxSubs
  <2> DEFINE k == req'[r].conn
  <2>1. req'[r] \in Frames /\ k \in Conns
    <3>1. req'[r] \in Frames
          BY <1>2, <1>i DEF FrameInv
    <3> QED BY <3>1 DEF Frames
  <2>2. r \notin crowded
        BY <1>2, CrowdingStays
  <2>3. CASE pc[r] = "ensure"
    <3>1. req'[r] = req[r]
          BY <2>3, CrowdingStays
    <3>2. Cardinality(subs[k]) < MaxSubs
          BY <2>2, <2>3, <3>1 DEF RoomInv
    <3>3. subs'[k] \subseteq subs[k]
      <4>1. ~\E s \in Requests :
               /\ req[s].conn = k
               /\ \A q \in Requests \ {s} : pc[q] = "ensure" /\ req[q].conn = k => q \in crowded'
               /\ pc'[s] = "done"
            BY <1>2, <2>3, <3>1
      <4> QED BY <4>1, <2>1, SubscriptionSteps
    <3> QED BY <1>1, <1>i, <2>1, <3>2, <3>3
  <2>4. CASE pc[r] # "ensure"
    <3>1. \E s \in Requests : Subscribe(s) /\ HasRoom(req[s].conn) /\ Goto(s, "ensure") /\ s = r
      <4>1. PICK s \in Requests : Handle(s)
        <5>1. pc' # pc
              BY <1>2, <2>4
        <5> QED BY <5>1 DEF GatewayNext, Register, Drop, DropNext, DropRemove, RoomExpires, Publish,
                            Deliver, gatewayVars, calls
      <4>2. \E label : Goto(s, label)
            BY <4>1 DEF Handle, HandleText, Subscribe, EnsureTable, Unsubscribe, AskForPresence, Track,
                        Join, Remove, Moved
      <4>3. s = r
            BY <4>2, <1>2, <2>4, <1>i DEF Goto, GatewayTypeOK
      <4>4. \A label : Goto(s, label) => label = "ensure"
            BY <4>3, <1>2, <1>i DEF Goto, GatewayTypeOK
      <4>5. Subscribe(s) /\ HasRoom(req[s].conn) /\ Goto(s, "ensure")
            BY <4>1, <4>4 DEF Handle, HandleText, Subscribe, EnsureTable, Unsubscribe, AskForPresence,
                              Track, Join, Remove, Moved
      <4> QED BY <4>3, <4>5
    <3>2. /\ Subscribe(r) /\ HasRoom(req[r].conn) /\ Goto(r, "ensure")
          BY <3>1
    <3>3. ~Goto(r, "done")
          BY <1>2, <1>i DEF Goto, GatewayTypeOK
    <3>4. subs' = subs /\ req' = req
          BY <3>2, <3>3 DEF Subscribe
    <3> QED BY <3>2, <3>4 DEF HasRoom
  <2> QED BY <2>3, <2>4
<1> QED BY <1>1, <1>2 DEF RoomInv

LEMMA OvershootStep ==
    ASSUME GatewayInv, RoomInv, OvershootHasAReason, [GatewayNext]_gatewayVars
    PROVE  OvershootHasAReason'
<1> SUFFICES ASSUME NEW k \in Conns
             PROVE  Cardinality(subs'[k]) <= MaxSubs + Cardinality(Excused(k)')
    BY DEF OvershootHasAReason, Excused
<1>i. /\ GatewayTypeOK /\ FrameInv /\ MaxSubs \in Nat /\ IsFiniteSet(subs[k])
      /\ Cardinality(subs[k]) \in Nat
      BY GatewayAssumption, FS_CardinalityType DEF GatewayInv, RoomInv
<1>h. Cardinality(subs[k]) <= MaxSubs + Cardinality(Excused(k))
      BY DEF OvershootHasAReason, Excused
<1>e. /\ Cardinality(Excused(k)) \in Nat /\ Cardinality(Excused(k)') \in Nat
      /\ Cardinality(Excused(k)) <= Cardinality(Excused(k)')
      /\ \A r \in Excused(k)' : r \notin Excused(k) =>
            Cardinality(Excused(k)) + 1 <= Cardinality(Excused(k)')
      BY ExcusedIsFinite, ExcusesStay
<1>1. CASE subs'[k] \subseteq subs[k]
  <2>1. Cardinality(subs'[k]) <= Cardinality(subs[k]) /\ Cardinality(subs'[k]) \in Nat
        BY <1>1, <1>i, FS_Subset, FS_CardinalityType
  <2> QED BY <2>1, <1>i, <1>h, <1>e
<1>2. ASSUME NEW r \in Requests,
             req[r].conn = k, req'[r] = req[r], subs'[k] = subs[k] \cup {req[r].channel},
             pc[r] # "done", pc'[r] = "done",
             HasRoom(k) \/ pc[r] = "ensure" \/ req[r].kind = "presence.set"
      PROVE  Cardinality(subs'[k]) <= MaxSubs + Cardinality(Excused(k)')
  <2>1. Cardinality(subs'[k]) \in Nat /\ Cardinality(subs'[k]) <= Cardinality(subs[k]) + 1
    <3>1. \/ Cardinality(subs[k] \cup {req[r].channel}) = Cardinality(subs[k])
          \/ Cardinality(subs[k] \cup {req[r].channel}) = Cardinality(subs[k]) + 1
          BY <1>i, FS_AddElement
    <3> QED BY <3>1, <1>2, <1>i
  <2>2. CASE Cardinality(subs[k]) < MaxSubs
        BY <2>1, <2>2, <1>i, <1>e
  <2>3. CASE r \in crowded \/ req[r].kind = "presence.set"
    <3>1. r \notin Excused(k) /\ r \in Excused(k)'
          BY <1>2, <2>3, CrowdingStays DEF Excused
    <3>2. Cardinality(Excused(k)) + 1 <= Cardinality(Excused(k)')
          BY <3>1, <1>e
    <3> QED BY <3>2, <2>1, <1>i, <1>h, <1>e
  <2>4. pc[r] = "ensure" /\ r \notin crowded => Cardinality(subs[k]) < MaxSubs
        BY <1>2 DEF RoomInv
  <2> QED BY <1>2, <2>2, <2>3, <2>4 DEF HasRoom
<1> QED BY <1>1, <1>2, SubscriptionSteps

-----------------------------------------------------------------------------
(* The fan-out of a change.                                                *)

LEMMA SteadyStep ==
    ASSUME GatewayInv, SteadyInv, [GatewayNext]_gatewayVars
    PROVE  SteadyInv'
<1>i. GatewayTypeOK /\ FrameInv /\ SocketInv /\ Len(arrived) \in Nat
      BY DEF GatewayInv, GatewayTypeOK
<1> DEFINE Served(m, k) == k \in live /\ fanOut[m].channel \in subs[k] /\ (k \in got[m] \/ Ahead(m, k))
\* Steps that leave a change's fan-out alone, and hide none of its subscribers.
<1>k. ASSUME UNCHANGED <<fanOut, got>>,
             Len(arrived) <= Len(arrived'), Len(arrived') \in Nat,
             \A i \in 1 .. Len(arrived) : arrived'[i] = arrived[i],
             \A m \in Changes : fanOut[m].channel # Null =>
                 /\ steady'[m] \subseteq steady[m]
                 /\ \A k \in steady'[m] :
                       k \in live /\ fanOut[m].channel \in subs[k] =>
                           k \in live' /\ fanOut[m].channel \in subs'[k]
      PROVE  SteadyInv'
  <2> SUFFICES ASSUME NEW m \in Changes, fanOut[m].channel # Null, NEW k \in steady'[m]
               PROVE  Served(m, k)'
      BY <1>k DEF SteadyInv
  <2>1. Served(m, k)
        BY <1>k DEF SteadyInv
  <2>2. k \in live' /\ fanOut'[m].channel \in subs'[k]
        BY <1>k, <2>1
  <2>3. Ahead(m, k) => Ahead(m, k)'
    <3> SUFFICES ASSUME Ahead(m, k)
                 PROVE  Ahead(m, k)'
        OBVIOUS
    <3>1. PICK i \in fanOut[m].at .. Len(arrived) : arrived[i] = k
          BY DEF Ahead
    <3>2. fanOut[m].at # 0 /\ fanOut[m].at \in Nat
          BY <1>i DEF Ahead, SocketInv
    <3>3. i \in 1 .. Len(arrived) /\ i \in fanOut[m].at .. Len(arrived')
          BY <3>1, <3>2, <1>i, <1>k
    <3> QED BY <1>k, <3>1, <3>2, <3>3 DEF Ahead
  <2> QED BY <1>k, <2>1, <2>2, <2>3
<1>1. ASSUME NEW k \in Conns, Register(k)
      PROVE  SteadyInv'
  <2>1. Len(arrived') = Len(arrived) + 1 /\ \A i \in 1 .. Len(arrived) : arrived'[i] = arrived[i]
        BY <1>1, <1>i, AppendRange DEF Register, GatewayTypeOK
  <2> QED BY <1>1, <2>1, <1>k, <1>i DEF Register, feed
<1>2. ASSUME NEW k \in Conns, Drop(k)
      PROVE  SteadyInv'
  <2>1. \A m \in Changes : fanOut[m].channel # Null => fanOut[m].channel \in Tables
        BY <1>i DEF GatewayTypeOK
  <2>2. \A m \in Changes : fanOut[m].channel # Null => steady'[m] = steady[m] \ {k}
        BY <1>2, <2>1 DEF Drop, NotSteady
  <2> QED BY <1>2, <2>2, <1>k, <1>i DEF Drop
<1>3. ASSUME NEW k \in Conns, DropNext(k) \/ DropRemove(k)
      PROVE  SteadyInv'
      BY <1>3, <1>k, <1>i DEF DropNext, DropRemove, sockets, feed
<1>4. ASSUME NEW r \in Requests, Handle(r), ~Unsubscribe(r)
      PROVE  SteadyInv'
  <2>1. \A k \in Conns : subs[k] \subseteq subs'[k]
    <3>1. CASE subs' = subs
          BY <3>1
    <3>2. CASE AddSubscription(r) /\ pc[r] # "idle"
          BY <3>2, <1>i, KnownFrame DEF AddSubscription, GatewayTypeOK
    <3> QED BY <1>4, <3>1, <3>2 DEF Handle, HandleText, Subscribe, Asks, EnsureTable, AskForPresence,
                                    Track, Join, Remove, Moved, sockets
  <2>2. UNCHANGED <<arrived, live, fanOut, got, steady>>
        BY <1>4 DEF Handle, HandleText, Subscribe, EnsureTable, AskForPresence, Track, Join, Remove,
                    sockets, feed
  <2>3. live \subseteq Conns
        BY <1>i DEF GatewayTypeOK, Range
  <2> QED BY <2>1, <2>2, <2>3, <1>k, <1>i
<1>5. ASSUME NEW r \in Requests, Unsubscribe(r)
      PROVE  SteadyInv'
  <2> DEFINE k == req[r].conn
             c == req[r].channel
  <2>1. /\ UNCHANGED <<arrived, live, fanOut, got>> /\ k \in Conns
        /\ subs' = [subs EXCEPT ![k] = @ \ {c}]
        BY <1>5, <1>i, KnownFrame DEF Unsubscribe, Asks
  <2>2. \A m \in Changes : steady'[m] = IF fanOut[m].channel = c THEN steady[m] \ {k} ELSE steady[m]
        BY <1>5 DEF Unsubscribe, NotSteady
  <2>3. \A m \in Changes : /\ steady'[m] \subseteq steady[m]
                           /\ \A q \in steady'[m] : q # k \/ fanOut[m].channel # c
        BY <2>2
  <2>4. live \subseteq Conns
        BY <1>i DEF GatewayTypeOK, Range
  <2> HIDE DEF k, c
  <2>5. \A q \in Conns : \A d : d \in subs[q] /\ (q # k \/ d # c) => d \in subs'[q]
        BY <2>1, <1>i DEF GatewayTypeOK
  <2> QED BY <2>1, <2>3, <2>4, <2>5, <1>k, <1>i
<1>6. ASSUME NEW c \in Channels, RoomExpires(c)
      PROVE  SteadyInv'
      BY <1>6, <1>k, <1>i DEF RoomExpires, sockets, feed
\* A fan-out that starts, or goes on.
<1>f. ASSUME NEW m \in Changes, UNCHANGED sockets,
             \A q \in Changes \ {m} : /\ fanOut'[q] = fanOut[q] /\ got'[q] = got[q]
                                      /\ steady'[q] = steady[q],
             fanOut'[m].channel # Null => \A k \in steady'[m] : Served(m, k)'
      PROVE  SteadyInv'
  <2> SUFFICES ASSUME NEW q \in Changes, fanOut'[q].channel # Null, NEW k \in steady'[q]
               PROVE  Served(q, k)'
      BY DEF SteadyInv
  <2>1. CASE q = m
        BY <2>1, <1>f
  <2>2. CASE q # m
        BY <2>2, <1>f DEF SteadyInv, Ahead, sockets
  <2> QED BY <2>1, <2>2
<1>7. ASSUME NEW m \in Changes, Publish(m)
      PROVE  SteadyInv'
  <2>1. PICK c \in Tables : /\ fanOut' = [fanOut EXCEPT ![m] = [channel |-> c, at |-> After(c, 0)]]
                            /\ steady' = [steady EXCEPT ![m] = {k \in live : c \in subs[k]}]
        BY <1>7 DEF Publish
  <2>2. fanOut'[m].channel = c /\ fanOut'[m].at = After(c, 0) /\ steady'[m] = {k \in live : c \in subs[k]}
        BY <2>1, <1>i DEF GatewayTypeOK
  <2>3. ASSUME NEW k \in live, c \in subs[k]
        PROVE  Ahead(m, k)'
    <3>1. PICK i \in 1 .. Len(arrived) : arrived[i] = k
      <4>1. k \in Range(arrived) /\ DOMAIN arrived = 1 .. Len(arrived)
            BY <1>i DEF GatewayTypeOK
      <4> QED BY <4>1 DEF Range
    <3>2. c \in Channels
          BY GatewayAssumption
    <3>3. i \in 0 + 1 .. Len(arrived)
          OBVIOUS
    <3>4. After(c, 0) \in 0 .. Len(arrived) /\ After(c, 0) # 0 /\ After(c, 0) <= i
          BY <2>3, <3>1, <3>2, <3>3, <1>i, AfterIsNext
    <3>5. i \in After(c, 0) .. Len(arrived)
          BY <3>4, <1>i
    <3> QED BY <1>7, <2>2, <3>1, <3>4, <3>5 DEF Ahead, Publish, sockets
  <2>4. \A k \in steady'[m] : Served(m, k)'
        BY <1>7, <2>2, <2>3 DEF Publish, sockets
  <2>5. \A q \in Changes \ {m} : fanOut'[q] = fanOut[q] /\ got'[q] = got[q] /\ steady'[q] = steady[q]
        BY <1>7, <2>1, <1>i DEF Publish, GatewayTypeOK
  <2> QED BY <1>7, <2>4, <2>5, <1>f DEF Publish
<1>8. ASSUME NEW m \in Changes, Deliver(m)
      PROVE  SteadyInv'
  <2> DEFINE c == fanOut[m].channel
             p == fanOut[m].at
  <2>1. p # 0 /\ p \in 1 .. Len(arrived) /\ c \in Channels /\ c # Null
        BY <1>8, <1>i, GatewayAssumption DEF Deliver, SocketInv, GatewayTypeOK
  <2>2. /\ fanOut'[m].channel = c /\ fanOut'[m].at = After(c, p)
        /\ got'[m] = got[m] \cup {arrived[p]} /\ steady' = steady
        /\ UNCHANGED sockets
        BY <1>8, <1>i DEF Deliver, GatewayTypeOK
  <2>3. ASSUME NEW k \in steady[m]
        PROVE  Served(m, k)'
    <3>1. k \in live /\ c \in subs[k] /\ (k \in got[m] \/ Ahead(m, k))
          BY <2>1 DEF SteadyInv
    <3>2. CASE k \in got[m]
          BY <2>2, <3>1, <3>2 DEF sockets
    <3>3. CASE Ahead(m, k)
      <4>1. PICK i \in p .. Len(arrived) : arrived[i] = k
            BY <3>3 DEF Ahead
      <4>2. CASE i = p
            BY <2>2, <3>1, <4>1, <4>2 DEF sockets
      <4>3. CASE i # p
        <5>1. i \in p + 1 .. Len(arrived) /\ p \in Nat
              BY <2>1, <4>1, <4>3, <1>i
        <5>2. After(c, p) \in 0 .. Len(arrived) /\ After(c, p) # 0 /\ After(c, p) <= i
          <6> HIDE DEF c, p
          <6> QED BY <2>1, <3>1, <4>1, <5>1, <1>i, AfterIsNext
        <5>3. i \in After(c, p) .. Len(arrived)
              BY <5>1, <5>2, <1>i
        <5>4. Ahead(m, k)'
              BY <2>2, <4>1, <5>2, <5>3 DEF Ahead, sockets
        <5> QED BY <2>2, <3>1, <5>4 DEF sockets
      <4> QED BY <4>2, <4>3
    <3> QED BY <3>1, <3>2, <3>3
  <2>4. \A q \in Changes \ {m} : fanOut'[q] = fanOut[q] /\ got'[q] = got[q] /\ steady'[q] = steady[q]
        BY <1>8, <1>i DEF Deliver, GatewayTypeOK
  <2> QED BY <2>2, <2>3, <2>4, <1>f
<1>9. ASSUME UNCHANGED gatewayVars
      PROVE  SteadyInv'
      BY <1>9, <1>k, <1>i DEF gatewayVars, sockets, feed
<1> QED BY <1>1, <1>2, <1>3, <1>4, <1>5, <1>6, <1>7, <1>8, <1>9 DEF GatewayNext

-----------------------------------------------------------------------------
(* The theorems.                                                           *)

LEMMA GatewayInvHolds == GatewaySpec => []GatewayInv
BY GatewayTypeInit, GatewayInvStep, PTL DEF GatewaySpec

\* Positions, entries and frames keep their types: a fan-out always stands at a
\* connection that registered, and presence only ever holds users.
THEOREM GatewayTypeCorrect == GatewaySpec => []GatewayTypeOK
BY GatewayInvHolds, PTL DEF GatewayInv

\* Whoever is present listens on some connection, or is being removed, or was
\* entered or left behind by a step that is on record.
THEOREM ThePresentListen == GatewaySpec => []PresentMeansListening
<1>1. GatewayInit => PresentMeansListening
      BY DEF GatewayInit, PresentMeansListening
<1>2. GatewayInv /\ PresentMeansListening /\ [GatewayNext]_gatewayVars => PresentMeansListening'
      BY PresentStep
<1> QED BY <1>1, <1>2, GatewayInvHolds, PTL DEF GatewaySpec

\* The limit of subscriptions is passed at most once for each presence.set and
\* each subscription that was overtaken while its table was looked up.
THEOREM OvershootsHaveAReason == GatewaySpec => []OvershootHasAReason
<1>1. GatewayInit => RoomInv /\ OvershootHasAReason
  <2> SUFFICES ASSUME GatewayInit
               PROVE  RoomInv /\ OvershootHasAReason
      OBVIOUS
  <2>1. \A k \in Conns : subs[k] = {}
        BY DEF GatewayInit
  <2>2. \A k \in Conns : IsFiniteSet(subs[k]) /\ Cardinality(subs[k]) = 0
        BY <2>1, FS_EmptySet
  <2>3. \A k \in Conns : Cardinality(Excused(k)) \in Nat
        BY ExcusedIsFinite
  <2>4. \A k \in Conns : Cardinality(subs[k]) <= MaxSubs + Cardinality(Excused(k))
        BY <2>2, <2>3, GatewayAssumption
  <2> QED BY <2>2, <2>4 DEF GatewayInit, RoomInv, OvershootHasAReason, Excused
<1>2. /\ GatewayInv /\ RoomInv /\ OvershootHasAReason /\ [GatewayNext]_gatewayVars
      => RoomInv' /\ OvershootHasAReason'
      BY RoomStep, OvershootStep
<1> QED BY <1>1, <1>2, GatewayInvHolds, PTL DEF GatewaySpec

\* Whoever was subscribed when a change was published, and stayed, has got it
\* when its fan-out ends, however many connections come and go meanwhile.
THEOREM SteadySubscribersGetTheChange == GatewaySpec => []SteadySubscribersAreServed
<1>1. GatewayInit => SteadyInv
      BY DEF GatewayInit, SteadyInv
<1>2. GatewayInv /\ SteadyInv /\ [GatewayNext]_gatewayVars => SteadyInv'
      BY SteadyStep
<1>3. SteadyInv => SteadySubscribersAreServed
      BY DEF SteadyInv, SteadySubscribersAreServed, Ahead
<1> QED BY <1>1, <1>2, <1>3, GatewayInvHolds, PTL DEF GatewaySpec
=============================================================================
