------------------------------ MODULE Schedules ------------------------------
(***************************************************************************)
(* Cron schedules of packages/automation on the Drizzle store: the worker  *)
(* lists what is due and invokes it, managers create, change, trigger and  *)
(* delete.                                                                 *)
(*                                                                         *)
(* Time is counted in half minutes: an even instant is a minute's start,   *)
(* an odd one its last second.  A cron expression is the set of minutes it *)
(* matches, and stored run times are minutes.                              *)
(***************************************************************************)
EXTENDS Naturals, FiniteSets

CONSTANTS
    Schedules,
    Minutes,        \* per cron expression: the minutes it matches
    Horizon,        \* nextRun searches that far ahead (a year)
    MaxTime,        \* bound: the clock stops there
    Limit,          \* schedules a worker pass lists (25)
    Patches,        \* PATCH requests that change the expression
    Triggers,       \* POST trigger requests
    MaxRequests,    \* bound: PATCH and trigger requests sent
    MaxRestarts,    \* bound: restarts of the worker
    MaxMisses,      \* bound: invoked runs that the store does not record
    Null

Crons == DOMAIN Minutes
Minute(t) == t \div 2
AllMinutes == 0 .. Minute(MaxTime) + Horizon + 1

Entry == [s : Schedules, cron : Crons, next : AllMinutes]

ASSUME CronAssumption ==
    /\ Minutes \in [Crons -> SUBSET Nat]
    /\ Horizon \in Nat \ {0} /\ MaxTime \in Nat /\ Limit \in Nat \ {0}
    /\ MaxRequests \in Nat /\ MaxRestarts \in Nat /\ MaxMisses \in Nat
    /\ Null \notin Schedules \cup Crons \cup Nat \cup Entry

VARIABLES
    now,
    mode,     \* of each schedule row: "none", "on", "off", "gone"
    cron, nextRun,
    due,        \* the worker's list: [s, cron, next] as read
    listTime,   \* when it read them; 0 between passes
    running,    \* the entry it is invoking, or Null
    ppc, ptarget, pcron, pnext,     \* per PATCH: where it stands, what it writes
    tpc, ttarget, tnext,            \* per trigger: the same
    invoked,    \* history: pairs of a schedule and the minute it was due
    repeated,   \* history: those invoked more than once
    unmarked,   \* history: those whose recording failed
    crossed,    \* history: schedules two of whose triggers were under way at once
    restarts

table   == <<mode, cron, nextRun>>
worker  == <<due, listTime, running>>
patch   == <<ppc, ptarget, pcron, pnext>>
trigger == <<tpc, ttarget, tnext>>
firings == <<invoked, repeated, unmarked, crossed>>
cronVars == <<now, table, worker, patch, trigger, firings, restarts>>

Kept(s) == mode[s] \in {"on", "off"}

CronTypeOK ==
    /\ now \in 0 .. MaxTime
    /\ mode \in [Schedules -> {"none", "on", "off", "gone"}]
    /\ cron \in [Schedules -> Crons \cup {Null}]
    /\ nextRun \in [Schedules -> AllMinutes \cup {Null}]
    /\ \A s \in Schedules : Kept(s) => cron[s] # Null /\ nextRun[s] # Null
    /\ due \subseteq Entry
    /\ listTime \in 0 .. MaxTime
    /\ running \in Entry \cup {Null}
    /\ ppc \in [Patches -> {"idle", "write", "done"}]
    /\ ptarget \in [Patches -> Schedules \cup {Null}]
    /\ pcron \in [Patches -> Crons \cup {Null}]
    /\ pnext \in [Patches -> AllMinutes \cup {Null}]
    /\ tpc \in [Triggers -> {"idle", "write", "done"}]
    /\ ttarget \in [Triggers -> Schedules \cup {Null}]
    /\ tnext \in [Triggers -> AllMinutes \cup {Null}]
    /\ invoked \subseteq Schedules \X AllMinutes
    /\ repeated \subseteq invoked /\ unmarked \subseteq invoked
    /\ crossed \subseteq Schedules
    /\ restarts \in 0 .. MaxRestarts

CronInit ==
    /\ now = 0
    /\ mode = [s \in Schedules |-> "none"]
    /\ cron = [s \in Schedules |-> Null]
    /\ nextRun = [s \in Schedules |-> Null]
    /\ due = {} /\ listTime = 0 /\ running = Null
    /\ ppc = [p \in Patches |-> "idle"]
    /\ ptarget = [p \in Patches |-> Null]
    /\ pcron = [p \in Patches |-> Null]
    /\ pnext = [p \in Patches |-> Null]
    /\ tpc = [t \in Triggers |-> "idle"]
    /\ ttarget = [t \in Triggers |-> Null]
    /\ tnext = [t \in Triggers |-> Null]
    /\ invoked = {} /\ repeated = {} /\ unmarked = {} /\ crossed = {}
    /\ restarts = 0

-----------------------------------------------------------------------------
(* cron.ts: the next matching minute strictly after an instant, if there   *)
(* is one within the horizon; nextRunFor throws otherwise.                 *)

Ahead(c, t) == {m \in Minutes[c] : Minute(t) < m /\ m <= Minute(t) + Horizon}

NextRunFor(c, t) ==
    IF Ahead(c, t) = {} THEN Null
    ELSE CHOOSE m \in Ahead(c, t) : \A k \in Ahead(c, t) : m <= k

-----------------------------------------------------------------------------
(* Managers.                                                               *)

Create(s, c) ==
    /\ mode[s] = "none"
    /\ NextRunFor(c, now) # Null
    /\ mode' = [mode EXCEPT ![s] = "on"]
    /\ cron' = [cron EXCEPT ![s] = c]
    /\ nextRun' = [nextRun EXCEPT ![s] = NextRunFor(c, now)]
    /\ UNCHANGED <<now, worker, patch, trigger, firings, restarts>>

\* PATCH enabled: nextRunAt is set already, and stays.
SetEnabled(s) ==
    /\ Kept(s)
    /\ mode' = [mode EXCEPT ![s] = IF @ = "on" THEN "off" ELSE "on"]
    /\ UNCHANGED <<now, cron, nextRun, worker, patch, trigger, firings, restarts>>

CanSend ==
    Cardinality({p \in Patches : ppc[p] # "idle"})
        + Cardinality({t \in Triggers : tpc[t] # "idle"}) < MaxRequests

\* PATCH cron: compute the next run, then write both.
ReadPatch(p) ==
    /\ ppc[p] = "idle" /\ CanSend
    /\ \E s \in Schedules, c \in Crons :
         /\ Kept(s) /\ NextRunFor(c, now) # Null
         /\ ptarget' = [ptarget EXCEPT ![p] = s]
         /\ pcron' = [pcron EXCEPT ![p] = c]
         /\ pnext' = [pnext EXCEPT ![p] = NextRunFor(c, now)]
    /\ ppc' = [ppc EXCEPT ![p] = "write"]
    /\ UNCHANGED <<now, table, worker, trigger, firings, restarts>>

WritePatch(p) ==
    /\ ppc[p] = "write"
    /\ ppc' = [ppc EXCEPT ![p] = "done"]
    /\ IF Kept(ptarget[p])
         THEN /\ cron' = [cron EXCEPT ![ptarget[p]] = pcron[p]]
              /\ nextRun' = [nextRun EXCEPT ![ptarget[p]] = pnext[p]]
         ELSE UNCHANGED <<cron, nextRun>>
    /\ pcron' = [pcron EXCEPT ![p] = Null]
    /\ UNCHANGED <<now, mode, worker, ptarget, pnext, trigger, firings, restarts>>

\* POST trigger: the run is recorded with the nextRunAt read before it.
ReadTrigger(t) ==
    /\ tpc[t] = "idle" /\ CanSend
    /\ \E s \in Schedules :
         /\ Kept(s)
         /\ ttarget' = [ttarget EXCEPT ![t] = s]
         /\ tnext' = [tnext EXCEPT ![t] = nextRun[s]]
         /\ crossed' = crossed \cup
               {q \in {s} : \E u \in Triggers : tpc[u] = "write" /\ ttarget[u] = s}
    /\ tpc' = [tpc EXCEPT ![t] = "write"]
    /\ UNCHANGED <<now, table, worker, patch, invoked, repeated, unmarked, restarts>>

\* markScheduleRun: a row that is gone is not found, and nobody asks.
MarkScheduleRun(s, m) ==
    nextRun' = IF Kept(s) THEN [nextRun EXCEPT ![s] = m] ELSE nextRun

WriteTrigger(t) ==
    /\ tpc[t] = "write"
    /\ tpc' = [tpc EXCEPT ![t] = "done"]
    /\ MarkScheduleRun(ttarget[t], tnext[t])
    /\ UNCHANGED <<now, mode, cron, worker, patch, ttarget, tnext, firings, restarts>>

Delete(s) ==
    /\ Kept(s)
    /\ mode' = [mode EXCEPT ![s] = "gone"]
    /\ cron' = [cron EXCEPT ![s] = Null]
    /\ nextRun' = [nextRun EXCEPT ![s] = Null]
    /\ UNCHANGED <<now, worker, patch, trigger, firings, restarts>>

-----------------------------------------------------------------------------
(* The worker: fireDueSchedules.                                           *)

Due == {s \in Schedules : mode[s] = "on" /\ nextRun[s] <= Minute(now)}

\* The Limit rows that have been due longest.
List ==
    /\ due = {} /\ running = Null /\ Due # {}
    /\ \E S \in SUBSET Due :
         /\ Cardinality(S) = IF Cardinality(Due) < Limit THEN Cardinality(Due) ELSE Limit
         /\ \A s \in S, q \in Due \ S : nextRun[s] <= nextRun[q]
         /\ due' = {[s |-> s, cron |-> cron[s], next |-> nextRun[s]] : s \in S}
    /\ listTime' = now
    /\ UNCHANGED <<now, table, running, patch, trigger, firings, restarts>>

\* Mutation: the minute of the list counts as one after it.
FollowingInclusive(e) == NextRunFor(e.cron, IF listTime = 0 THEN 0 ELSE listTime - 1)

\* The run after this one: a second is added to the time of the list first.
Following(e) == NextRunFor(e.cron, listTime + 1)

\* Mutations: no further run is stored as such, and the row moves on first.
InvokeRare(e) ==
    /\ e \in due /\ running = Null
    /\ \A f \in due : e.next <= f.next
    /\ due' = due \ {e}
    /\ running' = e
    /\ invoked' = invoked \cup {<<e.s, e.next>>}
    /\ repeated' = repeated \cup ({<<e.s, e.next>>} \cap invoked)
    /\ UNCHANGED <<now, table, listTime, patch, trigger, unmarked, crossed, restarts>>

InvokeMarked(e) ==
    /\ e \in due /\ running = Null
    /\ \A f \in due : e.next <= f.next
    /\ Following(e) # Null
    /\ due' = due \ {e}
    /\ running' = e
    /\ MarkScheduleRun(e.s, Following(e))
    /\ UNCHANGED <<now, mode, cron, listTime, patch, trigger, firings, restarts>>

\* An expression without a further run makes nextRunFor throw, outside of the
\* try: the pass ends there, for the entries behind it too.
Invoke(e) ==
    /\ e \in due /\ running = Null
    /\ \A f \in due : e.next <= f.next
    /\ IF Following(e) = Null
         THEN due' = {} /\ listTime' = 0 /\ UNCHANGED <<running, firings>>
         ELSE /\ due' = due \ {e}
              /\ UNCHANGED listTime
              /\ running' = e
              /\ invoked' = invoked \cup {<<e.s, e.next>>}
              /\ repeated' = repeated \cup ({<<e.s, e.next>>} \cap invoked)
              /\ UNCHANGED <<unmarked, crossed>>
    /\ UNCHANGED <<now, table, patch, trigger, restarts>>

\* Mutation: an invocation that fails is not recorded.
MarkSuccess ==
    /\ running # Null
    /\ running' = Null
    /\ \/ MarkScheduleRun(running.s, Following(running))
       \/ UNCHANGED nextRun
    /\ listTime' = IF due = {} THEN 0 ELSE listTime
    /\ UNCHANGED <<now, mode, cron, due, patch, trigger, firings, restarts>>

\* Recorded alike, whether the invocation succeeded, failed or threw; a first
\* recording that throws is made good in the catch.
MarkRun ==
    /\ running # Null
    /\ running' = Null
    /\ MarkScheduleRun(running.s, Following(running))
    /\ listTime' = IF due = {} THEN 0 ELSE listTime
    /\ UNCHANGED <<now, mode, cron, due, patch, trigger, firings, restarts>>

\* The recording in the catch throws as well: the pass ends, for the entries
\* behind it too, and the row is as it was.
MarkFails ==
    /\ running # Null
    /\ <<running.s, running.next>> \notin unmarked /\ Cardinality(unmarked) < MaxMisses
    /\ unmarked' = unmarked \cup {<<running.s, running.next>>}
    /\ due' = {} /\ listTime' = 0 /\ running' = Null
    /\ UNCHANGED <<now, table, patch, trigger, invoked, repeated, crossed, restarts>>

WorkerRestart ==
    /\ restarts < MaxRestarts
    /\ due # {} \/ running # Null
    /\ restarts' = restarts + 1
    /\ due' = {} /\ listTime' = 0 /\ running' = Null
    /\ UNCHANGED <<now, table, patch, trigger, firings>>

Tick ==
    /\ now < MaxTime
    /\ now' = now + 1
    /\ UNCHANGED <<table, worker, patch, trigger, firings, restarts>>

-----------------------------------------------------------------------------
WorkerStep == List \/ (\E e \in due : Invoke(e)) \/ MarkRun

CronNext ==
    \/ \E s \in Schedules :
         (\E c \in Crons : Create(s, c)) \/ SetEnabled(s) \/ Delete(s)
    \/ \E p \in Patches : ReadPatch(p) \/ WritePatch(p)
    \/ \E t \in Triggers : ReadTrigger(t) \/ WriteTrigger(t)
    \/ WorkerStep \/ MarkFails \/ WorkerRestart \/ Tick

CronSpec == CronInit /\ [][CronNext]_cronVars

\* The worker keeps polling, handlers run on, the clock goes on to its bound.
FairCronSpec ==
    /\ CronSpec
    /\ WF_cronVars(WorkerStep) /\ WF_cronVars(Tick)
    /\ \A p \in Patches : WF_cronVars(WritePatch(p))
    /\ \A t \in Triggers : WF_cronVars(WriteTrigger(t))

-----------------------------------------------------------------------------
(* Properties.                                                             *)

\* A stored run that has come due is passed over only after it was invoked,
\* although the worker may stop between invoking and marking and managers
\* write in between; only a change of the expression takes it away, or two
\* triggers of the schedule that overlap: one puts an old run back, the other
\* a newer one while the worker is at the old.
DueRunsAreInvoked ==
    [][\A s \in Schedules :
          /\ Kept(s) /\ Kept(s)' /\ nextRun[s] <= Minute(now) /\ nextRun'[s] > nextRun[s]
          => \/ <<s, nextRun[s]>> \in invoked \/ s \in crossed
             \/ \E p \in Patches : ptarget[p] = s]_cronVars

\* A schedule that is due has no run after this one.
Poisoned ==
    \E s \in Schedules : s \in Due /\ NextRunFor(cron[s], now + 1) = Null

\* docs/automation.md: "The background worker fires due schedules": a schedule
\* that is due is fired and moves on, or is disabled or deleted, unless one
\* without a further run ends the worker's passes for good.
DueSchedulesFire ==
    \/ []<>Poisoned
    \/ \A s \in Schedules :
           s \in Due ~> mode[s] # "on" \/ nextRun[s] > Minute(now)

\* docs/automation.md: a run "advances nextRunAt before invoking, so a crashing
\* function can never refire the same tick".  The code advances it afterwards:
\* what does refire one is a worker that stops before it has recorded the run,
\* a recording that fails twice, and a trigger or PATCH that writes the next
\* run it computed before the worker's.
RepeatsHaveAReason ==
    \A r \in repeated :
        \/ restarts > 0 \/ r \in unmarked
        \/ \E t \in Triggers : ttarget[t] = r[1] /\ tnext[t] = r[2]
        \/ \E p \in Patches : ptarget[p] = r[1] /\ pnext[p] = r[2]

=============================================================================
