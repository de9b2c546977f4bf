--------------------------- MODULE FunctionDeploys ---------------------------
(***************************************************************************)
(* Functions of one project under one slug: create, deploy, redeploy,      *)
(* activate an earlier version, delete, invoke.                            *)
(* packages/functions/src/service.ts on the worker runtime.  All state is  *)
(* in the memory of the API process, so a handler is atomic up to its next *)
(* await, and a restart loses everything.                                  *)
(*                                                                         *)
(* A build is what one deployment asks for: source, runtime, entrypoint.   *)
(***************************************************************************)
EXTENDS Integers, Sequences, FiniteSets

CONSTANTS
    Fns,             \* functions, by id; all of one slug
    Deploys,         \* deploy and redeploy requests; each makes one job
    Invocations,
    Builds,
    Broken,          \* builds that do not load or lack their entrypoint
    Keys,            \* idempotency keys
    MaxConcurrency,
    MaxRequests,     \* bound: deploys and invocations sent in a behaviour
    MaxRestarts,     \* bound: restarts of the API process
    None

ASSUME ConstantsAssumption ==
    /\ Broken \subseteq Builds
    /\ MaxConcurrency \in Nat \ {0} /\ MaxRequests \in Nat /\ MaxRestarts \in Nat
    /\ IsFiniteSet(Deploys) /\ IsFiniteSet(Invocations)
    /\ None \notin Fns \cup Builds \cup Keys /\ None \notin Int

VARIABLES
    life,        \* "none", "live" (in the map of functions) or "gone"
    status, activeVersion,
    versions,    \* the builds of the versions, v1 first
    flags,       \* the versions whose active flag is set
    sources,     \* the stored sources, each by function and version number
    job,         \* per deploy request: where its pipeline is
    fnOf, build, key,
    version,     \* the job's version: guessed at first, then found
    inFlight,    \* per function a count, or None
    call,        \* per invocation: "idle", "rated", "executing", "over"
    shot,        \* per invocation: the function, version and source it read
    restarts,
    asked,       \* history: the jobs of a function in the order of their requests
    disturbed    \* history: functions whose newest job was overtaken or undone

fns   == <<life, status, activeVersion, versions, flags, sources>>
jobs  == <<job, fnOf, build, key, version>>
calls == <<inFlight, call, shot>>
past  == <<asked, disturbed>>
vars  == <<fns, jobs, calls, restarts, past>>

Settled == {"ready", "failed"}
UnderWay == {"building", "deploying"}

TypeOK ==
    /\ life \in [Fns -> {"none", "live", "gone"}]
    /\ status \in [Fns -> {"creating", "building", "deploying", "ready", "failed", "deleting"}]
    /\ activeVersion \in [Fns -> Nat]
    /\ versions \in [Fns -> Seq(Builds)]
    /\ flags \in [Fns -> SUBSET Nat]
    /\ sources \subseteq [fn : Fns, version : Nat, source : Builds]
    /\ job \in [Deploys -> {"idle", "duplicate", "dead"} \cup UnderWay \cup Settled]
    /\ fnOf \in [Deploys -> Fns \cup {None}] /\ build \in [Deploys -> Builds \cup {None}]
    /\ key \in [Deploys -> Keys \cup {None}] /\ version \in [Deploys -> Nat]
    /\ inFlight \in [Fns -> Int \cup {None}]
    /\ call \in [Invocations -> {"idle", "rated", "executing", "over"}]
    /\ shot \in [Invocations -> [fn : Fns, version : Nat, source : Builds] \cup {None}]
    /\ asked \in [Fns -> Seq(Deploys)]
    /\ restarts \in 0 .. MaxRestarts
    /\ disturbed \subseteq Fns

Init ==
    /\ life = [f \in Fns |-> "none"] /\ status = [f \in Fns |-> "creating"]
    /\ activeVersion = [f \in Fns |-> 0] /\ versions = [f \in Fns |-> <<>>]
    /\ flags = [f \in Fns |-> {}]
    /\ sources = {}
    /\ job = [j \in Deploys |-> "idle"] /\ fnOf = [j \in Deploys |-> None]
    /\ build = [j \in Deploys |-> None] /\ key = [j \in Deploys |-> None]
    /\ version = [j \in Deploys |-> 0]
    /\ inFlight = [f \in Fns |-> None] /\ call = [i \in Invocations |-> "idle"]
    /\ shot = [i \in Invocations |-> None]
    /\ restarts = 0
    /\ asked = [f \in Fns |-> <<>>] /\ disturbed = {}

Live == {f \in Fns : life[f] = "live"}
Upd(fun, x, v) == [fun EXCEPT ![x] = v]
Source(f, n, b) == [fn |-> f, version |-> n, source |-> b]
Stored(f, n) == {b \in Builds : Source(f, n, b) \in sources}
\* sources.set: the one source of a version number.
Store(f, n, b) == {s \in sources : s.fn # f \/ s.version # n} \cup {Source(f, n, b)}

\* The client may send one more request.
MaySend == Cardinality({j \in Deploys : job[j] # "idle"})
           + Cardinality({i \in Invocations : call[i] # "idle"}) < MaxRequests

-----------------------------------------------------------------------------
(* Functions.                                                              *)

\* createFunction: the slug is free; the per-project limit is left out.
CreateFunction(f) ==
    /\ life[f] = "none" /\ Live = {}
    /\ life' = Upd(life, f, "live")
    /\ UNCHANGED <<status, activeVersion, versions, flags, sources, jobs, calls, restarts, past>>

\* deleteFunction: the records go with their fields, the pipelines and the invocations go on.
\* sources.delete is given the id of the function, which is the key of none.
DeleteFunction(f) ==
    /\ f \in Live
    /\ life' = Upd(life, f, "gone") /\ status' = Upd(status, f, "deleting")
    /\ versions' = Upd(versions, f, <<>>) /\ flags' = Upd(flags, f, {})
    /\ activeVersion' = Upd(activeVersion, f, 0)
    /\ inFlight' = Upd(inFlight, f, None)
    /\ asked' = Upd(asked, f, <<>>) /\ disturbed' = disturbed \ {f}
    /\ UNCHANGED <<sources, jobs, call, shot, restarts>>

\* activateVersion: an earlier version becomes the active one at once.
ActivateVersion(f, n) ==
    /\ f \in Live
    /\ flags' = Upd(flags, f, {n}) /\ activeVersion' = Upd(activeVersion, f, n)
    /\ status' = Upd(status, f, "ready")
    /\ disturbed' = disturbed \cup {f}
    /\ UNCHANGED <<life, versions, sources, jobs, calls, restarts, asked>>

-----------------------------------------------------------------------------
(* Deployments.                                                            *)

\* The version with this build, or the number the next one gets.
VersionOf(list, b) ==
    IF \E n \in DOMAIN list : list[n] = b
      THEN CHOOSE n \in DOMAIN list : list[n] = b ELSE Len(list) + 1

\* The job of an earlier request that a key stands for.
Answered(f, k) == k # None /\ \E j \in Deploys :
    fnOf[j] = f /\ key[j] = k /\ job[j] \in UnderWay \cup {"ready"}

\* deployFunction: the job, the status, and the first part of the pipeline.
DeployFunction(j, f, b, k) ==
    /\ job[j] = "idle" /\ MaySend /\ f \in Live
    /\ IF Answered(f, k)
         THEN /\ job' = Upd(job, j, "duplicate")
              /\ UNCHANGED <<fns, fnOf, build, key, version, past>>
         ELSE /\ job' = Upd(job, j, "building")
              /\ fnOf' = Upd(fnOf, j, f) /\ build' = Upd(build, j, b) /\ key' = Upd(key, j, k)
              /\ version' = Upd(version, j, VersionOf(versions[f], b))
              /\ status' = Upd(status, f, "building")
              /\ asked' = Upd(asked, f, Append(asked[f], j))
              /\ disturbed' = disturbed \ {f}
              /\ UNCHANGED <<life, activeVersion, versions, flags, sources>>
    /\ UNCHANGED <<calls, restarts>>

\* redeployFunction: the stored source of the newest version.
RedeployFunction(j, f, k) ==
    LET n == Len(versions[f]) IN
    /\ f \in Live /\ n > 0
    /\ \E b \in Stored(f, n) : DeployFunction(j, f, b, k)

\* A job settles: if one asked for later has settled, it was overtaken.
Settle(j, outcome) ==
    LET f == fnOf[j]
        later == {k \in Deploys : \E a, b \in DOMAIN asked[f] :
                     a < b /\ asked[f][a] = j /\ asked[f][b] = k}
    IN /\ job' = Upd(job, j, outcome)
       /\ disturbed' = IF \E k \in later : job[k] \in Settled
                         THEN disturbed \cup {f} ELSE disturbed
       /\ UNCHANGED asked

\* Mutant: a function that has an active version keeps its status.
BuildFailsKeeping(j) ==
    /\ job[j] = "building"
    /\ Settle(j, "failed")
    /\ status' = IF fnOf[j] \in Live /\ activeVersion[fnOf[j]] = 0
                   THEN Upd(status, fnOf[j], "failed") ELSE status
    /\ UNCHANGED <<life, activeVersion, versions, flags, sources, fnOf, build, key, version,
                   calls, restarts>>

\* verifyBuildable fails: the source is broken, or the probe timed out.  The
\* status of a function that is gone is a field of an object nobody has.
BuildFails(j) ==
    /\ job[j] = "building"
    /\ Settle(j, "failed")
    /\ status' = IF fnOf[j] \in Live THEN Upd(status, fnOf[j], "failed") ELSE status
    /\ UNCHANGED <<life, activeVersion, versions, flags, sources, fnOf, build, key, version,
                   calls, restarts>>

\* Mutant: the version guessed when the request came is taken.
BuiltAsGuessed(j) ==
    LET f == fnOf[j]  n == version[j] IN
    /\ job[j] = "building" /\ build[j] \notin Broken
    /\ job' = Upd(job, j, "deploying")
    /\ sources' = Store(f, n, build[j])
    /\ versions' = IF f \in Live /\ n = Len(versions[f]) + 1
                     THEN Upd(versions, f, Append(versions[f], build[j])) ELSE versions
    /\ status' = IF f \in Live THEN Upd(status, f, "deploying") ELSE status
    /\ UNCHANGED <<life, activeVersion, flags, fnOf, build, key, version, calls, restarts, past>>

\* verifyBuildable returns: the version is found or pushed, its source stored.
\* Of a function that is gone the list is a new one, dropped with the job.
Built(j) ==
    LET f == fnOf[j]
        n == VersionOf(versions[f], build[j])
        new == n = Len(versions[f]) + 1
    IN
    /\ job[j] = "building" /\ build[j] \notin Broken
    /\ job' = Upd(job, j, "deploying") /\ version' = Upd(version, j, n)
    /\ sources' = IF new THEN Store(f, n, build[j]) ELSE sources
    /\ versions' = IF new /\ f \in Live
                     THEN Upd(versions, f, Append(versions[f], build[j])) ELSE versions
    /\ status' = IF f \in Live THEN Upd(status, f, "deploying") ELSE status
    /\ UNCHANGED <<life, activeVersion, flags, fnOf, build, key, calls, restarts, past>>

\* After runtimeActivate, which the worker runtime has nothing to do in: the
\* version of the job becomes the active one, whatever was asked for since.
Activate(j) ==
    LET f == fnOf[j] IN
    /\ job[j] = "deploying"
    /\ Settle(j, "ready")
    /\ IF f \in Live
         THEN /\ flags' = Upd(flags, f, {version[j]})
              /\ activeVersion' = Upd(activeVersion, f, version[j])
              /\ status' = Upd(status, f, "ready")
         ELSE UNCHANGED <<flags, activeVersion, status>>
    /\ UNCHANGED <<life, versions, sources, fnOf, build, key, version, calls, restarts>>

-----------------------------------------------------------------------------
(* Invocations.                                                            *)

\* invokeFunction up to the rate limit: what it serves is read here.
Invoke(i, f) ==
    LET n == activeVersion[f] IN
    /\ call[i] = "idle" /\ MaySend /\ f \in Live
    /\ \/ /\ status[f] = "ready" /\ n \in DOMAIN versions[f]
          /\ call' = Upd(call, i, "rated")
          /\ \E b \in Stored(f, n) : shot' = Upd(shot, i, Source(f, n, b))
       \/ /\ status[f] # "ready" \/ n \notin DOMAIN versions[f] \/ Stored(f, n) = {}
          /\ call' = Upd(call, i, "over") /\ UNCHANGED shot
    /\ UNCHANGED <<fns, jobs, inFlight, restarts, past>>

Count(c, default) == IF c = None THEN default ELSE c

\* Mutant: one invocation too many.
ExecuteOneMore(i) ==
    LET f == shot[i].fn  flying == Count(inFlight[f], 0) IN
    /\ call[i] = "rated"
    /\ \/ call' = Upd(call, i, "over") /\ UNCHANGED inFlight
       \/ /\ flying <= MaxConcurrency
          /\ call' = Upd(call, i, "executing") /\ inFlight' = Upd(inFlight, f, flying + 1)
    /\ UNCHANGED <<fns, jobs, shot, restarts, past>>

\* The rate is within budget or unknown: the concurrency check, then execute.
Execute(i) ==
    LET f == shot[i].fn  flying == Count(inFlight[f], 0) IN
    /\ call[i] = "rated"
    /\ \/ /\ call' = Upd(call, i, "over") /\ shot' = Upd(shot, i, None)
          /\ UNCHANGED inFlight
       \/ /\ flying < MaxConcurrency
          /\ call' = Upd(call, i, "executing") /\ inFlight' = Upd(inFlight, f, flying + 1)
          /\ UNCHANGED shot
    /\ UNCHANGED <<fns, jobs, restarts, past>>

\* The finally of an invocation, however it ended.
Finish(i) ==
    LET f == shot[i].fn IN
    /\ call[i] = "executing"
    /\ call' = Upd(call, i, "over") /\ shot' = Upd(shot, i, None)
    /\ inFlight' = Upd(inFlight, f, Count(inFlight[f], 1) - 1)
    /\ UNCHANGED <<fns, jobs, restarts, past>>

\* A restart of the process: every map is empty.
Restart ==
    /\ restarts < MaxRestarts /\ restarts' = restarts + 1
    /\ life' = [f \in Fns |-> IF life[f] = "live" THEN "gone" ELSE life[f]]
    /\ versions' = [f \in Fns |-> <<>>]
    /\ sources' = {}
    /\ inFlight' = [f \in Fns |-> None]
    /\ flags' = [f \in Fns |-> {}] /\ activeVersion' = [f \in Fns |-> 0]
    /\ job' = [j \in Deploys |-> IF job[j] \in UnderWay THEN "dead" ELSE job[j]]
    /\ call' = [i \in Invocations |-> IF call[i] = "idle" THEN "idle" ELSE "over"]
    /\ shot' = [i \in Invocations |-> None]
    /\ asked' = [f \in Fns |-> <<>>] /\ disturbed' = {}
    /\ UNCHANGED <<status, fnOf, build, key, version>>

FnStep     == \E f \in Fns : CreateFunction(f) \/ DeleteFunction(f)
                             \/ \E n \in DOMAIN versions[f] : ActivateVersion(f, n)
DeployStep == \E j \in Deploys, f \in Fns, k \in Keys \cup {None} :
                 (\E b \in Builds : DeployFunction(j, f, b, k)) \/ RedeployFunction(j, f, k)
Pipeline   == \E j \in Deploys : BuildFails(j) \/ Built(j) \/ Activate(j)
CallStep   == \E i \in Invocations : (\E f \in Fns : Invoke(i, f)) \/ Execute(i) \/ Finish(i)

Next == FnStep \/ DeployStep \/ Pipeline \/ CallStep \/ Restart

\* The probe has a time limit and the event loop runs every continuation.
Fairness == \A j \in Deploys : WF_vars(BuildFails(j) \/ Built(j) \/ Activate(j))

Spec == Init /\ [][Next]_vars /\ Fairness

-----------------------------------------------------------------------------
(* What is promised.                                                       *)

\* "ready always means a verified artifact": a ready function has one version
\* flagged, it is the active one, its stored source is the one the version was
\* made of, and that source loaded; and an invocation runs such a source, the
\* one of the version it reports, whatever is deployed or deleted meanwhile.
ReadyIsVerified ==
    /\ \A f \in Live : status[f] = "ready" =>
         LET n == activeVersion[f] IN
         /\ n \in DOMAIN versions[f] /\ flags[f] = {n}
         /\ Stored(f, n) = {versions[f][n]} /\ versions[f][n] \notin Broken
    /\ \A i \in Invocations : call[i] \in {"rated", "executing"} =>
         LET s == shot[i] IN
         /\ s.source \notin Broken
         /\ s.fn \in Live => s.version \in DOMAIN versions[s.fn]
                             /\ versions[s.fn][s.version] = s.source

\* With every deployment of a function settled, the newest one decides: its
\* build is served, or the function has failed because it did; unless an older
\* one finished after it or an earlier version was activated by hand.
NewestDeployDecides ==
    \A f \in Live : LET last == asked[f][Len(asked[f])] IN
        /\ Len(asked[f]) > 0 /\ f \notin disturbed
        /\ \A n \in DOMAIN asked[f] : job[asked[f][n]] \in Settled
        => /\ status[f] = job[last]
           /\ job[last] = "ready" => versions[f][activeVersion[f]] = build[last]

\* The counter of a function is the number of its executing invocations, which
\* stays within the limit, whoever ends first and however.
InFlightIsExact ==
    \A f \in Live :
        LET running == {i \in Invocations : call[i] = "executing" /\ shot[i].fn = f} IN
        /\ Count(inFlight[f], 0) = Cardinality(running)
        /\ Cardinality(running) <= MaxConcurrency

\* No function stays under deployment: overlapping deployments, activations
\* and failures included.
DeploymentsSettle ==
    \A f \in Fns : life[f] = "live" /\ status[f] \in UnderWay ~>
                   life[f] # "live" \/ status[f] \in Settled
=============================================================================
