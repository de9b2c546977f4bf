------------------------ MODULE FunctionDeploysProofs ------------------------
(***************************************************************************)
(* TLAPS proofs about FunctionDeploys, for any functions, deployments,     *)
(* invocations, builds, restarts and any concurrency limit.                *)
(***************************************************************************)
EXTENDS FunctionDeploys, FiniteSetTheorems, TLAPS

Versions == [fn : Fns, version : Nat, source : Builds]

\* A deployment under way has its function and its build.
Shape ==
    \A j \in Deploys : job[j] \in UnderWay => fnOf[j] \in Fns /\ build[j] \in Builds

TypeInv == TypeOK /\ Shape

\* What each version holds: one stored source, the build it was made of, which
\* loads; a function that is not there has no version.
ListInv ==
    \A f \in Fns :
        /\ life[f] # "live" => versions[f] = <<>>
        /\ \A n \in DOMAIN versions[f] :
              versions[f][n] \notin Broken /\ Stored(f, n) = {versions[f][n]}

\* A function yet to be created has the status it is created with.
NewInv == \A f \in Fns : life[f] = "none" => status[f] = "creating"

\* A deployment under way was asked of a function that had been created; past
\* its build it has its version.
JobInv ==
    \A j \in Deploys :
        /\ job[j] \in UnderWay => life[fnOf[j]] # "none"
        /\ job[j] = "deploying" /\ fnOf[j] \in Live =>
             version[j] \in DOMAIN versions[fnOf[j]] /\ versions[fnOf[j]][version[j]] = build[j]

\* A ready function has its active version flagged.
ActiveInv ==
    \A f \in Live : status[f] = "ready" =>
        activeVersion[f] \in DOMAIN versions[f] /\ flags[f] = {activeVersion[f]}

\* An invocation under way has read a source that loads.
ShotInv ==
    \A i \in Invocations : call[i] \in {"rated", "executing"} =>
        /\ shot[i] \in Versions /\ shot[i].source \notin Broken
        /\ life[shot[i].fn] # "none"
        /\ shot[i].fn \in Live => shot[i].version \in DOMAIN versions[shot[i].fn]
                                  /\ versions[shot[i].fn][shot[i].version] = shot[i].source

ServeInv == ListInv /\ NewInv /\ JobInv /\ ActiveInv /\ ShotInv

Running(f) == {i \in Invocations : call[i] = "executing" /\ shot[i].fn = f}

\* The counter, also of a function that has yet to be created.
FlightInv ==
    \A f \in Fns : life[f] \in {"none", "live"} =>
        Count(inFlight[f], 0) = Cardinality(Running(f)) /\ Cardinality(Running(f)) <= MaxConcurrency

-----------------------------------------------------------------------------
(* Versions and sources.                                                   *)

LEMMA VersionFound ==
  ASSUME NEW list \in Seq(Builds), NEW b \in Builds
  PROVE  \/ VersionOf(list, b) = Len(list) + 1
         \/ VersionOf(list, b) \in 1 .. Len(list) /\ list[VersionOf(list, b)] = b
BY DEF VersionOf

LEMMA StoreEffect ==
  ASSUME NEW f \in Fns, NEW n \in Nat, NEW b \in Builds, sources' = Store(f, n, b)
  PROVE  /\ Stored(f, n)' = {b}
         /\ \A g \in Fns, m \in Nat : g # f \/ m # n => Stored(g, m)' = Stored(g, m)
<1>1. \A g \in Fns, m \in Nat, c \in Builds :
         Source(g, m, c) \in Store(f, n, b)
           <=> \/ (g # f \/ m # n) /\ Source(g, m, c) \in sources
               \/ g = f /\ m = n /\ c = b
  <2> SUFFICES ASSUME NEW g \in Fns, NEW m \in Nat, NEW c \in Builds
               PROVE  Source(g, m, c) \in Store(f, n, b)
                        <=> \/ (g # f \/ m # n) /\ Source(g, m, c) \in sources
                            \/ g = f /\ m = n /\ c = b
    OBVIOUS
  <2>1. Source(g, m, c).fn = g /\ Source(g, m, c).version = m /\ Source(g, m, c).source = c
    BY DEF Source
  <2>2. Source(f, n, b).fn = f /\ Source(f, n, b).version = n /\ Source(f, n, b).source = b
    BY DEF Source
  <2>3. g = f /\ m = n /\ c = b => Source(g, m, c) = Source(f, n, b)
    OBVIOUS
  <2> QED
    BY <2>1, <2>2, <2>3 DEF Store
<1>2. Stored(f, n)' = {b}
  BY <1>1 DEF Stored
<1>3. \A g \in Fns, m \in Nat : g # f \/ m # n => Stored(g, m)' = Stored(g, m)
  BY <1>1 DEF Stored
<1> QED
  BY <1>2, <1>3

-----------------------------------------------------------------------------
(* Type correctness.                                                       *)

LEMMA SettleType ==
  ASSUME TypeInv, NEW j \in Deploys, fnOf[j] \in Fns, NEW outcome \in Settled, Settle(j, outcome)
  PROVE  /\ job' \in [Deploys -> {"idle", "duplicate", "dead"} \cup UnderWay \cup Settled]
         /\ job'[j] = outcome /\ \A k \in Deploys \ {j} : job'[k] = job[k]
         /\ asked' = asked /\ disturbed' \subseteq Fns
BY DEF Settle, Upd, TypeInv, TypeOK

LEMMA DeployType ==
  ASSUME TypeInv, NEW j \in Deploys, NEW f \in Fns, NEW b \in Builds, NEW k \in Keys \cup {None},
         DeployFunction(j, f, b, k)
  PROVE  TypeInv'
<1> USE DEF TypeInv, TypeOK, Shape, UnderWay, Settled, Upd, Live
<1>0. UNCHANGED <<calls, restarts>>
  BY DEF DeployFunction
<1>1. CASE Answered(f, k)
  BY <1>0, <1>1 DEF DeployFunction, fns, calls, past
<1>2. CASE ~Answered(f, k)
  <2>1. VersionOf(versions[f], b) \in Nat
    BY VersionFound
  <2>2. Append(asked[f], j) \in Seq(Deploys)
    OBVIOUS
  <2>3. /\ job' = [job EXCEPT ![j] = "building"] /\ fnOf' = [fnOf EXCEPT ![j] = f]
        /\ build' = [build EXCEPT ![j] = b] /\ key' = [key EXCEPT ![j] = k]
        /\ version' = [version EXCEPT ![j] = VersionOf(versions[f], b)]
        /\ status' = [status EXCEPT ![f] = "building"]
        /\ asked' = [asked EXCEPT ![f] = Append(asked[f], j)]
        /\ disturbed' = disturbed \ {f}
        /\ UNCHANGED <<life, activeVersion, versions, flags, sources>>
    BY <1>2 DEF DeployFunction
  <2>4. version' \in [Deploys -> Nat] /\ asked' \in [Fns -> Seq(Deploys)]
    BY <2>1, <2>2, <2>3
  <2> QED
    BY <1>0, <2>3, <2>4 DEF calls
<1> QED
  BY <1>1, <1>2

LEMMA TypeStep == TypeInv /\ [Next]_vars => TypeInv'
<1> USE ConstantsAssumption
<1> SUFFICES ASSUME TypeInv, [Next]_vars PROVE TypeInv'
  OBVIOUS
<1> USE DEF TypeInv, TypeOK, Shape, UnderWay, Settled, Upd, Live, fns, jobs, calls, past
<1>1. ASSUME NEW f \in Fns, CreateFunction(f) PROVE TypeInv'
  BY <1>1 DEF CreateFunction
<1>2. ASSUME NEW f \in Fns, DeleteFunction(f) PROVE TypeInv'
  <2>1. <<>> \in Seq(Builds) /\ <<>> \in Seq(Deploys)
    OBVIOUS
  <2> QED
    BY <1>2, <2>1 DEF DeleteFunction
<1>3. ASSUME NEW f \in Fns, NEW n \in DOMAIN versions[f], ActivateVersion(f, n) PROVE TypeInv'
  <2>1. n \in Nat
    OBVIOUS
  <2> QED
    BY <1>3, <2>1 DEF ActivateVersion
<1>4. ASSUME NEW j \in Deploys, NEW f \in Fns, NEW k \in Keys \cup {None}, NEW b \in Builds,
             DeployFunction(j, f, b, k)
      PROVE  TypeInv'
  BY <1>4, DeployType
<1>5. ASSUME NEW j \in Deploys, NEW f \in Fns, NEW k \in Keys \cup {None}, RedeployFunction(j, f, k)
      PROVE  TypeInv'
  BY <1>5, DeployType DEF RedeployFunction, Stored
<1>6. ASSUME NEW j \in Deploys, BuildFails(j) PROVE TypeInv'
  <2>1. fnOf[j] \in Fns
    BY <1>6 DEF BuildFails
  <2>2. /\ job' \in [Deploys -> {"idle", "duplicate", "dead"} \cup UnderWay \cup Settled]
        /\ job'[j] = "failed" /\ \A k \in Deploys \ {j} : job'[k] = job[k]
        /\ asked' = asked /\ disturbed' \subseteq Fns
    BY <1>6, <2>1, SettleType DEF BuildFails
  <2> QED
    BY <1>6, <2>2 DEF BuildFails
<1>7. ASSUME NEW j \in Deploys, Built(j) PROVE TypeInv'
  <2> DEFINE f == fnOf[j]
             n == VersionOf(versions[f], build[j])
  <2>1. f \in Fns /\ build[j] \in Builds
    BY <1>7 DEF Built
  <2>2. n \in Nat
    BY <2>1, VersionFound
  <2>3. sources' \subseteq [fn : Fns, version : Nat, source : Builds]
    BY <1>7, <2>1, <2>2 DEF Built, Store, Source
  <2>4. Append(versions[f], build[j]) \in Seq(Builds)
    BY <2>1
  <2>5. versions' \in [Fns -> Seq(Builds)] /\ version' \in [Deploys -> Nat]
    BY <1>7, <2>2, <2>4 DEF Built
  <2>6. status' \in [Fns -> {"creating", "building", "deploying", "ready", "failed", "deleting"}]
    BY <1>7 DEF Built
  <2>7. /\ job' = [job EXCEPT ![j] = "deploying"]
        /\ UNCHANGED <<life, activeVersion, flags, fnOf, build, key, inFlight, call, shot, restarts,
                       asked, disturbed>>
    BY <1>7 DEF Built
  <2> QED
    BY <2>1, <2>3, <2>5, <2>6, <2>7
<1>8. ASSUME NEW j \in Deploys, Activate(j) PROVE TypeInv'
  <2>1. fnOf[j] \in Fns
    BY <1>8 DEF Activate
  <2>2. /\ job' \in [Deploys -> {"idle", "duplicate", "dead"} \cup UnderWay \cup Settled]
        /\ job'[j] = "ready" /\ \A k \in Deploys \ {j} : job'[k] = job[k]
        /\ asked' = asked /\ disturbed' \subseteq Fns
    BY <1>8, <2>1, SettleType DEF Activate
  <2>3. /\ flags' \in [Fns -> SUBSET Nat] /\ activeVersion' \in [Fns -> Nat]
        /\ status' \in [Fns -> {"creating", "building", "deploying", "ready", "failed", "deleting"}]
    <3>1. CASE fnOf[j] \in Live
      <4>1. /\ flags' = [flags EXCEPT ![fnOf[j]] = {version[j]}]
            /\ activeVersion' = [activeVersion EXCEPT ![fnOf[j]] = version[j]]
            /\ status' = [status EXCEPT ![fnOf[j]] = "ready"]
        BY <1>8, <3>1 DEF Activate
      <4>2. version[j] \in Nat /\ {version[j]} \in SUBSET Nat
        OBVIOUS
      <4> QED
        BY <2>1, <4>1, <4>2
    <3>2. CASE fnOf[j] \notin Live
      BY <1>8, <3>2 DEF Activate
    <3> QED
      BY <3>1, <3>2
  <2>4. UNCHANGED <<life, versions, sources, fnOf, build, key, version, calls, restarts>>
    BY <1>8 DEF Activate
  <2> QED
    BY <2>2, <2>3, <2>4
<1>9. ASSUME NEW i \in Invocations, NEW f \in Fns, Invoke(i, f) PROVE TypeInv'
  <2>1. \A b \in Stored(f, activeVersion[f]) :
           Source(f, activeVersion[f], b) \in [fn : Fns, version : Nat, source : Builds]
    BY DEF Stored, Source
  <2>2. \/ \E b \in Stored(f, activeVersion[f]) :
              shot' = [shot EXCEPT ![i] = Source(f, activeVersion[f], b)]
        \/ UNCHANGED shot
    BY <1>9 DEF Invoke
  <2>3. shot' \in [Invocations -> [fn : Fns, version : Nat, source : Builds] \cup {None}]
    <3>1. ASSUME NEW b \in Stored(f, activeVersion[f]),
                 shot' = [shot EXCEPT ![i] = Source(f, activeVersion[f], b)]
          PROVE  shot' \in [Invocations -> [fn : Fns, version : Nat, source : Builds] \cup {None}]
      <4>1. Source(f, activeVersion[f], b) \in [fn : Fns, version : Nat, source : Builds]
        BY <2>1
      <4> QED
        BY <3>1, <4>1
    <3> QED
      BY <2>2, <3>1
  <2>4. call' = [call EXCEPT ![i] = "rated"] \/ call' = [call EXCEPT ![i] = "over"]
    BY <1>9 DEF Invoke
  <2>5. call' \in [Invocations -> {"idle", "rated", "executing", "over"}]
    BY <2>4
  <2>6. UNCHANGED <<fns, jobs, inFlight, restarts, past>>
    BY <1>9 DEF Invoke
  <2> QED
    BY <2>3, <2>5, <2>6
<1>10. ASSUME NEW i \in Invocations, Execute(i) PROVE TypeInv'
  <2>1. \A f \in Fns : Count(inFlight[f], 0) + 1 \in Int
    BY DEF Count
  <2>2. \/ UNCHANGED inFlight
        \/ inFlight' = [inFlight EXCEPT ![shot[i].fn] = Count(inFlight[shot[i].fn], 0) + 1]
    BY <1>10 DEF Execute
  <2>3. inFlight' \in [Fns -> Int \cup {None}]
    <3>1. CASE shot[i].fn \in Fns
      BY <2>1, <2>2, <3>1
    <3>2. CASE shot[i].fn \notin Fns
      BY <2>2, <3>2
    <3> QED
      BY <3>1, <3>2
  <2>4. /\ call' \in [Invocations -> {"idle", "rated", "executing", "over"}]
        /\ shot' \in [Invocations -> [fn : Fns, version : Nat, source : Builds] \cup {None}]
        /\ UNCHANGED <<fns, jobs, restarts, past>>
    BY <1>10 DEF Execute
  <2> QED
    BY <2>3, <2>4
<1>11. ASSUME NEW i \in Invocations, Finish(i) PROVE TypeInv'
  <2>1. \A f \in Fns : Count(inFlight[f], 1) - 1 \in Int
    BY DEF Count
  <2>2. inFlight' = [inFlight EXCEPT ![shot[i].fn] = Count(inFlight[shot[i].fn], 1) - 1]
    BY <1>11 DEF Finish
  <2>3. inFlight' \in [Fns -> Int \cup {None}]
    <3>1. CASE shot[i].fn \in Fns
      BY <2>1, <2>2, <3>1
    <3>2. CASE shot[i].fn \notin Fns
      BY <2>2, <3>2
    <3> QED
      BY <3>1, <3>2
  <2> QED
    BY <1>11, <2>3 DEF Finish
<1>12. ASSUME Restart PROVE TypeInv'
  <2>1. <<>> \in Seq(Builds) /\ <<>> \in Seq(Deploys)
    OBVIOUS
  <2> QED
    BY <1>12, <2>1 DEF Restart
<1>13. CASE UNCHANGED vars
  BY <1>13 DEF vars
<1> QED
  BY <1>1, <1>2, <1>3, <1>4, <1>5, <1>6, <1>7, <1>8, <1>9, <1>10, <1>11, <1>12, <1>13
  DEF Next, FnStep, DeployStep, Pipeline, CallStep

LEMMA TypeInit == Init => TypeInv
<1>1. <<>> \in Seq(Builds) /\ <<>> \in Seq(Deploys)
  OBVIOUS
<1> QED
  BY <1>1, ConstantsAssumption DEF Init, TypeInv, TypeOK, Shape, UnderWay, Settled

\* The state of every map of the service stays of its type, restarts included.
THEOREM TypeCorrect == Spec => []TypeOK
<1>1. TypeInv => TypeOK
  BY DEF TypeInv
<1> QED
  BY <1>1, TypeInit, TypeStep, PTL DEF Spec

-----------------------------------------------------------------------------
(* What is ready is verified.                                              *)

LEMMA SameStored == UNCHANGED sources => \A f \in Fns, n \in Nat : Stored(f, n)' = Stored(f, n)
BY DEF Stored, Source

LEMMA ServeStep == TypeInv /\ ServeInv /\ [Next]_vars => ServeInv'
<1> USE ConstantsAssumption
<1> SUFFICES ASSUME TypeInv, ServeInv, [Next]_vars PROVE ServeInv'
  OBVIOUS
<1> USE DEF TypeInv, TypeOK, Shape, UnderWay, Settled, Upd, Live, fns, jobs, calls, past,
            Versions, ServeInv, ListInv, NewInv, JobInv, ActiveInv, ShotInv
<1>0. UNCHANGED sources => \A f \in Fns : \A n \in DOMAIN versions[f] : Stored(f, n)' = Stored(f, n)
  BY SameStored
<1>1. ASSUME NEW f \in Fns, CreateFunction(f) PROVE ServeInv'
  BY <1>0, <1>1 DEF CreateFunction
<1>2. ASSUME NEW f \in Fns, DeleteFunction(f) PROVE ServeInv'
  BY <1>0, <1>2 DEF DeleteFunction
<1>3. ASSUME NEW f \in Fns, NEW n \in DOMAIN versions[f], ActivateVersion(f, n) PROVE ServeInv'
  BY <1>0, <1>3 DEF ActivateVersion
<1>4. ASSUME NEW j \in Deploys, NEW f \in Fns, NEW k \in Keys \cup {None}, NEW b \in Builds,
             DeployFunction(j, f, b, k)
      PROVE  ServeInv'
  <2>1. CASE Answered(f, k)
    BY <1>0, <1>4, <2>1 DEF DeployFunction
  <2>2. CASE ~Answered(f, k)
    <3>1. /\ job' = [job EXCEPT ![j] = "building"] /\ fnOf' = [fnOf EXCEPT ![j] = f]
          /\ build' = [build EXCEPT ![j] = b] /\ status' = [status EXCEPT ![f] = "building"]
          /\ \A i \in Deploys \ {j} : version'[i] = version[i]
          /\ life[f] = "live"
          /\ UNCHANGED <<life, activeVersion, versions, flags, sources, calls>>
      BY <1>4, <2>2 DEF DeployFunction
    <3>2. ListInv' /\ NewInv' /\ ShotInv'
      BY <1>0, <3>1
    <3>3. ActiveInv'
      BY <3>1
    <3>4. JobInv'
      BY <3>1
    <3> QED
      BY <3>2, <3>3, <3>4
  <2> QED
    BY <2>1, <2>2
<1>5. ASSUME NEW j \in Deploys, NEW f \in Fns, NEW k \in Keys \cup {None}, RedeployFunction(j, f, k)
      PROVE  ServeInv'
  BY <1>4, <1>5 DEF RedeployFunction, Stored
<1>6. ASSUME NEW j \in Deploys, BuildFails(j) PROVE ServeInv'
  BY <1>0, <1>6 DEF BuildFails, Settle
<1>7. ASSUME NEW j \in Deploys, Built(j) PROVE ServeInv'
  <2>0. PICK f \in Fns, b \in Builds : f = fnOf[j] /\ b = build[j]
    BY <1>7 DEF Built
  <2>1. life[f] # "none" /\ b \notin Broken /\ job[j] = "building"
    BY <1>7, <2>0 DEF Built
  <2>9. VersionOf(versions[f], b) \in Nat
    BY VersionFound
  <2>10. PICK n \in Nat : n = VersionOf(versions[f], b)
    BY <2>9
  <2>2. \/ n = Len(versions[f]) + 1
        \/ n \in 1 .. Len(versions[f]) /\ versions[f][n] = b
    BY <2>10, VersionFound
  <2>3. /\ job' = [job EXCEPT ![j] = "deploying"] /\ version' = [version EXCEPT ![j] = n]
        /\ status' = IF f \in Live THEN [status EXCEPT ![f] = "deploying"] ELSE status
        /\ UNCHANGED <<life, activeVersion, flags, fnOf, build, calls>>
    BY <1>7, <2>0, <2>10 DEF Built
  <2>4. NewInv'
    BY <2>0, <2>1, <2>3
  <2>5. CASE n = Len(versions[f]) + 1 /\ f \in Live
    <3>1. sources' = Store(f, n, b) /\ n \in Nat
      BY <1>7, <2>0, <2>10, <2>5 DEF Built
    <3>2. /\ Stored(f, n)' = {b}
          /\ \A g \in Fns, m \in Nat : g # f \/ m # n => Stored(g, m)' = Stored(g, m)
      BY <2>1, <3>1, StoreEffect
    <3>3. versions' = [versions EXCEPT ![f] = Append(versions[f], b)]
      BY <1>7, <2>0, <2>10, <2>5 DEF Built
    <3>4. /\ DOMAIN versions'[f] = 1 .. n /\ versions'[f][n] = b
          /\ \A m \in DOMAIN versions[f] : versions'[f][m] = versions[f][m] /\ m # n
          /\ \A g \in Fns \ {f} : versions'[g] = versions[g]
      BY <2>1, <2>5, <3>3
    <3>5. DOMAIN versions[f] = 1 .. n - 1
      BY <2>1, <2>5
    <3>10. \A g \in Fns : \A m \in DOMAIN versions[g] :
               m \in DOMAIN versions'[g] /\ versions'[g][m] = versions[g][m]
      <4>1. \A m \in DOMAIN versions[f] : m \in DOMAIN versions'[f]
        BY <3>4, <3>5
      <4> QED
        BY <3>4, <4>1
    <3>6. ListInv'
      <4>1. \A m \in DOMAIN versions'[f] :
               versions'[f][m] \notin Broken /\ Stored(f, m)' = {versions'[f][m]}
        <5> SUFFICES ASSUME NEW m \in 1 .. n
                     PROVE  versions'[f][m] \notin Broken /\ Stored(f, m)' = {versions'[f][m]}
          BY <3>4
        <5>1. CASE m = n
          BY <2>1, <3>2, <3>4, <5>1
        <5>2. CASE m # n
          <6>1. m \in DOMAIN versions[f] /\ m \in Nat
            BY <3>5, <5>2
          <6>2. Stored(f, m)' = Stored(f, m) /\ versions'[f][m] = versions[f][m]
            BY <3>2, <3>4, <5>2, <6>1
          <6> QED
            BY <6>1, <6>2
        <5> QED
          BY <5>1, <5>2
      <4>2. \A g \in Fns \ {f} : \A m \in DOMAIN versions'[g] :
               versions'[g][m] \notin Broken /\ Stored(g, m)' = {versions'[g][m]}
        BY <3>2, <3>4
      <4> QED
        BY <2>3, <2>5, <3>4, <4>1, <4>2
    <3>7. JobInv'
      <4>1. /\ \A i \in Deploys \ {j} : job'[i] = job[i] /\ version'[i] = version[i]
            /\ version'[j] = n /\ n \in DOMAIN versions'[f] /\ life' = life
        BY <2>3, <2>5, <3>4, <3>5
      <4> QED
        BY <2>0, <2>1, <2>3, <3>4, <3>10, <4>1
    <3>8. ActiveInv'
      BY <2>0, <2>1, <2>3, <2>5, <3>4
    <3>9. ShotInv'
      BY <2>3, <3>10
    <3> QED
      BY <2>4, <3>6, <3>7, <3>8, <3>9
  <2>6. CASE n = Len(versions[f]) + 1 /\ f \notin Live
    <3>1. sources' = Store(f, n, b) /\ n \in Nat /\ UNCHANGED <<versions, status>>
      BY <1>7, <2>0, <2>1, <2>3, <2>6, <2>10 DEF Built
    <3>2. \A g \in Fns, m \in Nat : g # f \/ m # n => Stored(g, m)' = Stored(g, m)
      BY <2>1, <3>1, StoreEffect
    <3>3. ListInv'
      <4>1. \A m \in DOMAIN versions[f] : FALSE
        BY <2>6
      <4>2. \A g \in Fns \ {f} : \A m \in DOMAIN versions[g] : Stored(g, m)' = Stored(g, m)
        BY <3>2
      <4>3. \A g \in Fns : \A m \in DOMAIN versions'[g] :
               versions'[g][m] \notin Broken /\ Stored(g, m)' = {versions'[g][m]}
        <5> SUFFICES ASSUME NEW g \in Fns, NEW m \in DOMAIN versions[g]
                     PROVE  versions[g][m] \notin Broken /\ Stored(g, m)' = {versions[g][m]}
          BY <3>1
        <5>1. CASE g = f
          BY <4>1, <5>1
        <5>2. CASE g # f
          BY <4>2, <5>2
        <5> QED
          BY <5>1, <5>2
      <4>4. \A g \in Fns : life'[g] # "live" => versions'[g] = <<>>
        BY <2>3, <3>1
      <4> QED
        BY <4>3, <4>4
    <3> QED
      BY <2>0, <2>1, <2>3, <2>4, <2>6, <3>1, <3>3
  <2>7. CASE n \in 1 .. Len(versions[f]) /\ versions[f][n] = b
    <3>1. UNCHANGED <<sources, versions>>
      BY <1>7, <2>0, <2>10, <2>7 DEF Built
    <3>2. ListInv' /\ ShotInv'
      BY <1>0, <2>3, <3>1
    <3>3. JobInv'
      BY <2>0, <2>1, <2>3, <2>7, <3>1
    <3>4. ActiveInv'
      BY <2>0, <2>1, <2>3, <3>1
    <3> QED
      BY <2>4, <3>2, <3>3, <3>4
  <2> QED
    BY <2>2, <2>5, <2>6, <2>7
<1>8. ASSUME NEW j \in Deploys, Activate(j) PROVE ServeInv'
  <2>1. /\ job' = [job EXCEPT ![j] = "ready"] /\ job[j] = "deploying"
        /\ UNCHANGED <<life, versions, sources, fnOf, build, version, calls>>
    BY <1>8 DEF Activate, Settle
  <2>2. ListInv' /\ JobInv' /\ ShotInv'
    BY <1>0, <2>1
  <2>3. CASE fnOf[j] \in Live
    <3>1. /\ flags' = [flags EXCEPT ![fnOf[j]] = {version[j]}]
          /\ activeVersion' = [activeVersion EXCEPT ![fnOf[j]] = version[j]]
          /\ status' = [status EXCEPT ![fnOf[j]] = "ready"]
      BY <1>8, <2>3 DEF Activate
    <3>2. NewInv' /\ ActiveInv'
      BY <2>1, <2>3, <3>1
    <3> QED
      BY <2>2, <3>2
  <2>4. CASE fnOf[j] \notin Live
    <3>1. UNCHANGED <<flags, activeVersion, status>>
      BY <1>8, <2>4 DEF Activate
    <3> QED
      BY <2>1, <2>2, <3>1
  <2> QED
    BY <2>3, <2>4
<1>9. ASSUME NEW i \in Invocations, NEW f \in Fns, Invoke(i, f) PROVE ServeInv'
  <2>1. UNCHANGED <<fns, jobs, inFlight>>
    BY <1>9 DEF Invoke
  <2>2. ListInv' /\ NewInv' /\ JobInv' /\ ActiveInv'
    BY <1>0, <2>1
  <2> DEFINE n == activeVersion[f]
  <2>3. CASE call' = [call EXCEPT ![i] = "over"] /\ UNCHANGED shot
    BY <2>1, <2>2, <2>3
  <2>4. ASSUME NEW b \in Stored(f, n), f \in Live, status[f] = "ready",
               call' = [call EXCEPT ![i] = "rated"], shot' = [shot EXCEPT ![i] = Source(f, n, b)]
        PROVE  ServeInv'
    <3>1. n \in DOMAIN versions[f] /\ b = versions[f][n] /\ b \notin Broken /\ b \in Builds
      BY <2>4 DEF Stored
    <3>2. /\ Source(f, n, b) \in Versions /\ Source(f, n, b).fn = f
          /\ Source(f, n, b).version = n /\ Source(f, n, b).source = b
      BY <3>1 DEF Source
    <3>3. shot'[i] = Source(f, n, b) /\ \A h \in Invocations \ {i} : shot'[h] = shot[h]
      BY <2>4
    <3>4. \A h \in Invocations \ {i} : call'[h] = call[h]
      BY <2>4
    <3>5. ShotInv'
      BY <2>1, <2>4, <3>1, <3>2, <3>3, <3>4
    <3> QED
      BY <2>2, <3>5
  <2> QED
    BY <1>9, <2>3, <2>4 DEF Invoke
<1>10. ASSUME NEW i \in Invocations, Execute(i) PROVE ServeInv'
  BY <1>0, <1>10 DEF Execute
<1>11. ASSUME NEW i \in Invocations, Finish(i) PROVE ServeInv'
  BY <1>0, <1>11 DEF Finish
<1>12. ASSUME Restart PROVE ServeInv'
  BY <1>12 DEF Restart
<1>13. CASE UNCHANGED vars
  BY <1>0, <1>13 DEF vars
<1> QED
  BY <1>1, <1>2, <1>3, <1>4, <1>5, <1>6, <1>7, <1>8, <1>9, <1>10, <1>11, <1>12, <1>13
  DEF Next, FnStep, DeployStep, Pipeline, CallStep

LEMMA ServeInit == Init => ServeInv
BY DEF Init, ServeInv, ListInv, NewInv, JobInv, ActiveInv, ShotInv, Live, UnderWay

\* A ready function serves a verified artifact, the one its active version was
\* made of, and so does every invocation under way, whatever deployments,
\* activations, deletions and restarts overlap.
THEOREM ReadyMeansVerified == Spec => []ReadyIsVerified
<1>1. TypeInv /\ ServeInv => ReadyIsVerified
  BY DEF TypeInv, TypeOK, ServeInv, ListInv, ActiveInv, ShotInv, ReadyIsVerified, Live
<1> QED
  BY <1>1, TypeInit, TypeStep, ServeInit, ServeStep, PTL DEF Spec

-----------------------------------------------------------------------------
(* The counter of executing invocations.                                   *)

LEMMA RunningFinite == \A f : IsFiniteSet(Running(f)) /\ Cardinality(Running(f)) \in Nat
BY ConstantsAssumption, FS_Subset, FS_CardinalityType DEF Running

\* Steps that leave the counters, the calls and the shots of executing ones.
LEMMA FlightKept ==
  ASSUME FlightInv, UNCHANGED inFlight,
         \A f \in Fns : life'[f] \in {"none", "live"} => life[f] \in {"none", "live"},
         \A f \in Fns : Running(f)' = Running(f)
  PROVE  FlightInv'
BY DEF FlightInv

\* An invocation that does not count itself is over.
LEMMA ExecuteCounts ==
  ASSUME TypeInv, NEW i \in Invocations, Execute(i), UNCHANGED inFlight, ShotInv
  PROVE  call[i] = "rated" /\ call' = [call EXCEPT ![i] = "over"]
<1> USE ConstantsAssumption DEF TypeInv, TypeOK, Upd, ShotInv, Versions
<1>1. call[i] = "rated" /\ shot[i].fn \in Fns
  BY DEF Execute
<1>2. inFlight' = [inFlight EXCEPT ![shot[i].fn] = Count(inFlight[shot[i].fn], 0) + 1] => FALSE
  BY <1>1 DEF Count
<1> QED
  BY <1>1, <1>2 DEF Execute

LEMMA FlightStep == TypeInv /\ ServeInv /\ FlightInv /\ [Next]_vars => FlightInv'
<1> USE ConstantsAssumption
<1> SUFFICES ASSUME TypeInv, ServeInv, FlightInv, [Next]_vars PROVE FlightInv'
  OBVIOUS
<1> USE DEF TypeInv, TypeOK, Upd, Live, fns, jobs, calls, past
<1>1. ASSUME NEW f \in Fns, CreateFunction(f) PROVE FlightInv'
  BY <1>1, FlightKept DEF CreateFunction, Running
<1>2. ASSUME NEW f \in Fns, DeleteFunction(f) PROVE FlightInv'
  BY <1>2 DEF DeleteFunction, FlightInv, Running
<1>3. CASE UNCHANGED <<life, calls>>
  BY <1>3, FlightKept DEF Running
<1>4. ASSUME NEW i \in Invocations, NEW f \in Fns, Invoke(i, f) PROVE FlightInv'
  <2>1. call[i] = "idle" /\ call'[i] # "executing" /\ UNCHANGED <<life, inFlight>>
    BY <1>4 DEF Invoke
  <2>2. \A h \in Invocations \ {i} : call'[h] = call[h] /\ shot'[h] = shot[h]
    BY <1>4 DEF Invoke
  <2> QED
    <3>1. \A h \in Invocations : call'[h] = "executing" <=> call[h] = "executing"
      BY <2>1, <2>2
    <3>2. \A h \in Invocations : call[h] = "executing" => shot'[h] = shot[h]
      BY <2>1, <2>2
    <3>3. \A g \in Fns : Running(g)' = Running(g)
      BY <3>1, <3>2 DEF Running
    <3> QED
      BY <2>1, <3>3, FlightKept
<1>5. ASSUME NEW i \in Invocations, Execute(i) PROVE FlightInv'
  <2>1. CASE UNCHANGED inFlight
    <3>1. \A g \in Fns : Running(g)' = Running(g)
      <4>1. call[i] = "rated" /\ call' = [call EXCEPT ![i] = "over"]
        BY <1>5, <2>1, ExecuteCounts DEF ServeInv
      <4>2. \A h \in Invocations \ {i} : shot'[h] = shot[h]
        BY <1>5 DEF Execute
      <4> QED
        BY <4>1, <4>2 DEF Running
    <3> QED
      BY <1>5, <2>1, <3>1, FlightKept DEF Execute
  <2>2. CASE inFlight' # inFlight
    <3>1. PICK f \in Fns : f = shot[i].fn
      BY <1>5 DEF Execute, ServeInv, ShotInv, Versions
    <3>2. /\ Count(inFlight[f], 0) < MaxConcurrency /\ call[i] = "rated"
          /\ call' = [call EXCEPT ![i] = "executing"]
          /\ inFlight' = [inFlight EXCEPT ![f] = Count(inFlight[f], 0) + 1]
          /\ UNCHANGED <<shot, life>>
      BY <1>5, <2>2, <3>1 DEF Execute
    <3>3. Running(f)' = Running(f) \cup {i} /\ i \notin Running(f)
      BY <3>1, <3>2 DEF Running
    <3>4. Cardinality(Running(f)') = Cardinality(Running(f)) + 1
      BY <3>3, RunningFinite, FS_AddElement
    <3>5. \A g \in Fns \ {f} : Running(g)' = Running(g) /\ inFlight'[g] = inFlight[g]
      BY <3>1, <3>2 DEF Running
    <3>6. Count(inFlight'[f], 0) = Count(inFlight[f], 0) + 1
      BY <3>2 DEF Count
    <3>7. life[f] \in {"none", "live"} =>
             /\ Count(inFlight'[f], 0) = Cardinality(Running(f)')
             /\ Cardinality(Running(f)') <= MaxConcurrency
      BY <3>2, <3>4, <3>6, RunningFinite DEF FlightInv
    <3> QED
      BY <3>2, <3>5, <3>7 DEF FlightInv
  <2> QED
    BY <2>1, <2>2
<1>6. ASSUME NEW i \in Invocations, Finish(i) PROVE FlightInv'
  <2>1. PICK f \in Fns : f = shot[i].fn
    BY <1>6 DEF Finish, ServeInv, ShotInv, Versions
  <2>2. /\ call[i] = "executing" /\ call' = [call EXCEPT ![i] = "over"]
        /\ inFlight' = [inFlight EXCEPT ![f] = Count(inFlight[f], 1) - 1]
        /\ \A h \in Invocations \ {i} : shot'[h] = shot[h]
        /\ UNCHANGED life
    BY <1>6, <2>1 DEF Finish
  <2>3. Running(f)' = Running(f) \ {i} /\ i \in Running(f)
    BY <2>1, <2>2 DEF Running
  <2>4. Cardinality(Running(f)') = Cardinality(Running(f)) - 1
    BY <2>3, RunningFinite, FS_RemoveElement
  <2>5. Cardinality(Running(f)) # 0
    BY <2>3, RunningFinite, FS_EmptySet
  <2>6. \A g \in Fns \ {f} : Running(g)' = Running(g) /\ inFlight'[g] = inFlight[g]
    BY <2>1, <2>2 DEF Running
  <2>7. life[f] \in {"none", "live"} =>
           /\ Count(inFlight'[f], 0) = Cardinality(Running(f)')
           /\ Cardinality(Running(f)') <= MaxConcurrency
    <3> SUFFICES ASSUME life[f] \in {"none", "live"}
                 PROVE  /\ Count(inFlight'[f], 0) = Cardinality(Running(f)')
                        /\ Cardinality(Running(f)') <= MaxConcurrency
      OBVIOUS
    <3>1. inFlight[f] # None /\ inFlight[f] = Cardinality(Running(f))
      BY <2>5 DEF FlightInv, Count
    <3>2. Count(inFlight'[f], 0) = inFlight[f] - 1
      BY <2>2, <3>1 DEF Count
    <3> QED
      BY <2>4, <3>1, <3>2, RunningFinite DEF FlightInv
  <2> QED
    BY <2>2, <2>6, <2>7 DEF FlightInv
<1>7. ASSUME Restart PROVE FlightInv'
  <2>1. /\ \A f \in Fns : inFlight'[f] = None
        /\ \A i \in Invocations : call'[i] # "executing"
    BY <1>7 DEF Restart
  <2>2. \A f \in Fns : Running(f)' = {}
    BY <2>1 DEF Running
  <2>3. \A f \in Fns : Cardinality(Running(f)') = 0
    BY <2>2, FS_EmptySet
  <2> QED
    BY <2>1, <2>3 DEF FlightInv, Count
<1> QED
  BY <1>1, <1>2, <1>3, <1>4, <1>5, <1>6, <1>7
  DEF Next, FnStep, DeployStep, Pipeline, CallStep, vars, ActivateVersion, RedeployFunction,
      DeployFunction, BuildFails, Built, Activate

LEMMA FlightInit == Init => FlightInv
<1> SUFFICES ASSUME Init PROVE FlightInv
  OBVIOUS
<1>1. \A f \in Fns : Running(f) = {} /\ inFlight[f] = None
  BY DEF Init, Running
<1>2. \A f \in Fns : Cardinality(Running(f)) = 0
  BY <1>1, FS_EmptySet
<1> QED
  BY <1>1, <1>2, ConstantsAssumption DEF FlightInv, Count

\* The counter of a live function is exact and within the limit, however its
\* invocations end and whatever functions are deleted meanwhile.
THEOREM InFlightCountsExecutions == Spec => []InFlightIsExact
<1>1. FlightInv => InFlightIsExact
  BY DEF FlightInv, InFlightIsExact, Running, Live
<1> QED
  BY <1>1, TypeInit, TypeStep, ServeInit, ServeStep, FlightInit, FlightStep, PTL DEF Spec

-----------------------------------------------------------------------------
(* The newest deployment decides.                                          *)

\* The jobs asked of a function are its own and were not given up; those under
\* way of a function that is there are among them.
AskedInv ==
    /\ \A f \in Fns :
          /\ life[f] # "live" => asked[f] = <<>>
          /\ \A n \in DOMAIN asked[f] :
                fnOf[asked[f][n]] = f /\ job[asked[f][n]] \in UnderWay \cup Settled
    /\ \A j \in Deploys : job[j] \in UnderWay /\ fnOf[j] \in Live =>
          \E n \in DOMAIN asked[fnOf[j]] : asked[fnOf[j]][n] = j

NewestInv == AskedInv /\ NewestDeployDecides

\* What NewestDeployDecides asks of one function.
Decided(f) ==
    LET last == asked[f][Len(asked[f])] IN
    /\ Len(asked[f]) > 0 /\ f \notin disturbed
    /\ \A n \in DOMAIN asked[f] : job[asked[f][n]] \in Settled
    => /\ status[f] = job[last]
       /\ job[last] = "ready" => versions[f][activeVersion[f]] = build[last]

LEMMA DecidesEach == NewestDeployDecides <=> \A f \in Live : Decided(f)
BY DEF NewestDeployDecides, Decided

\* A function is undisturbed by a step that leaves it and its jobs alone.
LEMMA DecidedKept ==
  ASSUME AskedInv, TypeInv, NEW f \in Live, Decided(f),
         asked'[f] = asked[f], f \in disturbed => f \in disturbed',
         \A n \in DOMAIN asked[f] : /\ job'[asked[f][n]] = job[asked[f][n]]
                                    /\ build'[asked[f][n]] = build[asked[f][n]],
         status'[f] = status[f], versions'[f] = versions[f], activeVersion'[f] = activeVersion[f]
  PROVE  Decided(f)'
<1>1. asked[f] \in Seq(Deploys)
  BY DEF TypeInv, TypeOK, Live
<1>2. Len(asked[f]) > 0 => Len(asked[f]) \in DOMAIN asked[f]
  BY <1>1
<1> QED
  BY <1>1, <1>2 DEF Decided

\* A job of a live function that settles leaves it decided by its newest job, or
\* disturbed.
LEMMA SettleDecides ==
  ASSUME TypeInv, AskedInv, NEW j \in Deploys, NEW f \in Live, f = fnOf[j],
         job[j] \in UnderWay, NEW outcome \in Settled, Settle(j, outcome),
         status'[f] = outcome, build' = build,
         outcome = "ready" => versions'[f][activeVersion'[f]] = build[j]
  PROVE  Decided(f)'
<1> USE DEF TypeInv, TypeOK, Live, Upd
<1> DEFINE last == asked[f][Len(asked[f])]
<1>1. PICK n \in DOMAIN asked[f] : asked[f][n] = j
  BY DEF AskedInv
<1>2. /\ asked' = asked /\ job' = [job EXCEPT ![j] = outcome]
      /\ asked[f] \in Seq(Deploys) /\ Len(asked[f]) \in DOMAIN asked[f] /\ last \in Deploys
  BY <1>1 DEF Settle
<1>3. CASE last = j
  BY <1>2, <1>3 DEF Decided
<1>4. CASE last # j /\ job[last] \in Settled
  <2>1. n < Len(asked[f])
    BY <1>1, <1>2, <1>4
  <2>2. f \in disturbed'
    BY <1>1, <1>2, <1>4, <2>1 DEF Settle
  <2> QED
    BY <2>2 DEF Decided
<1>5. CASE last # j /\ job[last] \notin Settled
  <2>1. job'[last] \notin Settled
    BY <1>2, <1>5
  <2> QED
    BY <1>2, <2>1 DEF Decided
<1> QED
  BY <1>3, <1>4, <1>5

LEMMA SettleAsked ==
  ASSUME TypeInv, AskedInv, NEW j \in Deploys, NEW outcome \in Settled, Settle(j, outcome),
         UNCHANGED <<life, fnOf>>
  PROVE  AskedInv'
BY DEF TypeInv, TypeOK, AskedInv, Settle, Upd, Live, UnderWay, Settled

\* Settling a job touches the jobs asked of no other function.
LEMMA SettleElsewhere ==
  ASSUME TypeInv, AskedInv, NEW j \in Deploys, NEW outcome \in Settled, Settle(j, outcome),
         NEW g \in Live, g # fnOf[j], Decided(g), build' = build,
         status'[g] = status[g], versions'[g] = versions[g], activeVersion'[g] = activeVersion[g]
  PROVE  Decided(g)'
<1>1. \A n \in DOMAIN asked[g] : asked[g][n] # j /\ asked[g][n] \in Deploys
  BY DEF AskedInv, TypeInv, TypeOK, Live
<1>2. asked' = asked /\ (g \in disturbed => g \in disturbed') /\ job' = [job EXCEPT ![j] = outcome]
  BY DEF Settle, Upd
<1>3. \A n \in DOMAIN asked[g] : job'[asked[g][n]] = job[asked[g][n]]
  BY <1>1, <1>2 DEF TypeInv, TypeOK
<1> QED
  BY <1>2, <1>3, DecidedKept

\* A job under way keeps the other jobs of its function from deciding.
LEMMA UnderWayDecides ==
  ASSUME TypeInv, AskedInv, NEW j \in Deploys, NEW f \in Live, f = fnOf[j],
         job[j] \in UnderWay, asked' = asked, job'[j] \in UnderWay
  PROVE  Decided(f)'
<1>1. PICK n \in DOMAIN asked[f] : asked[f][n] = j
  BY DEF AskedInv
<1>2. job'[j] \notin Settled
  BY DEF UnderWay, Settled
<1> QED
  BY <1>1, <1>2 DEF Decided

LEMMA NewestStep == TypeInv /\ ServeInv /\ NewestInv /\ [Next]_vars => NewestInv'
<1> SUFFICES ASSUME TypeInv, ServeInv, NewestInv, [Next]_vars PROVE NewestInv'
  OBVIOUS
<1> USE DEF NewestInv, Upd, fns, jobs, calls, past
<1> USE DecidesEach
<1>0. NewestDeployDecides' <=> \A f \in Live' : Decided(f)'
  BY DEF NewestDeployDecides, Decided
<1>1. ASSUME NEW f \in Fns, CreateFunction(f) PROVE NewestInv'
  <2>1. /\ life[f] = "none" /\ life' = [life EXCEPT ![f] = "live"] /\ life'[f] = "live"
        /\ UNCHANGED <<status, activeVersion, versions, jobs, past>>
    BY <1>1 DEF CreateFunction, TypeInv, TypeOK
  <2>2. AskedInv'
    <3>1. \A j \in Deploys : job[j] \in UnderWay => fnOf[j] \in Fns /\ fnOf[j] # f
      BY <2>1 DEF ServeInv, JobInv, TypeInv, Shape
    <3>2. \A g \in Fns \ {f} : life'[g] = life[g]
      BY <2>1 DEF TypeInv, TypeOK
    <3> QED
      BY <2>1, <3>1, <3>2 DEF AskedInv, Live
  <2>3. Decided(f)'
    <3>1. asked'[f] = <<>>
      BY <2>1 DEF AskedInv
    <3> QED
      BY <3>1 DEF Decided
  <2>4. \A g \in Live' \ {f} : g \in Live /\ Decided(g)'
    BY <2>1, DecidedKept DEF Live, TypeInv, TypeOK
  <2> QED
    BY <1>0, <2>2, <2>3, <2>4
<1>2. ASSUME NEW f \in Fns, DeleteFunction(f) PROVE NewestInv'
  <2>1. /\ life' = [life EXCEPT ![f] = "gone"] /\ asked' = [asked EXCEPT ![f] = <<>>]
        /\ disturbed' = disturbed \ {f} /\ UNCHANGED jobs
        /\ \A g \in Fns \ {f} : /\ status'[g] = status[g] /\ versions'[g] = versions[g]
                                /\ activeVersion'[g] = activeVersion[g]
    BY <1>2 DEF DeleteFunction, TypeInv, TypeOK
  <2>2. AskedInv'
    BY <2>1 DEF AskedInv, TypeInv, TypeOK, Live
  <2>3. \A g \in Live' : g \in Live /\ g # f /\ asked'[g] = asked[g]
    BY <2>1 DEF Live, TypeInv, TypeOK
  <2>4. \A g \in Live' : Decided(g)'
    BY <2>1, <2>3, DecidedKept DEF Live
  <2> QED
    BY <1>0, <2>2, <2>4
<1>3. ASSUME NEW f \in Fns, NEW n \in DOMAIN versions[f], ActivateVersion(f, n) PROVE NewestInv'
  <2>1. /\ disturbed' = disturbed \cup {f} /\ UNCHANGED <<life, jobs, asked>>
        /\ \A g \in Fns \ {f} : /\ status'[g] = status[g] /\ versions'[g] = versions[g]
                                /\ activeVersion'[g] = activeVersion[g]
    BY <1>3 DEF ActivateVersion, TypeInv, TypeOK
  <2>2. AskedInv'
    BY <2>1 DEF AskedInv, Live
  <2>3. Decided(f)'
    BY <2>1 DEF Decided
  <2>4. \A g \in Live' \ {f} : Decided(g)'
    BY <2>1, DecidedKept DEF Live
  <2> QED
    BY <1>0, <2>2, <2>3, <2>4
<1>4. ASSUME NEW j \in Deploys, NEW f \in Fns, NEW k \in Keys \cup {None}, NEW b \in Builds,
             DeployFunction(j, f, b, k)
      PROVE  NewestInv'
  <2>1. /\ job[j] = "idle" /\ f \in Live /\ asked[f] \in Seq(Deploys)
        /\ \A g \in Fns : \A n \in DOMAIN asked[g] : asked[g][n] # j /\ asked[g][n] \in Deploys
    <3>1. job[j] = "idle" /\ f \in Live
      BY <1>4 DEF DeployFunction
    <3>2. "idle" \notin UnderWay \cup Settled
      BY DEF UnderWay, Settled
    <3>3. \A g \in Fns : asked[g] \in Seq(Deploys)
      BY DEF TypeInv, TypeOK
    <3>4. \A g \in Fns : \A n \in DOMAIN asked[g] : asked[g][n] # j
      BY <3>1, <3>2 DEF AskedInv
    <3>5. \A g \in Fns : \A n \in DOMAIN asked[g] : asked[g][n] \in Deploys
      BY <3>3
    <3> QED
      BY <3>1, <3>3, <3>4, <3>5
  <2>2. CASE Answered(f, k)
    <3>1. job' = [job EXCEPT ![j] = "duplicate"] /\ UNCHANGED <<fns, fnOf, build, past>>
      BY <1>4, <2>2 DEF DeployFunction
    <3>2. AskedInv'
      BY <2>1, <3>1 DEF AskedInv, TypeInv, TypeOK, Live, UnderWay
    <3>3. \A g \in Live' : Decided(g)'
      BY <2>1, <3>1, DecidedKept DEF Live, TypeInv, TypeOK
    <3> QED
      BY <1>0, <3>2, <3>3
  <2>3. CASE ~Answered(f, k)
    <3>1. /\ job' = [job EXCEPT ![j] = "building"] /\ fnOf' = [fnOf EXCEPT ![j] = f]
          /\ build' = [build EXCEPT ![j] = b]
          /\ status' = [status EXCEPT ![f] = "building"]
          /\ asked' = [asked EXCEPT ![f] = Append(asked[f], j)]
          /\ disturbed' = disturbed \ {f}
          /\ UNCHANGED <<life, activeVersion, versions>>
      BY <1>4, <2>3 DEF DeployFunction
    <3>2. /\ DOMAIN asked'[f] = 1 .. Len(asked[f]) + 1 /\ asked'[f][Len(asked[f]) + 1] = j
          /\ DOMAIN asked[f] = 1 .. Len(asked[f])
          /\ \A n \in DOMAIN asked[f] : asked'[f][n] = asked[f][n]
      BY <2>1, <3>1 DEF TypeInv, TypeOK, Live
    <3>3. \A g \in Fns \ {f} : asked'[g] = asked[g]
      BY <3>1 DEF TypeInv, TypeOK
    <3>4. job'[j] = "building" /\ fnOf'[j] = f /\ \A i \in Deploys \ {j} :
             job'[i] = job[i] /\ fnOf'[i] = fnOf[i] /\ build'[i] = build[i]
      BY <3>1 DEF TypeInv, TypeOK
    <3>5. AskedInv'
      <4>1. ASSUME NEW g \in Fns
            PROVE  /\ life'[g] # "live" => asked'[g] = <<>>
                   /\ \A n \in DOMAIN asked'[g] :
                         /\ fnOf'[asked'[g][n]] = g
                         /\ job'[asked'[g][n]] \in UnderWay \cup Settled
        <5>1. CASE g = f
          <6>1. life'[f] = "live"
            BY <2>1, <3>1 DEF Live
          <6>2. ASSUME NEW n \in DOMAIN asked'[f]
                PROVE  /\ fnOf'[asked'[f][n]] = f
                       /\ job'[asked'[f][n]] \in UnderWay \cup Settled
            <7>1. CASE n = Len(asked[f]) + 1
              BY <3>2, <3>4, <7>1 DEF UnderWay
            <7>2. CASE n \in DOMAIN asked[f]
              BY <2>1, <3>2, <3>4, <7>2 DEF AskedInv, Live
            <7> QED
              BY <3>2, <7>1, <7>2
          <6> QED
            BY <5>1, <6>1, <6>2
        <5>2. CASE g # f
          BY <2>1, <3>1, <3>3, <3>4, <5>2 DEF AskedInv
        <5> QED
          BY <5>1, <5>2
      <4>2. ASSUME NEW i \in Deploys, job'[i] \in UnderWay, fnOf'[i] \in Live'
            PROVE  \E n \in DOMAIN asked'[fnOf'[i]] : asked'[fnOf'[i]][n] = i
        <5>1. CASE i = j
          <6>1. Len(asked[f]) + 1 \in DOMAIN asked'[f]
            BY <2>1, <3>2
          <6> QED
            BY <3>2, <3>4, <5>1, <6>1
        <5>2. CASE i # j
          <6>1. PICK n \in DOMAIN asked[fnOf[i]] : asked[fnOf[i]][n] = i
            BY <3>1, <3>4, <4>2, <5>2 DEF AskedInv, Live
          <6>2. n \in DOMAIN asked'[fnOf[i]] /\ asked'[fnOf[i]][n] = i
            <7>1. CASE fnOf[i] = f
              BY <3>2, <6>1, <7>1
            <7>2. CASE fnOf[i] # f
              BY <3>1, <3>3, <3>4, <4>2, <5>2, <6>1, <7>2 DEF Live
            <7> QED
              BY <7>1, <7>2
          <6> QED
            BY <3>4, <5>2, <6>2
        <5> QED
          BY <5>1, <5>2
      <4> QED
        BY <4>1, <4>2 DEF AskedInv
    <3>6. Decided(f)'
      <4>1. Len(asked[f]) + 1 \in DOMAIN asked'[f]
        BY <2>1, <3>2
      <4>2. job'[asked'[f][Len(asked[f]) + 1]] \notin Settled
        BY <3>2, <3>4 DEF Settled
      <4> QED
        BY <4>1, <4>2 DEF Decided
    <3>7. ASSUME NEW g \in Live', g # f PROVE Decided(g)'
      <4>1. g \in Live /\ g \in Fns
        BY <3>1, <3>7 DEF Live
      <4>2. \A n \in DOMAIN asked[g] : /\ job'[asked[g][n]] = job[asked[g][n]]
                                       /\ build'[asked[g][n]] = build[asked[g][n]]
        BY <2>1, <3>4, <4>1
      <4>3. /\ asked'[g] = asked[g] /\ (g \in disturbed => g \in disturbed')
            /\ status'[g] = status[g]
            /\ versions'[g] = versions[g] /\ activeVersion'[g] = activeVersion[g]
        BY <3>1, <3>3, <3>7, <4>1 DEF TypeInv, TypeOK
      <4>4. Decided(g)
        BY <4>1
      <4> QED
        BY <4>1, <4>2, <4>3, <4>4, DecidedKept
    <3> QED
      BY <1>0, <3>5, <3>6, <3>7
  <2> QED
    BY <2>2, <2>3
<1>5. ASSUME NEW j \in Deploys, NEW f \in Fns, NEW k \in Keys \cup {None}, RedeployFunction(j, f, k)
      PROVE  NewestInv'
  BY <1>4, <1>5 DEF RedeployFunction, Stored
<1>6. ASSUME NEW j \in Deploys, BuildFails(j) PROVE NewestInv'
  <2>1. /\ job[j] \in UnderWay /\ Settle(j, "failed") /\ "failed" \in Settled
        /\ UNCHANGED <<life, activeVersion, versions, fnOf, build>>
        /\ status' = IF fnOf[j] \in Live THEN [status EXCEPT ![fnOf[j]] = "failed"] ELSE status
    BY <1>6 DEF BuildFails, UnderWay, Settled
  <2>2. AskedInv'
    BY <2>1, SettleAsked
  <2>3. fnOf[j] \in Live => Decided(fnOf[j])'
    BY <2>1, SettleDecides DEF TypeInv, TypeOK, Live
  <2>4. \A g \in Live : g # fnOf[j] => status'[g] = status[g]
    BY <2>1 DEF TypeInv, TypeOK, Live
  <2>5. \A g \in Live : g # fnOf[j] => Decided(g)'
    BY <2>1, <2>4, SettleElsewhere
  <2> QED
    BY <1>0, <2>1, <2>2, <2>3, <2>5 DEF Live
<1>7. ASSUME NEW j \in Deploys, Built(j) PROVE NewestInv'
  <2>1. /\ job[j] = "building" /\ job' = [job EXCEPT ![j] = "deploying"]
        /\ UNCHANGED <<life, activeVersion, fnOf, build, past>>
        /\ \A g \in Live : g # fnOf[j] => status'[g] = status[g] /\ versions'[g] = versions[g]
    BY <1>7 DEF Built, TypeInv, TypeOK, Live
  <2>2. \A i \in Deploys \ {j} : job'[i] = job[i]
    BY <2>1 DEF TypeInv, TypeOK
  <2>3. job'[j] \in UnderWay /\ job[j] \in UnderWay
    BY <2>1 DEF TypeInv, TypeOK, UnderWay
  <2>4. AskedInv'
    BY <2>1, <2>2, <2>3 DEF AskedInv, Live, TypeInv, TypeOK
  <2>5. fnOf[j] \in Live => Decided(fnOf[j])'
    BY <2>1, <2>3, UnderWayDecides
  <2>6. ASSUME NEW g \in Live, g # fnOf[j] PROVE Decided(g)'
    <3>1. \A n \in DOMAIN asked[g] : asked[g][n] # j /\ asked[g][n] \in Deploys
      BY <2>6 DEF AskedInv, TypeInv, TypeOK, Live
    <3> QED
      BY <2>1, <2>2, <2>6, <3>1, DecidedKept
  <2> QED
    BY <1>0, <2>1, <2>4, <2>5, <2>6 DEF Live
<1>8. ASSUME NEW j \in Deploys, Activate(j) PROVE NewestInv'
  <2>1. /\ job[j] = "deploying" /\ job[j] \in UnderWay
        /\ Settle(j, "ready") /\ "ready" \in Settled
        /\ UNCHANGED <<life, versions, fnOf, build>>
        /\ fnOf[j] \notin Live => UNCHANGED <<activeVersion, status>>
        /\ fnOf[j] \in Live => /\ activeVersion' = [activeVersion EXCEPT ![fnOf[j]] = version[j]]
                               /\ status' = [status EXCEPT ![fnOf[j]] = "ready"]
    BY <1>8 DEF Activate, UnderWay, Settled
  <2>2. AskedInv'
    BY <2>1, SettleAsked
  <2>3. fnOf[j] \in Live => Decided(fnOf[j])'
    <3> SUFFICES ASSUME fnOf[j] \in Live PROVE Decided(fnOf[j])'
      OBVIOUS
    <3>1. versions[fnOf[j]][version[j]] = build[j]
      BY <2>1 DEF ServeInv, JobInv
    <3>2. status'[fnOf[j]] = "ready" /\ activeVersion'[fnOf[j]] = version[j]
      BY <2>1 DEF TypeInv, TypeOK, Live
    <3> QED
      BY <2>1, <3>1, <3>2, SettleDecides
  <2>4. \A g \in Live : g # fnOf[j] => status'[g] = status[g] /\ activeVersion'[g] = activeVersion[g]
    BY <2>1 DEF TypeInv, TypeOK, Live
  <2>5. \A g \in Live : g # fnOf[j] => Decided(g)'
    BY <2>1, <2>4, SettleElsewhere
  <2> QED
    BY <1>0, <2>1, <2>2, <2>3, <2>5 DEF Live
<1>9. ASSUME Restart PROVE NewestInv'
  <2>1. /\ \A f \in Fns : life'[f] # "live" /\ asked'[f] = <<>>
        /\ \A j \in Deploys : job'[j] \notin UnderWay
    BY <1>9 DEF Restart, TypeInv, TypeOK, UnderWay
  <2>2. AskedInv'
    BY <2>1 DEF AskedInv
  <2> QED
    BY <1>0, <2>1, <2>2 DEF Live
<1>10. CASE UNCHANGED <<life, status, activeVersion, versions, jobs, past>>
  BY <1>10 DEF AskedInv, NewestDeployDecides, Live
<1> QED
  BY <1>1, <1>2, <1>3, <1>4, <1>5, <1>6, <1>7, <1>8, <1>9, <1>10
  DEF Next, FnStep, DeployStep, Pipeline, CallStep, vars, Invoke, Execute, Finish

LEMMA NewestInit == Init => NewestInv
BY DEF Init, NewestInv, AskedInv, NewestDeployDecides, Live, UnderWay

\* With every deployment of a function settled the newest one has decided what
\* is served, unless an older one finished after it or a version was activated
\* by hand, for any number of deployments overlapping in any order.
THEOREM NewestDeploymentDecides == Spec => []NewestDeployDecides
<1>1. NewestInv => NewestDeployDecides
  BY DEF NewestInv
<1> QED
  BY <1>1, TypeInit, TypeStep, ServeInit, ServeStep, NewestInit, NewestStep, PTL DEF Spec
=============================================================================
