---------------------------- MODULE Provisioning ----------------------------
(***************************************************************************)
(* The control plane's provisioning pipeline on its durable stores: the    *)
(* request handlers of apps/api/src/projects.ts, the driver of             *)
(* packages/provisioning/src/orchestrator.ts, the Drizzle job store and    *)
(* registry, the managed Postgres provider and the worker that reaps       *)
(* orphaned jobs.                                                          *)
(*                                                                         *)
(* Every handler is a process: between two of its awaited calls any other  *)
(* handler, the worker or a crash of the API process may run.  A request   *)
(* is sent once; its id also names what it makes: create request c makes   *)
(* project c, request r makes job row r and generates password r.          *)
(***************************************************************************)
EXTENDS Naturals, FiniteSets

CONSTANTS
    Creates,        \* POST /projects requests
    Reprovisions,   \* POST /projects/:id/database/provision requests
    Deletes,        \* DELETE /projects/:id requests
    Orgs, Slugs, Keys,
    Body,           \* what each create request carries: [org, slug, key]
    Names, NameOf,  \* what a slug is cut down to for its database and role
    MaxAttempts,    \* PROVISION_MAX_ATTEMPTS
    MaxRequests,    \* bound: requests that are sent
    MaxFaults,      \* bound: statements that fail
    MaxCrashes,     \* bound: restarts of the API process
    None

Requests == Creates \cup Reprovisions \cup Deletes
Drivers  == Creates \cup Reprovisions

ASSUME ConstantsAssumption ==
    /\ Creates \cap Reprovisions = {}
    /\ Creates \cap Deletes = {}
    /\ Reprovisions \cap Deletes = {}
    /\ Body \in [Creates -> [org : Orgs, slug : Slugs, key : Keys]]
    /\ NameOf \in [Slugs -> Names]
    /\ MaxAttempts \in Nat \ {0}
    /\ MaxRequests \in Nat /\ MaxFaults \in Nat /\ MaxCrashes \in Nat
    /\ None \notin Requests

Terminal  == {"completed", "failed"}
Stale     == {"pending", "retrying"}
JobStatus == {"none", "running"} \cup Stale \cup Terminal

\* Where a handler stands: about to make the call its state is named for.
ProviderPC == {"adopt", "role", "db", "droprole", "health", "dropdb",
               "dropdbrole", "verify"}
DrivePC    == {"start", "complete", "log", "error", "giveup"} \cup ProviderPC
DeletePC   == {"deldb", "delrole", "delok", "delfail"}
PC == {"idle", "mkproject", "mkjob", "saverec", "savecred", "deljob",
       "delproject", "done"} \cup DrivePC \cup DeletePC

VARIABLES
    projects,   \* rows of the projects table
    record,     \* projects with a project_databases row
    cred,       \* the password in the project's database_credentials row
    job,        \* status of each provisioning_jobs row, "none" when absent
    aged,       \* jobs whose updatedAt is older than WORKER_STALE_MS
    role,       \* per name: whose password the Postgres role has
    db,         \* names whose Postgres database exists
    pc, target, \* per handler: where it stands, the project it works for
    drives,     \* the job row a driver resumes (resumeJobId)
    attempt,
    reap,       \* the worker's snapshot of stale jobs
    contested,  \* history: projects whose name others had a hold on (see Disputed)
    missed,     \* history: requests that a control-plane statement failed for
    faults, crashes

control  == <<projects, record, cred>>
history  == <<contested, missed>>
infra    == <<role, db>>
handlers == <<pc, target, drives, attempt>>
vars == <<control, history, job, aged, infra, handlers, reap, faults, crashes>>

Org(t) == Body[t].org

\* dbNameFor and dbUserFor: forty characters of the slug, "-" written as "_",
\* without the organization.
Name(t) == NameOf[Body[t].slug]

TypeOK ==
    /\ projects \subseteq Creates
    /\ record \subseteq Creates
    /\ cred \in [Creates -> Drivers \cup {None}]
    /\ job \in [Requests -> JobStatus]
    /\ aged \subseteq Drivers
    /\ role \in [Names -> Drivers \cup {None}]
    /\ db \subseteq Names
    /\ pc \in [Requests -> PC]
    /\ target \in [Requests -> Creates \cup {None}]
    /\ drives \in [Requests -> Drivers \cup {None}]
    /\ attempt \in [Requests -> 0 .. MaxAttempts]
    /\ reap \subseteq Drivers
    /\ contested \subseteq Creates
    /\ missed \subseteq Requests
    /\ faults \in 0 .. MaxFaults
    /\ crashes \in 0 .. MaxCrashes

Init ==
    /\ projects = {} /\ record = {}
    /\ contested = {} /\ missed = {}
    /\ cred = [t \in Creates |-> None]
    /\ job = [r \in Requests |-> "none"]
    /\ aged = {} /\ reap = {}
    /\ role = [n \in Names |-> None] /\ db = {}
    /\ pc = [r \in Requests |-> "idle"]
    /\ target = [r \in Requests |-> None]
    /\ drives = [r \in Requests |-> None]
    /\ attempt = [r \in Requests |-> 0]
    /\ faults = 0 /\ crashes = 0

CanSend == Cardinality({r \in Requests : pc[r] # "idle"}) < MaxRequests

Goto(r, label) == pc' = [pc EXCEPT ![r] = label]
Moved(r, from, to) == pc[r] = from /\ Goto(r, to)
SetJob(j, status) == job' = [job EXCEPT ![j] = status]

-----------------------------------------------------------------------------
(* POST /projects: idempotency pre-check, project row, job row, 202.       *)

\* A row with the request's key; a cascade removes rows with their project.
RowsWithKey(c) ==
    {b \in Creates : job[b] # "none" /\ Org(b) = Org(c) /\ Body[b].key = Body[c].key}

\* findByKey before any write: a live job answers the request.
FindByKey(c) ==
    /\ pc[c] = "idle" /\ CanSend
    /\ IF \E b \in RowsWithKey(c) : job[b] # "failed" /\ b \in projects
         THEN Goto(c, "done")
         ELSE Goto(c, "mkproject")
    /\ UNCHANGED <<control, history, job, aged, infra, target, drives, attempt, reap, faults, crashes>>

\* registry.createProject: the slug is unique in the organization.
CreateProject(c) ==
    /\ pc[c] = "mkproject"
    /\ IF \E t \in projects : Org(t) = Org(c) /\ Body[t].slug = Body[c].slug
         THEN Goto(c, "done") /\ UNCHANGED <<projects, target>>
         ELSE /\ projects' = projects \cup {c}
              /\ target' = [target EXCEPT ![c] = c]
              /\ Goto(c, "mkjob")
    /\ UNCHANGED <<record, cred, history, job, aged, infra, drives, attempt, reap, faults, crashes>>

\* DrizzleJobStore.create: an existing row with the key wins, whatever its
\* status (the unique constraint); without its project the insert fails.
CreateJob(c) ==
    /\ pc[c] = "mkjob"
    /\ IF RowsWithKey(c) # {}
         THEN \E b \in RowsWithKey(c) :
                /\ drives' = [drives EXCEPT ![c] = b]
                /\ Goto(c, "start")
                /\ UNCHANGED job
       ELSE IF c \in projects
         THEN /\ SetJob(c, "pending")
              /\ drives' = [drives EXCEPT ![c] = c]
              /\ Goto(c, "start")
       ELSE Goto(c, "done") /\ UNCHANGED <<job, drives>>
    /\ UNCHANGED <<control, history, aged, infra, target, attempt, reap, faults, crashes>>

-----------------------------------------------------------------------------
(* POST /projects/:id/database/provision: only without a database record;  *)
(* its key holds the time, so the insert never meets another row.          *)

Reprovision(r) ==
    /\ pc[r] = "idle" /\ CanSend
    /\ \E t \in projects \ record : target' = [target EXCEPT ![r] = t]
    /\ Goto(r, "mkjob")
    /\ UNCHANGED <<control, history, job, aged, infra, drives, attempt, reap, faults, crashes>>

ReprovisionJob(r) ==
    /\ pc[r] = "mkjob"
    /\ IF target[r] \in projects
         THEN /\ SetJob(r, "pending")
              /\ drives' = [drives EXCEPT ![r] = r]
              /\ Goto(r, "start")
         ELSE Goto(r, "done") /\ UNCHANGED <<job, drives>>
    /\ UNCHANGED <<control, history, aged, infra, target, attempt, reap, faults, crashes>>

-----------------------------------------------------------------------------
(* driveProvision: resume the job row, then attempts until done.           *)

RowExists(p) == job[drives[p]] # "none"

\* findById, status running, attempts 1: each throws when the row is gone.
DriveStart(p) ==
    /\ pc[p] = "start"
    /\ IF RowExists(p)
         THEN /\ SetJob(drives[p], "running")
              /\ aged' = aged \ {drives[p]}
              /\ attempt' = [attempt EXCEPT ![p] = 1]
              /\ Goto(p, "adopt")
         ELSE Goto(p, "done") /\ UNCHANGED <<job, aged, attempt>>
    /\ UNCHANGED <<control, history, infra, target, drives, reap, faults, crashes>>

\* Mutant: the credential is saved first, and finds no record to attach to.
CompleteCredentialFirst(p) ==
    /\ pc[p] = "complete"
    /\ IF RowExists(p)
         THEN SetJob(drives[p], "completed") /\ Goto(p, "savecred")
         ELSE Goto(p, "done") /\ UNCHANGED job
    /\ UNCHANGED <<control, history, aged, infra, target, drives, attempt, reap, faults, crashes>>

Complete(p) ==
    /\ pc[p] = "complete"
    /\ IF RowExists(p)
         THEN SetJob(drives[p], "completed") /\ Goto(p, "log")
         ELSE Goto(p, "done") /\ UNCHANGED job
    /\ UNCHANGED <<control, history, aged, infra, target, drives, attempt, reap, faults, crashes>>

\* jobs.appendLog, still inside the try.
AppendLog(p) ==
    /\ pc[p] = "log"
    /\ Goto(p, IF RowExists(p) THEN "saverec" ELSE "done")
    /\ UNCHANGED <<control, history, job, aged, infra, target, drives, attempt, reap, faults, crashes>>

\* The catch block when one of these two statements failed, which is not a
\* ProvisionerError: the row fails, also one that says completed already.
GiveUp(p) ==
    /\ pc[p] = "giveup"
    /\ IF RowExists(p) THEN SetJob(drives[p], "failed") ELSE UNCHANGED job
    /\ Goto(p, "done")
    /\ UNCHANGED <<control, history, aged, infra, target, drives, attempt, reap, faults, crashes>>

\* Mutant: no budget at all.
AttemptFailedForever(p) ==
    /\ pc[p] = "error"
    /\ SetJob(drives[p], "retrying")
    /\ Goto(p, "adopt")
    /\ UNCHANGED <<control, history, aged, infra, target, drives, attempt, reap, faults, crashes>>

\* The catch block: retry a recoverable failure within the budget.  Every
\* failure of the managed provider is recoverable.
AttemptFailed(p) ==
    /\ pc[p] = "error"
    /\ IF RowExists(p)
         THEN IF attempt[p] < MaxAttempts
                THEN /\ SetJob(drives[p], "retrying")
                     /\ attempt' = [attempt EXCEPT ![p] = @ + 1]
                     /\ Goto(p, "adopt")
                ELSE SetJob(drives[p], "failed") /\ Goto(p, "done") /\ UNCHANGED attempt
         ELSE Goto(p, "done") /\ UNCHANGED <<job, attempt>>
    /\ UNCHANGED <<control, history, aged, infra, target, drives, reap, faults, crashes>>

\* registry.saveDatabase: a foreign key ties the record to the project row.
SaveDatabase(p) ==
    /\ pc[p] = "saverec"
    /\ IF target[p] \in projects
         THEN record' = record \cup {target[p]} /\ Goto(p, "savecred")
         ELSE Goto(p, "done") /\ UNCHANGED record
    /\ UNCHANGED <<projects, cred, history, job, aged, infra, target, drives, attempt, reap, faults,
                   crashes>>

SaveCredential(p) ==
    /\ Moved(p, "savecred", "done")
    /\ cred' = IF target[p] \in record THEN [cred EXCEPT ![target[p]] = p] ELSE cred
    /\ UNCHANGED <<projects, record, history, job, aged, infra, target, drives, attempt, reap, faults,
                   crashes>>

-----------------------------------------------------------------------------
(* ManagedPostgresProvider: one awaited statement per step.  Projects of    *)
(* one name have one database and one role.                                *)

Opens(p) == Name(target[p]) \in db /\ role[Name(target[p])] = p

\* DROP ROLE fails while the role owns a database.
RoleDropped(n) == IF n \in db THEN role ELSE [role EXCEPT ![n] = None]

\* Between creating the role and leaving or dropping what it owns.
Owning == {"db", "droprole", "health", "dropdb", "dropdbrole"}

\* Its database is verified, and not yet saved.
Finishing == {"complete", "log", "saverec", "savecred"}

\* Request r is on the database and the role named n, and the role is not its own.
Meddles(r, n) ==
    /\ target[r] # None /\ Name(target[r]) = n
    /\ pc[r] \in {"deldb", "delrole"} \/ (pc[r] \in Owning /\ role[n] # r)

\* Another project has the name of t and a database record, or is about to
\* have it: a delete of that project drops what has the name.
HasNamesake(t) ==
    \E u \in Creates \ {t} :
        /\ Name(u) = Name(t)
        /\ u \in record \/ \E r \in Requests : target[r] = u /\ pc[r] \in Finishing

Disputed(t) == HasNamesake(t) \/ \E r \in Requests : Meddles(r, Name(t))

\* The statement a handler is about to run fails and the handler goes on at
\* one of the given labels.
Fault(p, labels) ==
    /\ faults < MaxFaults
    /\ faults' = faults + 1
    /\ \E label \in labels : Goto(p, label)
    /\ UNCHANGED <<role, db>>

NoFault == UNCHANGED faults

\* describeIfExists adopts what this password opens; its own failures read
\* as "not there".
Adopt(p) ==
    /\ pc[p] = "adopt"
    /\ \/ Goto(p, IF Opens(p) THEN "verify" ELSE "role") /\ NoFault
       \/ Fault(p, {"role", "error"})
    /\ UNCHANGED infra

\* Mutant: an existing role just gets the new password.
CreateOrAlterRole(p) ==
    /\ pc[p] = "role"
    /\ role' = [role EXCEPT ![Name(target[p])] = p]
    /\ Goto(p, "db")
    /\ UNCHANGED <<db, contested, faults>>

CreateRole(p) ==
    LET t == target[p]
        n == Name(t) IN
    /\ pc[p] = "role"
    /\ \/ /\ role[n] = None
          /\ role' = [role EXCEPT ![n] = p]
          /\ contested' = IF Disputed(t) THEN contested \cup {t} ELSE contested
          /\ Goto(p, "db")
          /\ NoFault
       \/ role[n] # None /\ Goto(p, "error") /\ UNCHANGED <<role, contested>> /\ NoFault
       \/ Fault(p, {"error"}) /\ UNCHANGED contested
    /\ UNCHANGED db

\* CREATE DATABASE ... OWNER, then the lockdown grants (whose failure leaves
\* role and database behind for the next attempt to adopt).
CreateDb(p) ==
    LET n == Name(target[p]) IN
    /\ pc[p] = "db"
    /\ \/ /\ role[n] # None /\ n \notin db
          /\ db' = db \cup {n}
          /\ \/ Goto(p, "health") /\ NoFault
             \/ Goto(p, "error") /\ faults < MaxFaults /\ faults' = faults + 1
       \/ (role[n] = None \/ n \in db) /\ Goto(p, "droprole") /\ UNCHANGED db /\ NoFault
       \/ Fault(p, {"droprole"})
    /\ UNCHANGED role

DropCreatedRole(p) ==
    /\ pc[p] = "droprole"
    /\ \/ role' = RoleDropped(Name(target[p])) /\ Goto(p, "error") /\ NoFault
       \/ Fault(p, {"error"})
    /\ UNCHANGED db

\* The health loop ends healthy or at its deadline, which deletes the database.
AwaitHealth(p) ==
    /\ pc[p] = "health"
    /\ \/ Opens(p) /\ Goto(p, "verify") /\ NoFault
       \/ ~Opens(p) /\ Goto(p, "dropdb") /\ NoFault
       \/ Fault(p, {"dropdb"})
    /\ UNCHANGED infra

\* provider.deleteDatabase, from the health deadline (failures ignored) and
\* from the delete job.
DropDatabase(p, from, next, failed) ==
    /\ pc[p] = from
    /\ \/ db' = db \ {Name(target[p])} /\ Goto(p, next) /\ NoFault
       \/ Fault(p, {failed})
    /\ UNCHANGED role

DropRole(p, from, next, failed) ==
    /\ pc[p] = from
    /\ \/ /\ role' = RoleDropped(Name(target[p]))
          /\ Goto(p, IF Name(target[p]) \in db THEN failed ELSE next)
          /\ NoFault
       \/ Fault(p, {failed})
    /\ UNCHANGED db

\* getStatus with the driver's password before the job may complete.
VerifyHealthy(p) ==
    /\ pc[p] = "verify"
    /\ \/ Goto(p, IF Opens(p) THEN "complete" ELSE "error") /\ NoFault
       \/ Fault(p, {"error"})
    /\ UNCHANGED infra

ProviderStep(p) ==
    /\ \/ CreateRole(p)
       \/ /\ \/ Adopt(p) \/ CreateDb(p) \/ DropCreatedRole(p)
             \/ AwaitHealth(p) \/ VerifyHealthy(p)
             \/ DropDatabase(p, "dropdb", "dropdbrole", "error")
             \/ DropRole(p, "dropdbrole", "error", "error")
          /\ UNCHANGED contested
    /\ UNCHANGED <<control, missed, job, aged, target, drives, attempt, reap, crashes>>

-----------------------------------------------------------------------------
(* DELETE /projects/:id: infrastructure first, then metadata.              *)

\* getDatabaseByProject decides whether there is infrastructure to delete.
Delete(d) ==
    /\ pc[d] = "idle" /\ CanSend
    /\ \E t \in projects :
         /\ target' = [target EXCEPT ![d] = t]
         /\ Goto(d, IF t \in record THEN "deljob" ELSE "delproject")
    /\ UNCHANGED <<control, history, job, aged, infra, drives, attempt, reap, faults, crashes>>

\* runLifecycleJob inserts its row as running.
DeleteJob(d) ==
    /\ pc[d] = "deljob"
    /\ IF target[d] \in projects
         THEN SetJob(d, "running") /\ Goto(d, "deldb")
         ELSE Goto(d, "done") /\ UNCHANGED job
    /\ UNCHANGED <<control, history, aged, infra, target, drives, attempt, reap, faults, crashes>>

DeleteInfra(d) ==
    /\ \/ DropDatabase(d, "deldb", "delrole", "delfail")
       \/ DropRole(d, "delrole", "delok", "delfail")
    /\ UNCHANGED <<control, history, job, aged, target, drives, attempt, reap, crashes>>

\* The job's outcome; a row that is gone makes the handler throw.
DeleteJobDone(d) ==
    /\ \/ /\ pc[d] = "delok" /\ job[d] # "none"
          /\ SetJob(d, "completed") /\ Goto(d, "delproject")
       \/ /\ pc[d] = "delfail" /\ job[d] # "none"
          /\ SetJob(d, "failed") /\ Goto(d, "done")
       \/ /\ pc[d] \in {"delok", "delfail"} /\ job[d] = "none"
          /\ Goto(d, "done") /\ UNCHANGED job
    /\ UNCHANGED <<control, history, aged, infra, target, drives, attempt, reap, faults, crashes>>

\* registry.deleteProject: foreign keys cascade to record, credential, jobs.
DeleteProject(d) ==
    LET t == target[d] IN
    /\ Moved(d, "delproject", "done")
    /\ projects' = projects \ {t}
    /\ record' = record \ {t}
    /\ cred' = [cred EXCEPT ![t] = None]
    /\ job' = [r \in Requests |-> IF target[r] = t THEN "none" ELSE job[r]]
    /\ UNCHANGED <<aged, infra, target, drives, attempt, reap, history, faults, crashes>>

-----------------------------------------------------------------------------
(* The worker, and what the environment does.                              *)

\* The control plane's own statement that a handler is about to run fails.  The
\* handler ends there, at "adopt" for one of the statements before the attempt;
\* within a try it goes on in the catch.
StatementFails(r) ==
    /\ faults < MaxFaults
    /\ faults' = faults + 1
    /\ missed' = missed \cup {r}
    /\ \/ pc[r] \in {"mkproject", "mkjob", "start", "adopt", "error", "giveup", "saverec",
                     "savecred", "deljob", "delfail", "delproject"} /\ Goto(r, "done")
       \/ pc[r] \in {"complete", "log"} /\ Goto(r, "giveup")
       \/ pc[r] = "delok" /\ Goto(r, "delfail")
    /\ UNCHANGED <<control, contested, job, aged, infra, target, drives, attempt, reap, crashes>>

Driven(j) == \E p \in Drivers : drives[p] = j /\ pc[p] \in DrivePC

\* Time passes WORKER_STALE_MS for a row nobody writes.  A live driver keeps
\* its row fresh: an attempt is bounded by the health timeout (60 s by
\* default), the staleness threshold is five minutes by default.
Age(j) ==
    /\ job[j] \in Stale /\ j \notin aged /\ ~Driven(j)
    /\ aged' = aged \cup {j}
    /\ UNCHANGED <<control, history, job, infra, handlers, reap, faults, crashes>>

\* Mutants: the list ignores the rows' age, and misses retrying rows.
WorkerListAnyAge ==
    /\ reap = {}
    /\ reap' = {j \in Drivers : job[j] \in Stale}
    /\ reap' # {}
    /\ UNCHANGED <<control, history, job, aged, infra, handlers, faults, crashes>>

WorkerListPendingOnly ==
    /\ reap = {}
    /\ reap' = {j \in aged : job[j] = "pending"}
    /\ reap' # {}
    /\ UNCHANGED <<control, history, job, aged, infra, handlers, faults, crashes>>

\* drainOnce lists pending and retrying rows only.  Lifecycle jobs are never
\* in either status, so its branch that resumes them has no row to act on.
WorkerList ==
    /\ reap = {}
    /\ reap' = {j \in aged : job[j] \in Stale}
    /\ reap' # {}
    /\ UNCHANGED <<control, history, job, aged, infra, handlers, faults, crashes>>

\* ... and fails each provision job of the list, whatever its status is now.
WorkerReap(j) ==
    /\ j \in reap
    /\ reap' = reap \ {j}
    /\ job' = IF job[j] = "none" THEN job ELSE [job EXCEPT ![j] = "failed"]
    /\ UNCHANGED <<control, history, aged, infra, handlers, faults, crashes>>

\* The API process dies with every handler in it; rows and databases stay.
Crash ==
    /\ crashes < MaxCrashes
    /\ crashes' = crashes + 1
    /\ \E r \in Requests : pc[r] \notin {"idle", "done"}
    /\ pc' = [r \in Requests |-> IF pc[r] = "idle" THEN "idle" ELSE "done"]
    /\ UNCHANGED <<control, history, job, aged, infra, target, drives, attempt, reap, faults>>

-----------------------------------------------------------------------------
DriverStep(p) ==
    \/ DriveStart(p) \/ ProviderStep(p) \/ Complete(p) \/ AppendLog(p) \/ AttemptFailed(p)
    \/ GiveUp(p) \/ SaveDatabase(p) \/ SaveCredential(p)

CreateStep(c) == CreateProject(c) \/ CreateJob(c) \/ DriverStep(c)
ReprovisionStep(r) == ReprovisionJob(r) \/ DriverStep(r)
DeleteStep(d) == DeleteJob(d) \/ DeleteInfra(d) \/ DeleteJobDone(d) \/ DeleteProject(d)

Next ==
    \/ \E c \in Creates : FindByKey(c) \/ CreateStep(c)
    \/ \E r \in Reprovisions : Reprovision(r) \/ ReprovisionStep(r)
    \/ \E d \in Deletes : Delete(d) \/ DeleteStep(d)
    \/ \E j \in Drivers : Age(j) \/ WorkerReap(j)
    \/ WorkerList
    \/ \E r \in Requests : StatementFails(r)
    \/ Crash

Spec == Init /\ [][Next]_vars

(***************************************************************************)
(* A handler the event loop runs keeps running, the worker keeps polling,  *)
(* time passes.  Nobody is obliged to send a request.                      *)
(***************************************************************************)
FairSpec ==
    /\ Spec
    /\ \A c \in Creates : WF_vars(CreateStep(c))
    /\ \A r \in Reprovisions : WF_vars(ReprovisionStep(r))
    /\ \A d \in Deletes : WF_vars(DeleteStep(d))
    /\ \A j \in Drivers : WF_vars(Age(j)) /\ WF_vars(WorkerReap(j))
    /\ WF_vars(WorkerList)

-----------------------------------------------------------------------------
(* Properties                                                              *)

\* The job row of request r was handed to another request by JobStore.create.
Shared(r) == \E p \in Drivers \ {r} : drives[p] = r

\* "terminal states (completed/failed) are never re-driven" (operations.md): the
\* worker, a late step of a driver, a crash or a delete never takes a row out of
\* a terminal state.  Two things can: a second request that JobStore.create
\* handed the row to, and the driver's own catch, which fails a completed row
\* when the statement after it fails.
TerminalIsFinalUnlessShared ==
    [][\A r \in Requests :
          job[r] \in Terminal /\ ~Shared(r) =>
              \/ job'[r] \in {job[r], "none"}
              \/ pc[r] = "giveup" /\ r \in missed /\ job[r] = "completed" /\ job'[r] = "failed"]_vars

\* A project whose credential has been saved can be opened with it: its
\* database exists and the role has that very password.  Drivers with different
\* passwords, projects whose names are cut down to the same, and faults may be
\* under way.  Only a delete of the project that has begun its job excuses the
\* database, and a hold that others had on the name when the project's role was
\* created: a delete job that was still at it, or a project of that name whose
\* database was dropped but not its record, so that it can be deleted again.
SavedCredentialOpens ==
    \A t \in projects \ contested :
        cred[t] # None /\ (\A d \in Deletes : target[d] = t => job[d] = "none")
            => Name(t) \in db /\ role[Name(t)] = cred[t]

\* The driver of the row, or the request itself, ended on a failed statement.
Missed(r) == \E q \in missed : q = r \/ drives[q] = r

\* A provision job that says completed has its project's record saved in the
\* end, unless a restart or a failing statement comes in between, the project
\* is deleted, or the row was another request's too.
CompletedIsRecorded ==
    \A r \in Drivers :
        job[r] = "completed" ~>
            \/ job[r] = "none" \/ target[r] \in record
            \/ Shared(r) \/ r \in missed \/ crashes > 0

\* Every accepted job settles: it ends completed or failed, or its project
\* is deleted with it, unless a restart or a failing statement of the job's
\* own drivers comes in between.  Retries are bounded and the handlers never
\* wait for each other.
AcceptedJobsSettle ==
    \A r \in Requests :
        job[r] # "none" ~> job[r] \in Terminal \cup {"none"} \/ Missed(r) \/ crashes > 0

\* A job row left pending or retrying by a restart of the API, or by a driver
\* whose statement failed, is reaped.
StaleJobsAreReaped ==
    \A r \in Drivers : job[r] \in Stale /\ ~Driven(r) ~> job[r] \notin Stale

\* drainOnce (worker.ts): rows whose driver died with the API are reaped
\* instead of being wedged on forever.
OrphansAreReaped ==
    \A r \in Drivers : job[r] = "running" /\ ~Driven(r) ~> job[r] # "running"

=============================================================================
