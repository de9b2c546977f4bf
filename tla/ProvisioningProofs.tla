------------------------- MODULE ProvisioningProofs -------------------------
(***************************************************************************)
(* TLAPS proofs about Provisioning, for any number of requests,            *)
(* organizations, slugs, names, keys, attempts, faults and restarts.       *)
(***************************************************************************)
EXTENDS Provisioning, TLAPS

\* A request that has not reached its job row yet: before JobStore.create.
Fresh == {"idle", "mkproject", "mkjob"}

\* r itself is driving its row.
Drives(r) == pc[r] \in DrivePC /\ drives[r] = r

\* Before JobStore.create a driver has no row, in the store or in any list,
\* and nobody else drives one in its name.
FreshHasNoRow ==
    \A r \in Drivers : pc[r] \in Fresh =>
        /\ drives[r] = None /\ job[r] = "none"
        /\ r \notin aged /\ r \notin reap
        /\ \A p \in Drivers : drives[p] # r

\* After the row was completed, still within the drive.
Closing == {"log", "giveup"}

\* A driver at work has a row; one that its own request drives is not terminal
\* before the drive closes, and a driver gives up when a statement failed.
DrivenIsOpen ==
    \A r \in Drivers :
        /\ pc[r] \in DrivePC => drives[r] \in Drivers
        /\ Drives(r) => \/ Shared(r) \/ job[r] \notin Terminal
                        \/ pc[r] \in Closing /\ job[r] = "completed"
        /\ pc[r] = "giveup" => r \in missed

\* A row that went stale, and a row in the worker's list, has lost its driver.
StaleIsOrphan ==
    /\ \A r \in aged : Shared(r) \/ ~Drives(r)
    /\ \A r \in reap : Shared(r) \/ (~Drives(r) /\ job[r] \notin Terminal)

\* A delete job is inserted once and ends once.
DeleteRow ==
    \A d \in Deletes :
        /\ pc[d] \in {"idle", "deljob"} => job[d] = "none"
        /\ pc[d] \in DeletePC => job[d] \in {"running", "none"}

\* Each kind of request stays in its own part of the code.
Lanes ==
    /\ \A d \in Deletes : pc[d] \in DeletePC \cup {"idle", "deljob", "delproject", "done"}
    /\ \A p \in Drivers : pc[p] \notin DeletePC \cup {"deljob", "delproject"}

\* A handler past its first read knows its project.
HasTarget ==
    \A r \in Requests : pc[r] \notin {"idle", "mkproject", "done"} => target[r] \in Creates

TypeInv == TypeOK /\ Lanes /\ HasTarget
RowInv  == FreshHasNoRow /\ DrivenIsOpen /\ StaleIsOrphan /\ DeleteRow

-----------------------------------------------------------------------------
(* Type correctness.                                                       *)

LEMMA TypeInit == Init => TypeInv
<1> USE ConstantsAssumption
<1> SUFFICES ASSUME Init PROVE TypeInv
  OBVIOUS
<1>1. TypeOK
  BY DEF Init, TypeOK, Requests, Drivers, JobStatus, PC
<1>2. Lanes /\ HasTarget
  BY DEF Init, Lanes, HasTarget, Requests, Drivers, DeletePC
<1> QED
  BY <1>1, <1>2 DEF TypeInv

\* A step that moves one handler within its own part of the code and leaves
\* stores other than the provider's alone.
LEMMA ProviderMove ==
  ASSUME TypeInv, NEW r \in Requests, NEW label \in DrivePC \cup DeletePC, Goto(r, label),
         r \in Drivers => label \in DrivePC, r \in Deletes => label \in DeletePC,
         target[r] \in Creates, faults' \in 0 .. MaxFaults,
         role' \in [Names -> Drivers \cup {None}], db' \in SUBSET Names,
         contested' \in SUBSET Creates,
         UNCHANGED <<control, missed, job, aged, target, drives, attempt, reap, crashes>>
  PROVE  TypeInv'
<1> USE ConstantsAssumption DEF TypeInv
<1>1. pc' \in [Requests -> PC]
  BY DEF Goto, TypeOK, PC
<1>2. TypeOK'
  BY <1>1 DEF TypeOK, control
<1>3. \A q \in Requests : q # r => pc'[q] = pc[q]
  BY DEF Goto, TypeOK
<1>4. pc'[r] = label
  BY DEF Goto, TypeOK
<1>5. Lanes'
  BY <1>3, <1>4 DEF Lanes, Requests, Drivers, DrivePC, ProviderPC, DeletePC
<1>6. HasTarget'
  BY <1>3, <1>4 DEF HasTarget
<1> QED
  BY <1>2, <1>5, <1>6

\* What a statement does to the roles: one name's role is dropped or gets a password.
LEMMA RoleShape ==
  ASSUME TypeInv, NEW s \in Names, NEW p \in Drivers,
         role' \in {role, RoleDropped(s), [role EXCEPT ![s] = p]}
  PROVE  role' \in [Names -> Drivers \cup {None}]
BY DEF TypeInv, TypeOK, RoleDropped

LEMMA ProviderStepTypes ==
  ASSUME TypeInv, NEW p \in Drivers, ProviderStep(p)
  PROVE  TypeInv'
<1> DEFINE s == Name(target[p])
<1>1. UNCHANGED <<control, missed, job, aged, target, drives, attempt, reap, crashes>>
  BY DEF ProviderStep
<1>2. pc[p] \in ProviderPC
  BY DEF ProviderStep, ProviderPC, Adopt, CreateRole, CreateDb, DropCreatedRole, AwaitHealth,
         VerifyHealthy, DropDatabase, DropRole
<1>3. p \in Requests /\ p \notin Deletes /\ target[p] \in Creates
  BY <1>2, ConstantsAssumption DEF TypeInv, HasTarget, Requests, Drivers, ProviderPC
<1>4. s \in Names
  BY <1>3, ConstantsAssumption DEF Name
<1> DEFINE Moves == \E label \in DrivePC : Goto(p, label)
           Counts == NoFault \/ (faults < MaxFaults /\ faults' = faults + 1)
           Roles  == role' \in {role, RoleDropped(s), [role EXCEPT ![s] = p]}
           Dbs    == db' \in {db, db \cup {s}, db \ {s}}
           Holds  == contested' \in {contested, contested \cup {target[p]}}
<1>5. Moves /\ Counts /\ Roles /\ Dbs /\ Holds
  <2>1. CASE Adopt(p) /\ UNCHANGED contested
    BY <2>1 DEF Adopt, Fault, infra, DrivePC, ProviderPC
  <2>2. CASE CreateRole(p)
    BY <2>2 DEF CreateRole, Fault, DrivePC, ProviderPC
  <2>3. CASE CreateDb(p) /\ UNCHANGED contested
    BY <2>3 DEF CreateDb, Fault, NoFault, DrivePC, ProviderPC
  <2>4. CASE DropCreatedRole(p) /\ UNCHANGED contested
    BY <2>4 DEF DropCreatedRole, Fault, DrivePC, ProviderPC
  <2>5. CASE AwaitHealth(p) /\ UNCHANGED contested
    BY <2>5 DEF AwaitHealth, Fault, infra, DrivePC, ProviderPC
  <2>6. CASE VerifyHealthy(p) /\ UNCHANGED contested
    BY <2>6 DEF VerifyHealthy, Fault, infra, DrivePC, ProviderPC
  <2>7. CASE DropDatabase(p, "dropdb", "dropdbrole", "error") /\ UNCHANGED contested
    BY <2>7 DEF DropDatabase, Fault, DrivePC, ProviderPC
  <2>8. CASE DropRole(p, "dropdbrole", "error", "error") /\ UNCHANGED contested
    BY <2>8 DEF DropRole, Fault, DrivePC, ProviderPC
  <2> QED
    BY <2>1, <2>2, <2>3, <2>4, <2>5, <2>6, <2>7, <2>8 DEF ProviderStep
<1>6. PICK label \in DrivePC : Goto(p, label)
  BY <1>5
<1>7. faults' \in 0 .. MaxFaults
  BY <1>5, ConstantsAssumption DEF TypeInv, TypeOK, NoFault
<1>8. role' \in [Names -> Drivers \cup {None}]
  BY <1>4, <1>5, RoleShape
<1>9. db' \in SUBSET Names /\ contested' \in SUBSET Creates
  BY <1>3, <1>4, <1>5 DEF TypeInv, TypeOK
<1> QED
  BY <1>1, <1>3, <1>6, <1>7, <1>8, <1>9, ProviderMove

LEMMA DeleteInfraTypes ==
  ASSUME TypeInv, NEW d \in Deletes, DeleteInfra(d)
  PROVE  TypeInv'
<1> DEFINE s == Name(target[d])
<1>1. UNCHANGED <<control, contested, missed, job, aged, target, drives, attempt, reap, crashes>>
  BY DEF DeleteInfra, history
<1>2. pc[d] \in DeletePC
  BY DEF DeleteInfra, DropDatabase, DropRole, DeletePC
<1>3. d \in Requests /\ d \notin Drivers /\ target[d] \in Creates
  BY <1>2, ConstantsAssumption DEF TypeInv, HasTarget, Requests, Drivers, DeletePC
<1>4. s \in Names
  BY <1>3, ConstantsAssumption DEF Name
<1>5. /\ \E label \in DeletePC : Goto(d, label)
      /\ NoFault \/ (faults < MaxFaults /\ faults' = faults + 1)
      /\ role' \in {role, RoleDropped(s)}
      /\ db' \in {db, db \ {s}}
  <2>1. CASE DropDatabase(d, "deldb", "delrole", "delfail")
    BY <2>1 DEF DropDatabase, Fault, DeletePC
  <2>2. CASE DropRole(d, "delrole", "delok", "delfail")
    BY <2>2 DEF DropRole, Fault, DeletePC
  <2> QED
    BY <2>1, <2>2 DEF DeleteInfra
<1>6. PICK label \in DeletePC : Goto(d, label)
  BY <1>5
<1>7. faults' \in 0 .. MaxFaults
  BY <1>5, ConstantsAssumption DEF TypeInv, TypeOK, NoFault
<1>8. role' \in [Names -> Drivers \cup {None}]
  BY <1>4, <1>5 DEF TypeInv, TypeOK, RoleDropped
<1>9. db' \in SUBSET Names /\ contested' \in SUBSET Creates
  BY <1>1, <1>4, <1>5 DEF TypeInv, TypeOK
<1> QED
  BY <1>1, <1>3, <1>6, <1>7, <1>8, <1>9, ProviderMove

LEMMA TypeStep == TypeInv /\ [Next]_vars => TypeInv'
<1> USE ConstantsAssumption DEF TypeInv, TypeOK, Lanes, HasTarget
<1> SUFFICES ASSUME TypeInv, [Next]_vars PROVE TypeInv'
  OBVIOUS
<1> USE DEF Requests, Drivers, JobStatus, Stale, Terminal, PC, DrivePC, ProviderPC, DeletePC,
            Goto, Moved, SetJob, control, infra, handlers, history
<1>1. ASSUME NEW c \in Creates, FindByKey(c) PROVE TypeInv'
  <2>1. Goto(c, "done") \/ Goto(c, "mkproject")
    BY <1>1 DEF FindByKey
  <2>2. UNCHANGED <<control, history, job, aged, infra, target, drives, attempt, reap, faults, crashes>>
    BY <1>1 DEF FindByKey
  <2>3. TypeOK'
    BY <2>1, <2>2
  <2>4. /\ \A q \in Requests : q # c => pc'[q] = pc[q]
        /\ pc'[c] \in {"done", "mkproject"}
    BY <2>1
  <2> QED
    BY <2>2, <2>3, <2>4
<1>2. ASSUME NEW c \in Creates, CreateProject(c) PROVE TypeInv'
  <2>1. UNCHANGED <<record, cred, history, job, aged, infra, drives, attempt, reap, faults, crashes>>
    BY <1>2 DEF CreateProject
  <2>2. /\ projects' \subseteq Creates
        /\ \/ Goto(c, "done") /\ UNCHANGED target
           \/ Goto(c, "mkjob") /\ target' = [target EXCEPT ![c] = c]
    BY <1>2 DEF CreateProject
  <2>3. TypeOK'
    BY <2>1, <2>2
  <2>4. /\ \A q \in Requests : q # c => pc'[q] = pc[q] /\ target'[q] = target[q]
        /\ pc'[c] = "done" \/ (pc'[c] = "mkjob" /\ target'[c] = c)
    BY <2>2
  <2> QED
    BY <2>3, <2>4
<1>3. ASSUME NEW c \in Creates, CreateJob(c) PROVE TypeInv'
  <2>1. /\ UNCHANGED <<control, history, aged, infra, target, attempt, reap, faults, crashes>>
        /\ pc[c] = "mkjob"
        /\ job' \in {job, [job EXCEPT ![c] = "pending"]}
        /\ \/ UNCHANGED drives
           \/ \E b \in Creates : drives' = [drives EXCEPT ![c] = b]
        /\ Goto(c, "done") \/ Goto(c, "start")
    BY <1>3 DEF CreateJob, RowsWithKey
  <2>2. TypeOK'
    BY <2>1
  <2>3. /\ \A q \in Requests : q # c => pc'[q] = pc[q]
        /\ pc'[c] \in {"done", "start"}
    BY <2>1
  <2> QED
    BY <2>1, <2>2, <2>3
<1>4. ASSUME NEW r \in Reprovisions, Reprovision(r) PROVE TypeInv'
  BY <1>4 DEF Reprovision
<1>5. ASSUME NEW r \in Reprovisions, ReprovisionJob(r) PROVE TypeInv'
  BY <1>5 DEF ReprovisionJob
<1>6. ASSUME NEW p \in Drivers, DriveStart(p) PROVE TypeInv'
  BY <1>6 DEF DriveStart, RowExists
<1>7. ASSUME NEW p \in Drivers, Complete(p) PROVE TypeInv'
  BY <1>7 DEF Complete, RowExists
<1>8. ASSUME NEW p \in Drivers, AttemptFailed(p) PROVE TypeInv'
  BY <1>8 DEF AttemptFailed, RowExists
<1>9. ASSUME NEW p \in Drivers, SaveDatabase(p) PROVE TypeInv'
  BY <1>9 DEF SaveDatabase
<1>10. ASSUME NEW p \in Drivers, SaveCredential(p) PROVE TypeInv'
  BY <1>10 DEF SaveCredential
<1>11. ASSUME NEW p \in Drivers, ProviderStep(p) PROVE TypeInv'
  BY ONLY TypeInv, <1>11, ProviderStepTypes
<1>12. ASSUME NEW d \in Deletes, Delete(d) PROVE TypeInv'
  BY <1>12 DEF Delete
<1>13. ASSUME NEW d \in Deletes, DeleteJob(d) PROVE TypeInv'
  BY <1>13 DEF DeleteJob
<1>14. ASSUME NEW d \in Deletes, DeleteInfra(d) PROVE TypeInv'
  BY ONLY TypeInv, <1>14, DeleteInfraTypes
<1>15. ASSUME NEW d \in Deletes, DeleteJobDone(d) PROVE TypeInv'
  BY <1>15 DEF DeleteJobDone
<1>16. ASSUME NEW d \in Deletes, DeleteProject(d) PROVE TypeInv'
  BY <1>16 DEF DeleteProject
<1>17. ASSUME NEW j \in Drivers, Age(j) PROVE TypeInv'
  BY <1>17 DEF Age
<1>18. ASSUME NEW j \in Drivers, WorkerReap(j) PROVE TypeInv'
  BY <1>18 DEF WorkerReap
<1>19. CASE WorkerList
  BY <1>19 DEF WorkerList
<1>20. CASE Crash
  BY <1>20 DEF Crash
<1>22. ASSUME NEW p \in Drivers, AppendLog(p) PROVE TypeInv'
  BY <1>22 DEF AppendLog, RowExists
<1>23. ASSUME NEW p \in Drivers, GiveUp(p) PROVE TypeInv'
  BY <1>23 DEF GiveUp, RowExists
<1>24. ASSUME NEW r \in Requests, StatementFails(r) PROVE TypeInv'
  <2>1. /\ UNCHANGED <<control, contested, job, aged, infra, target, drives, attempt, reap, crashes>>
        /\ missed' \subseteq Requests /\ faults' \in 0 .. MaxFaults
    BY <1>24 DEF StatementFails
  <2>2. \/ Goto(r, "done")
        \/ Goto(r, "giveup") /\ pc[r] \in {"complete", "log"}
        \/ Goto(r, "delfail") /\ pc[r] = "delok"
    BY <1>24 DEF StatementFails
  <2> QED
    BY <2>1, <2>2
<1>21. CASE UNCHANGED vars
  BY <1>21 DEF vars
<1> QED
  BY <1>1, <1>2, <1>3, <1>4, <1>5, <1>6, <1>7, <1>8, <1>9, <1>10, <1>11, <1>12, <1>13,
     <1>14, <1>15, <1>16, <1>17, <1>18, <1>19, <1>20, <1>21, <1>22, <1>23, <1>24
  DEF Next, CreateStep, ReprovisionStep, DriverStep, DeleteStep

\* The stores and handlers keep their shape: every status is one the schema
\* knows, no attempt exceeds the budget, every handler past its first read
\* works for a project.
THEOREM TypeCorrect == Spec => []TypeOK
<1>1. Spec => []TypeInv
  BY TypeInit, TypeStep, PTL DEF Spec
<1>2. TypeInv => TypeOK
  BY DEF TypeInv
<1> QED
  BY <1>1, <1>2, PTL

-----------------------------------------------------------------------------
(* Job rows.  A step either leaves the rows and their drivers alone, or is *)
(* one of the few that writes a row; the lemma is split that way.          *)

LEMMA RowInit == Init => RowInv
<1> SUFFICES ASSUME Init PROVE RowInv
  OBVIOUS
<1> QED
  BY ConstantsAssumption
  DEF Init, RowInv, FreshHasNoRow, DrivenIsOpen, StaleIsOrphan, DeleteRow, Drives, Fresh,
      DrivePC, ProviderPC, DeletePC, Requests, Drivers

\* A step of a handler that writes no job row and starts no drive.
LEMMA QuietStep ==
  ASSUME TypeInv, RowInv, NEW r \in Requests, NEW label \in PC, Goto(r, label),
         label \in Fresh \cup {"deljob"} => pc[r] \in Fresh,
         label \in DrivePC => pc[r] \in DrivePC /\ (pc[r] \in Closing => label \in Closing),
         label = "giveup" => r \in missed', missed \subseteq missed',
         label \in DeletePC => pc[r] \in DeletePC,
         UNCHANGED <<job, aged, drives, reap>>
  PROVE  RowInv'
<1> USE ConstantsAssumption DEF TypeInv, TypeOK, RowInv, Goto, Requests, Drivers
<1>1. FreshHasNoRow'
  BY DEF FreshHasNoRow
<1>2. \A q \in Drivers : Shared(q)' = Shared(q)
  BY DEF Shared
<1>3. \A q \in Drivers : Drives(q)' => Drives(q)
  BY DEF Drives
<1>6. /\ \A q \in Requests : q # r => pc'[q] = pc[q]
      /\ pc'[r] = label
  OBVIOUS
<1>4. DrivenIsOpen' /\ StaleIsOrphan'
  <2>1. DrivenIsOpen'
    <3> SUFFICES ASSUME NEW q \in Drivers
                 PROVE  /\ pc'[q] \in DrivePC => drives'[q] \in Drivers
                        /\ Drives(q)' => \/ Shared(q)' \/ job'[q] \notin Terminal
                                         \/ pc'[q] \in Closing /\ job'[q] = "completed"
                        /\ pc'[q] = "giveup" => q \in missed'
      BY DEF DrivenIsOpen
    <3>1. CASE q # r
      BY <1>2, <1>3, <1>6, <3>1 DEF DrivenIsOpen
    <3>2. CASE q = r
      <4>1. Drives(q)' => label \in DrivePC
        BY <1>6, <3>2 DEF Drives
      <4> QED
        BY <1>2, <1>3, <1>6, <3>2, <4>1 DEF DrivenIsOpen
    <3> QED
      BY <3>1, <3>2
  <2>2. StaleIsOrphan'
    BY <1>2, <1>3 DEF StaleIsOrphan
  <2> QED
    BY <2>1, <2>2
<1>5. DeleteRow'
  BY DEF DeleteRow, DeletePC, Fresh, Lanes
<1> QED
  BY <1>1, <1>4, <1>5

\* A driver writes the row it resumes; a terminal status ends its drive.
LEMMA DriveWrite ==
  ASSUME TypeInv, RowInv, NEW p \in Drivers, NEW label \in PC, NEW status \in JobStatus,
         pc[p] \in DrivePC, Goto(p, label), SetJob(drives[p], status),
         label \notin Fresh, label \notin DeletePC \cup {"deljob"},
         label \in DrivePC => \/ status \notin Terminal
                              \/ label = "log" /\ status = "completed",
         label # "giveup", aged' \subseteq aged, UNCHANGED <<drives, reap, missed>>
  PROVE  RowInv'
<1> USE ConstantsAssumption DEF TypeInv, TypeOK, RowInv, Goto, SetJob, Requests, Drivers
<1>0. drives[p] \in Drivers /\ pc[p] \notin Fresh
  BY DEF DrivenIsOpen, Fresh, DrivePC, ProviderPC
<1>1. FreshHasNoRow'
  BY <1>0 DEF FreshHasNoRow
<1>2. \A q \in Drivers : Shared(q)' = Shared(q)
  BY DEF Shared
<1>3. \A q \in Drivers : Drives(q)' => Drives(q)
  BY DEF Drives
<1>4. \A q \in Drivers : job'[q] # job[q] => q = drives[p]
  BY <1>0
<1>5. drives[p] # p => Shared(drives[p])
  BY <1>0 DEF Shared
<1>6. drives[p] = p => Drives(p)
  BY DEF Drives
<1>7. DrivenIsOpen'
  <2> SUFFICES ASSUME NEW q \in Drivers
               PROVE  /\ pc'[q] \in DrivePC => drives'[q] \in Drivers
                      /\ Drives(q)' => \/ Shared(q)' \/ job'[q] \notin Terminal
                                       \/ pc'[q] \in Closing /\ job'[q] = "completed"
                      /\ pc'[q] = "giveup" => q \in missed'
    BY DEF DrivenIsOpen
  <2>1. /\ pc'[q] \in DrivePC => drives'[q] \in Drivers
        /\ pc'[q] = "giveup" => q \in missed'
        /\ q # p => pc'[q] = pc[q]
    BY <1>0 DEF DrivenIsOpen
  <2>2. CASE q # drives[p]
    <3>1. job'[q] = job[q] /\ Shared(q)' = Shared(q)
      BY <2>2, <1>2, <1>4
    <3>2. CASE q # p
      BY <2>1, <3>1, <3>2, <1>3 DEF DrivenIsOpen
    <3>3. CASE q = p
      <4>1. ~Drives(q)'
        BY <2>2, <3>3 DEF Drives
      <4> QED
        BY <2>1, <4>1
    <3> QED
      BY <3>2, <3>3
  <2>3. CASE q = drives[p] /\ q # p
    BY <2>1, <2>3, <1>2, <1>5
  <2>4. CASE q = drives[p] /\ q = p
    <3>1. pc'[q] = label /\ job'[q] = status
      BY <2>4, <1>0
    <3> QED
      BY <2>1, <3>1 DEF Drives, Closing
  <2> QED
    BY <2>2, <2>3, <2>4
<1>8. StaleIsOrphan'
  BY <1>2, <1>3, <1>4, <1>5, <1>6 DEF StaleIsOrphan
<1>9. DeleteRow'
  <2>1. \A d \in Deletes : pc'[d] = pc[d] /\ job'[d] = job[d]
    BY <1>0
  <2> QED
    BY <2>1 DEF DeleteRow
<1> QED
  BY <1>1, <1>7, <1>8, <1>9

\* JobStore.create hands request p a row: its own new one or another's.
LEMMA HandOut ==
  ASSUME TypeInv, RowInv, NEW p \in Drivers, NEW j \in Drivers,
         pc[p] = "mkjob", Goto(p, "start"), drives' = [drives EXCEPT ![p] = j],
         \/ j = p /\ SetJob(p, "pending")
         \/ job[j] # "none" /\ UNCHANGED job,
         UNCHANGED <<aged, reap, missed>>
  PROVE  RowInv'
<1> USE ConstantsAssumption DEF TypeInv, TypeOK, RowInv, Goto, SetJob, Requests, Drivers
<1>0. /\ pc[p] \in Fresh /\ drives[p] = None /\ job[p] = "none"
      /\ p \notin aged /\ p \notin reap
  BY DEF Fresh, FreshHasNoRow
<1>1. \A q \in Drivers : Shared(q) => Shared(q)'
  BY <1>0 DEF Shared
<1>2. \A q \in Drivers \ {p} : Drives(q)' => Drives(q)
  BY DEF Drives
<1>3. FreshHasNoRow'
  <2>1. pc'[p] \notin Fresh
    BY DEF Fresh
  <2>2. j # p => pc[j] \notin Fresh
    BY DEF FreshHasNoRow
  <2> QED
    BY <2>1, <2>2 DEF FreshHasNoRow
<1>4. DrivenIsOpen'
  <2>1. \A q \in Drivers \ {p} : pc'[q] = pc[q] /\ drives'[q] = drives[q] /\ job'[q] = job[q]
    OBVIOUS
  <2>2. job'[p] \notin Terminal
    BY <1>0 DEF Terminal
  <2> QED
    BY <1>1, <1>2, <2>1, <2>2 DEF DrivenIsOpen
<1>5. StaleIsOrphan'
  BY <1>0, <1>1, <1>2 DEF StaleIsOrphan
<1>6. DeleteRow'
  BY DEF DeleteRow
<1> QED
  BY <1>3, <1>4, <1>5, <1>6

LEMMA RowStep == TypeInv /\ RowInv /\ [Next]_vars => RowInv'
<1> USE ConstantsAssumption DEF control, infra, handlers, history
<1> SUFFICES ASSUME TypeInv, RowInv, [Next]_vars PROVE RowInv'
  OBVIOUS
<1> DEFINE Same == UNCHANGED <<job, aged, drives, reap, missed>>
<1>1. ASSUME NEW c \in Creates, FindByKey(c) PROVE RowInv'
  <2>1. Same /\ pc[c] \in Fresh /\ (Goto(c, "done") \/ Goto(c, "mkproject"))
    BY <1>1 DEF FindByKey, Fresh
  <2> QED
    BY <2>1, QuietStep DEF Closing, Requests, PC, Fresh, DrivePC, ProviderPC, DeletePC
<1>2. ASSUME NEW c \in Creates, CreateProject(c) PROVE RowInv'
  <2>1. Same /\ pc[c] \in Fresh /\ (Goto(c, "done") \/ Goto(c, "mkjob"))
    BY <1>2 DEF CreateProject, Fresh
  <2> QED
    BY <2>1, QuietStep DEF Closing, Requests, PC, Fresh, DrivePC, ProviderPC, DeletePC
<1>3. ASSUME NEW c \in Creates, CreateJob(c) PROVE RowInv'
  <2>0. pc[c] = "mkjob" /\ UNCHANGED <<aged, reap, missed>> /\ c \in Drivers
    BY <1>3 DEF CreateJob, Drivers
  <2>1. ASSUME NEW b \in RowsWithKey(c), drives' = [drives EXCEPT ![c] = b],
               Goto(c, "start"), UNCHANGED job
        PROVE  RowInv'
    BY <2>0, <2>1, HandOut DEF RowsWithKey, Drivers
  <2>2. CASE SetJob(c, "pending") /\ drives' = [drives EXCEPT ![c] = c] /\ Goto(c, "start")
    BY <2>0, <2>2, HandOut
  <2>3. CASE Goto(c, "done") /\ UNCHANGED <<job, drives>>
    BY <2>0, <2>3, QuietStep DEF Closing, Requests, PC, Fresh, DrivePC, ProviderPC, DeletePC
  <2> QED
    BY <1>3, <2>1, <2>2, <2>3 DEF CreateJob
<1>4. ASSUME NEW r \in Reprovisions, Reprovision(r) PROVE RowInv'
  <2>1. Same /\ pc[r] \in Fresh /\ Goto(r, "mkjob")
    BY <1>4 DEF Reprovision, Fresh
  <2> QED
    BY <2>1, QuietStep DEF Closing, Requests, PC, Fresh, DrivePC, ProviderPC, DeletePC
<1>5. ASSUME NEW r \in Reprovisions, ReprovisionJob(r) PROVE RowInv'
  <2>0. pc[r] = "mkjob" /\ UNCHANGED <<aged, reap, missed>> /\ r \in Drivers
    BY <1>5 DEF ReprovisionJob, Drivers
  <2>1. CASE SetJob(r, "pending") /\ drives' = [drives EXCEPT ![r] = r] /\ Goto(r, "start")
    BY <2>0, <2>1, HandOut
  <2>2. CASE Goto(r, "done") /\ UNCHANGED <<job, drives>>
    BY <2>0, <2>2, QuietStep DEF Closing, Requests, PC, Fresh, DrivePC, ProviderPC, DeletePC
  <2> QED
    BY <1>5, <2>1, <2>2 DEF ReprovisionJob
<1>6. ASSUME NEW p \in Drivers, DriveStart(p) PROVE RowInv'
  <2>0. pc[p] \in DrivePC /\ UNCHANGED <<drives, reap, missed>>
    BY <1>6 DEF DriveStart, DrivePC
  <2>1. CASE SetJob(drives[p], "running") /\ aged' = aged \ {drives[p]} /\ Goto(p, "adopt")
    BY <2>0, <2>1, DriveWrite DEF JobStatus, Terminal, PC, Fresh, DrivePC, ProviderPC, DeletePC
  <2>2. CASE Goto(p, "done") /\ UNCHANGED <<job, aged>>
    BY <2>0, <2>2, QuietStep DEF Closing, Requests, Drivers, PC, Fresh, DrivePC, ProviderPC, DeletePC
  <2> QED
    BY <1>6, <2>1, <2>2 DEF DriveStart
<1>7. ASSUME NEW p \in Drivers, Complete(p) PROVE RowInv'
  <2>0. pc[p] \in DrivePC /\ UNCHANGED <<aged, drives, reap, missed>>
    BY <1>7 DEF Complete, DrivePC
  <2>1. CASE SetJob(drives[p], "completed") /\ Goto(p, "log")
    BY <2>0, <2>1, DriveWrite DEF JobStatus, Terminal, PC, Fresh, DrivePC, ProviderPC, DeletePC
  <2>2. CASE Goto(p, "done") /\ UNCHANGED job
    BY <2>0, <2>2, QuietStep DEF Closing, Requests, Drivers, PC, Fresh, DrivePC, ProviderPC, DeletePC
  <2> QED
    BY <1>7, <2>1, <2>2 DEF Complete
<1>8. ASSUME NEW p \in Drivers, AttemptFailed(p) PROVE RowInv'
  <2>0. pc[p] \in DrivePC /\ UNCHANGED <<aged, drives, reap, missed>>
    BY <1>8 DEF AttemptFailed, DrivePC
  <2>1. CASE SetJob(drives[p], "retrying") /\ Goto(p, "adopt")
    BY <2>0, <2>1, DriveWrite
    DEF JobStatus, Stale, Terminal, PC, Fresh, DrivePC, ProviderPC, DeletePC
  <2>2. CASE SetJob(drives[p], "failed") /\ Goto(p, "done")
    BY <2>0, <2>2, DriveWrite DEF JobStatus, Terminal, PC, Fresh, DrivePC, ProviderPC, DeletePC
  <2>3. CASE Goto(p, "done") /\ UNCHANGED job
    BY <2>0, <2>3, QuietStep DEF Closing, Requests, Drivers, PC, Fresh, DrivePC, ProviderPC, DeletePC
  <2> QED
    BY <1>8, <2>1, <2>2, <2>3 DEF AttemptFailed
<1>9. ASSUME NEW p \in Drivers, SaveDatabase(p) PROVE RowInv'
  <2>1. Same /\ (Goto(p, "savecred") \/ Goto(p, "done"))
    BY <1>9 DEF SaveDatabase
  <2> QED
    BY <2>1, QuietStep DEF Closing, Requests, Drivers, PC, Fresh, DrivePC, ProviderPC, DeletePC
<1>10. ASSUME NEW p \in Drivers, SaveCredential(p) PROVE RowInv'
  <2>1. Same /\ Goto(p, "done")
    BY <1>10 DEF SaveCredential, Moved
  <2> QED
    BY <2>1, QuietStep DEF Closing, Requests, Drivers, PC, Fresh, DrivePC, ProviderPC, DeletePC
<1>11. ASSUME NEW p \in Drivers, ProviderStep(p) PROVE RowInv'
  <2>0. Same
    BY <1>11 DEF ProviderStep
  <2>1. /\ pc[p] \in ProviderPC
        /\ \E label \in ProviderPC \cup {"complete", "error"} : Goto(p, label)
    BY <1>11
    DEF ProviderStep, Adopt, CreateRole, CreateDb, DropCreatedRole, AwaitHealth, VerifyHealthy,
        DropDatabase, DropRole, Fault, ProviderPC
  <2>2. PICK label \in ProviderPC \cup {"complete", "error"} : Goto(p, label)
    BY <2>1
  <2> QED
    BY <2>0, <2>1, <2>2, QuietStep DEF Closing, Requests, Drivers, PC, Fresh, DrivePC, ProviderPC, DeletePC
<1>12. ASSUME NEW d \in Deletes, Delete(d) PROVE RowInv'
  <2>1. Same /\ pc[d] \in Fresh /\ (Goto(d, "deljob") \/ Goto(d, "delproject"))
    BY <1>12 DEF Delete, Fresh
  <2> QED
    BY <2>1, QuietStep DEF Closing, Requests, PC, Fresh, DrivePC, ProviderPC, DeletePC
<1>13. ASSUME NEW d \in Deletes, DeleteJob(d) PROVE RowInv'
  <2>0. pc[d] = "deljob" /\ UNCHANGED <<aged, drives, reap, missed>>
    BY <1>13 DEF DeleteJob
  <2>1. CASE SetJob(d, "running") /\ Goto(d, "deldb")
    BY <2>0, <2>1
    DEF TypeInv, TypeOK, Lanes, RowInv, FreshHasNoRow, DrivenIsOpen, StaleIsOrphan, DeleteRow,
        Shared, Drives, Fresh, DeletePC, Goto, SetJob, Requests, Drivers
  <2>2. CASE Goto(d, "done") /\ UNCHANGED job
    BY <2>0, <2>2, QuietStep DEF Closing, Requests, PC, Fresh, DrivePC, ProviderPC, DeletePC
  <2> QED
    BY <1>13, <2>1, <2>2 DEF DeleteJob
<1>14. ASSUME NEW d \in Deletes, DeleteInfra(d) PROVE RowInv'
  <2>1. Same /\ pc[d] \in DeletePC
             /\ (Goto(d, "delrole") \/ Goto(d, "delok") \/ Goto(d, "delfail"))
    BY <1>14 DEF DeleteInfra, DropDatabase, DropRole, Fault, DeletePC
  <2> QED
    BY <2>1, QuietStep DEF Closing, Requests, PC, Fresh, DrivePC, ProviderPC, DeletePC
<1>15. ASSUME NEW d \in Deletes, DeleteJobDone(d) PROVE RowInv'
  <2>0. pc[d] \in {"delok", "delfail"} /\ UNCHANGED <<aged, drives, reap, missed>>
    BY <1>15 DEF DeleteJobDone
  <2>1. CASE UNCHANGED job /\ Goto(d, "done")
    BY <2>0, <2>1, QuietStep DEF Closing, Requests, PC, Fresh, DrivePC, ProviderPC, DeletePC
  <2>2. ASSUME NEW s \in Terminal, NEW label \in {"delproject", "done"},
               SetJob(d, s), Goto(d, label)
        PROVE  RowInv'
    BY <2>0, <2>2
    DEF TypeInv, TypeOK, Lanes, RowInv, FreshHasNoRow, DrivenIsOpen, StaleIsOrphan, DeleteRow,
        Shared, Drives, Fresh, DeletePC, Goto, SetJob, Requests, Drivers
  <2> QED
    BY <1>15, <2>1, <2>2 DEF DeleteJobDone, Terminal
<1>22. ASSUME NEW p \in Drivers, AppendLog(p) PROVE RowInv'
  <2>1. Same /\ (Goto(p, "saverec") \/ Goto(p, "done"))
    BY <1>22 DEF AppendLog
  <2> QED
    BY <2>1, QuietStep DEF Closing, Requests, Drivers, PC, Fresh, DrivePC, ProviderPC, DeletePC
<1>23. ASSUME NEW p \in Drivers, GiveUp(p) PROVE RowInv'
  <2>0. pc[p] \in DrivePC /\ UNCHANGED <<aged, drives, reap, missed>> /\ Goto(p, "done")
    BY <1>23 DEF GiveUp, DrivePC
  <2>1. CASE SetJob(drives[p], "failed")
    BY <2>0, <2>1, DriveWrite DEF JobStatus, Terminal, PC, Fresh, DrivePC, ProviderPC, DeletePC
  <2>2. CASE UNCHANGED job
    BY <2>0, <2>2, QuietStep DEF Closing, Requests, Drivers, PC, Fresh, DrivePC, ProviderPC, DeletePC
  <2> QED
    BY <1>23, <2>1, <2>2 DEF GiveUp
<1>24. ASSUME NEW r \in Requests, StatementFails(r) PROVE RowInv'
  <2>1. /\ UNCHANGED <<job, aged, drives, reap>> /\ missed \subseteq missed' /\ r \in missed'
        /\ \/ Goto(r, "done")
           \/ pc[r] \in {"complete", "log"} /\ Goto(r, "giveup")
           \/ pc[r] = "delok" /\ Goto(r, "delfail")
    BY <1>24 DEF StatementFails
  <2> QED
    BY <2>1, QuietStep DEF Closing, PC, Fresh, DrivePC, ProviderPC, DeletePC
<1> USE DEF TypeInv, TypeOK, Lanes, RowInv, Requests, Drivers
<1>16. ASSUME NEW d \in Deletes, DeleteProject(d) PROVE RowInv'
  <2>0. /\ UNCHANGED <<aged, drives, reap, missed>>
        /\ \A r \in Requests : job'[r] \in {job[r], "none"}
        /\ \A r \in Drivers : pc'[r] = pc[r]
        /\ \A r \in Deletes : pc'[r] \in {pc[r], "done"}
    BY <1>16 DEF DeleteProject, Moved, Goto
  <2> QED
    BY <2>0
    DEF FreshHasNoRow, DrivenIsOpen, StaleIsOrphan, DeleteRow, Shared, Drives, DeletePC, Terminal
<1>17. ASSUME NEW j \in Drivers, Age(j) PROVE RowInv'
  BY <1>17
  DEF Age, Driven, FreshHasNoRow, DrivenIsOpen, StaleIsOrphan, DeleteRow, Shared, Drives, Stale
<1>18. ASSUME NEW j \in Drivers, WorkerReap(j) PROVE RowInv'
  <2>0. /\ UNCHANGED <<pc, aged, drives, missed>>
        /\ reap' \subseteq reap /\ j \in reap /\ j \notin reap'
        /\ \A r \in Requests \ {j} : job'[r] = job[r]
        /\ job[j] = "none" => job'[j] = "none"
    BY <1>18 DEF WorkerReap
  <2>1. FreshHasNoRow'
    BY <2>0 DEF FreshHasNoRow
  <2>2. \A r \in Drivers : Shared(r)' = Shared(r) /\ Drives(r)' = Drives(r)
    BY <2>0 DEF Shared, Drives
  <2>3. Shared(j) \/ ~Drives(j)
    BY <2>0 DEF StaleIsOrphan
  <2> HIDE DEF TypeInv, TypeOK, Lanes, RowInv
  <2>4. DrivenIsOpen'
    <3>1. ASSUME NEW r \in Drivers, Drives(r), ~Shared(r), job'[r] \in Terminal
          PROVE  pc[r] \in Closing /\ job'[r] = "completed"
      <4>1. r # j
        BY <2>3, <3>1 DEF Shared, Drives
      <4> QED
        BY <2>0, <3>1, <4>1 DEF RowInv, DrivenIsOpen
    <3> QED
      BY <2>0, <2>2, <3>1 DEF RowInv, DrivenIsOpen
  <2>5. StaleIsOrphan'
    <3>1. ASSUME NEW r \in aged PROVE (Shared(r) \/ ~Drives(r))'
      BY <2>2, <3>1 DEF TypeInv, TypeOK, RowInv, StaleIsOrphan
    <3>2. ASSUME NEW r \in reap'
          PROVE  (Shared(r) \/ (~Drives(r) /\ job[r] \notin Terminal))'
      <4>1. r \in reap /\ r \in Drivers /\ r # j
        BY <2>0, <3>2 DEF TypeInv, TypeOK
      <4> QED
        BY <2>0, <2>2, <4>1 DEF RowInv, StaleIsOrphan
    <3> QED
      BY <2>0, <3>1, <3>2 DEF StaleIsOrphan
  <2>6. DeleteRow'
    BY <2>0 DEF RowInv, DeleteRow
  <2> QED
    BY <2>1, <2>4, <2>5, <2>6 DEF RowInv
<1>19. CASE WorkerList
  BY <1>19
  DEF WorkerList, FreshHasNoRow, DrivenIsOpen, StaleIsOrphan, DeleteRow, Shared, Drives, Stale,
      Terminal
<1>20. CASE Crash
  BY <1>20
  DEF Crash, FreshHasNoRow, DrivenIsOpen, StaleIsOrphan, DeleteRow, Shared, Drives, Fresh,
      DrivePC, ProviderPC, DeletePC
<1>21. CASE UNCHANGED vars
  BY <1>21
  DEF vars, FreshHasNoRow, DrivenIsOpen, StaleIsOrphan, DeleteRow, Shared, Drives
<1> QED
  BY <1>1, <1>2, <1>3, <1>4, <1>5, <1>6, <1>7, <1>8, <1>9, <1>10, <1>11, <1>12, <1>13,
     <1>14, <1>15, <1>16, <1>17, <1>18, <1>19, <1>20, <1>21, <1>22, <1>23, <1>24
  DEF Next, CreateStep, ReprovisionStep, DriverStep, DeleteStep

\* What a step may do to a terminal row that is its own request's alone.
Overturned(r) ==
    pc[r] = "giveup" /\ r \in missed /\ job[r] = "completed" /\ job'[r] = "failed"

\* One step of the specification never takes a row its own request drives
\* out of a terminal state, but for the driver's own catch.
LEMMA RowStaysTerminal ==
  ASSUME TypeInv, RowInv, [Next]_vars,
         NEW r \in Requests, job[r] \in Terminal, ~Shared(r)
  PROVE  job'[r] \in {job[r], "none"} \/ Overturned(r)
<1> USE ConstantsAssumption DEF Requests, Drivers, SetJob, TypeInv, TypeOK, RowInv, Terminal
<1>1. ASSUME NEW p \in Drivers, pc[p] \in DrivePC \ Closing, NEW status, SetJob(drives[p], status)
      PROVE  job'[r] = job[r]
  <2>1. CASE drives[p] # r
    BY <1>1, <2>1
  <2>2. CASE drives[p] = r
    <3>1. r \in Drivers /\ p = r
      BY <1>1, <2>2 DEF DrivenIsOpen, Shared
    <3> QED
      BY <1>1, <2>2, <3>1 DEF DrivenIsOpen, Drives
  <2> QED
    BY <2>1, <2>2
<1>2. ASSUME NEW p \in Drivers, pc[p] = "mkjob", SetJob(p, "pending")
      PROVE  job'[r] = job[r]
  BY <1>2 DEF FreshHasNoRow, Fresh
<1>3. ASSUME NEW d \in Deletes, job[d] \notin Terminal, NEW status, SetJob(d, status)
      PROVE  job'[r] = job[r]
  BY <1>3
<1>4. ASSUME NEW c \in Creates, CreateJob(c) PROVE job'[r] = job[r]
  BY <1>2, <1>4 DEF CreateJob
<1>5. ASSUME NEW p \in Reprovisions, ReprovisionJob(p) PROVE job'[r] = job[r]
  BY <1>2, <1>5 DEF ReprovisionJob
<1>6. ASSUME NEW p \in Drivers, DriveStart(p) \/ Complete(p) \/ AttemptFailed(p)
      PROVE  job'[r] = job[r]
  BY <1>1, <1>6 DEF DriveStart, Complete, AttemptFailed, DrivePC, Closing
<1>13. ASSUME NEW p \in Drivers, GiveUp(p)
       PROVE  job'[r] = job[r] \/ Overturned(r)
  <2>1. CASE UNCHANGED job
    BY <2>1
  <2>2. CASE SetJob(drives[p], "failed") /\ drives[p] # r
    BY <2>2
  <2>3. CASE SetJob(drives[p], "failed") /\ drives[p] = r
    <3>1. pc[p] = "giveup" /\ pc[p] \in DrivePC
      BY <1>13 DEF GiveUp, DrivePC
    <3>2. r \in Drivers /\ p = r
      BY <2>3, <3>1 DEF DrivenIsOpen, Shared
    <3> QED
      BY <2>3, <3>1, <3>2 DEF DrivenIsOpen, Drives, Overturned
  <2> QED
    BY <1>13, <2>1, <2>2, <2>3 DEF GiveUp
<1>7. ASSUME NEW d \in Deletes, DeleteJob(d) \/ DeleteJobDone(d) PROVE job'[r] = job[r]
  BY <1>3, <1>7 DEF DeleteJob, DeleteJobDone, DeleteRow, DeletePC
<1>8. ASSUME NEW d \in Deletes, DeleteProject(d) PROVE job'[r] \in {job[r], "none"}
  BY <1>8 DEF DeleteProject
<1>9. ASSUME NEW j \in Drivers, WorkerReap(j) PROVE job'[r] = job[r]
  BY <1>9 DEF WorkerReap, StaleIsOrphan
<1>10. ASSUME UNCHANGED job PROVE job'[r] = job[r]
  BY <1>10
<1>11. ASSUME NEW p \in Requests,
              \/ FindByKey(p) \/ CreateProject(p) \/ Reprovision(p) \/ SaveDatabase(p)
              \/ SaveCredential(p) \/ ProviderStep(p) \/ Delete(p) \/ DeleteInfra(p)
              \/ AppendLog(p) \/ StatementFails(p)
       PROVE  UNCHANGED job
  BY <1>11
  DEF FindByKey, CreateProject, Reprovision, SaveDatabase, SaveCredential, ProviderStep, Delete,
      DeleteInfra, AppendLog, StatementFails
<1>12. ASSUME \/ WorkerList \/ Crash \/ UNCHANGED vars \/ \E j \in Drivers : Age(j)
       PROVE  UNCHANGED job
  BY <1>12 DEF WorkerList, Crash, vars, Age
<1> QED
  BY <1>4, <1>5, <1>6, <1>7, <1>8, <1>9, <1>10, <1>11, <1>12, <1>13
  DEF Next, CreateStep, ReprovisionStep, DriverStep, DeleteStep

\* A job row that JobStore.create handed to no second request keeps its
\* terminal state until its project is deleted, whatever the worker, crashed
\* or late drivers, failing statements and deletes do, for any number of them;
\* only a driver whose own statement failed after completing the row fails it.
THEOREM TerminalRowsStayTerminal == Spec => TerminalIsFinalUnlessShared
<1> DEFINE Step == \A r \in Requests :
                      job[r] \in Terminal /\ ~Shared(r) =>
                          \/ job'[r] \in {job[r], "none"}
                          \/ pc[r] = "giveup" /\ r \in missed /\ job[r] = "completed" /\ job'[r] = "failed"
<1>1. Spec => [](TypeInv /\ RowInv)
  BY TypeInit, RowInit, TypeStep, RowStep, PTL DEF Spec
<1>2. TypeInv /\ RowInv /\ [Next]_vars => [Step]_vars
  BY RowStaysTerminal DEF Overturned
<1> HIDE DEF Step
<1>3. Spec => [][Step]_vars
  BY <1>1, <1>2, PTL DEF Spec
<1> QED
  BY <1>3 DEF Step, TerminalIsFinalUnlessShared

-----------------------------------------------------------------------------
(* Saved credentials.  The name of a project is a lock: CREATE ROLE takes   *)
(* it once, and of the requests on the name only the one whose password    *)
(* the role has may own or drop the database.  What could break a saved    *)
(* credential is a delete, of the project or of a namesake; a project that *)
(* took its role undisputed keeps every namesake from having a database.   *)

Unmade   == {"idle", "mkproject"}
Dropping == {"deldb", "delrole"}

\* No delete of t has begun its job, and nobody else had a hold on its name.
Safe(t) ==
    /\ t \in projects \ contested
    /\ \A d \in Deletes : target[d] = t => job[d] = "none"

\* The role of its name was made for t.
Holds(t) == Safe(t) /\ role[Name(t)] # None /\ target[role[Name(t)]] = t

\* A project that is yet to be made is nobody's.
UnmadeIsFree ==
    \A t \in Creates : pc[t] \in Unmade =>
        t \notin projects /\ \A r \in Requests : target[r] # t

\* A role is some driver's that has found its project.
RoleIsMade == \A n \in Names : role[n] # None => pc[role[n]] \notin Unmade

SavedIsRecorded ==
    /\ record \subseteq projects
    /\ \A t \in Creates : cred[t] # None =>
          t \in record /\ pc[cred[t]] = "done" /\ target[cred[t]] = t

\* A delete job is for a project with a database record.
DeletesAreRecorded ==
    \A d \in Deletes : pc[d] = "deljob" /\ target[d] \in projects => target[d] \in record

Undisturbed == \A t \in Creates : Holds(t) => ~Disputed(t)

\* What is saved or about to be saved for t is the password of its role.
Opened(t) ==
    /\ \A p \in Drivers : target[p] = t /\ pc[p] \in Finishing => Opens(p)
    /\ cred[t] # None => Name(t) \in db /\ role[Name(t)] = cred[t]

\* A driver that has verified its database keeps it, saved or not.
VerifiedStaysOpen == \A t \in Creates : Safe(t) => Opened(t)

BookInv == UnmadeIsFree /\ RoleIsMade /\ SavedIsRecorded /\ DeletesAreRecorded
CredInv == BookInv /\ Undisturbed /\ VerifiedStaysOpen

LEMMA CredInit == Init => CredInv
<1> SUFFICES ASSUME Init PROVE CredInv
  OBVIOUS
<1> QED
  BY ConstantsAssumption
  DEF Init, CredInv, BookInv, UnmadeIsFree, RoleIsMade, SavedIsRecorded, DeletesAreRecorded,
      Undisturbed, VerifiedStaysOpen, Opened, Holds, Safe, Requests, Drivers

LEMMA NameType ==
  ASSUME NEW t \in Creates
  PROVE  Name(t) \in Names
BY ConstantsAssumption DEF Name

\* A safe project with anything verified or saved holds its name.
LEMMA VerifiedHolds ==
  ASSUME TypeInv, CredInv, NEW t \in Creates, Safe(t)
  PROVE  /\ cred[t] # None => Holds(t) /\ pc[role[Name(t)]] = "done"
         /\ \A p \in Drivers : target[p] = t /\ pc[p] \in Finishing =>
                                  Holds(t) /\ role[Name(t)] = p
<1> USE ConstantsAssumption
<1>1. Opened(t)
  BY DEF CredInv, VerifiedStaysOpen
<1>2. ASSUME cred[t] # None
      PROVE  Holds(t) /\ pc[role[Name(t)]] = "done"
  BY <1>1, <1>2 DEF Opened, Holds, CredInv, BookInv, SavedIsRecorded
<1>3. ASSUME NEW p \in Drivers, target[p] = t, pc[p] \in Finishing
      PROVE  Holds(t) /\ role[Name(t)] = p
  <2>1. role[Name(t)] = p /\ p # None
    BY <1>1, <1>3 DEF Opened, Opens, Requests, Drivers
  <2> QED
    BY <1>3, <2>1 DEF Holds
<1> QED
  BY <1>2, <1>3

\* A step that leaves projects and infrastructure alone, begins no delete job
\* and verifies nothing.
LEMMA CredQuiet ==
  ASSUME TypeInv, CredInv, TypeInv', UNCHANGED <<control, contested, infra>>,
         \A t \in Creates : Safe(t)' => Safe(t),
         \A r \in Requests : pc[r] \notin Unmade => target'[r] = target[r] /\ pc'[r] \notin Unmade,
         \A r \in Requests : pc'[r] \in Owning \cup Dropping => pc'[r] = pc[r],
         \A r \in Requests : pc'[r] \in Finishing => pc[r] \in Finishing,
         \A r \in Requests : pc[r] = "done" => pc'[r] = "done",
         \A r \in Requests : pc'[r] = "deljob" => pc[r] = "deljob" \/ target'[r] \in record,
         \A r \in Requests : target'[r] \in {target[r]} \cup projects
  PROVE  CredInv'
<1> USE ConstantsAssumption DEF control, infra, TypeInv, TypeOK, Requests, Drivers
<1> USE DEF Name
<1>1. UnmadeIsFree'
  BY DEF CredInv, BookInv, UnmadeIsFree
<1>2. RoleIsMade'
  BY DEF CredInv, BookInv, RoleIsMade
<1>3. SavedIsRecorded'
  <2>1. \A t \in Creates : cred[t] # None =>
            cred[t] \in Requests /\ pc[cred[t]] = "done" /\ target[cred[t]] = t /\ t \in record
    BY DEF CredInv, BookInv, SavedIsRecorded
  <2>2. \A r \in Requests : pc[r] = "done" => pc'[r] = "done" /\ target'[r] = target[r]
    BY DEF Unmade
  <2> QED
    BY <2>1, <2>2 DEF CredInv, BookInv, SavedIsRecorded
<1>4. DeletesAreRecorded'
  <2> SUFFICES ASSUME NEW d \in Deletes, pc'[d] = "deljob", target'[d] \in projects
               PROVE  target'[d] \in record
    BY DEF DeletesAreRecorded
  <2>1. CASE pc[d] = "deljob"
    BY <2>1 DEF CredInv, BookInv, DeletesAreRecorded, Unmade
  <2> QED
    BY <2>1
<1>5. ASSUME NEW t \in Creates, Holds(t)'
      PROVE  Holds(t)
  <2>1. Safe(t) /\ role[Name(t)] # None /\ target'[role[Name(t)]] = t
    BY <1>5 DEF Holds
  <2>2. role[Name(t)] \in Requests /\ pc[role[Name(t)]] \notin Unmade
    BY <2>1, NameType DEF CredInv, BookInv, RoleIsMade
  <2> QED
    BY <2>1, <2>2 DEF Holds
<1>6. Undisturbed'
  <2> SUFFICES ASSUME NEW t \in Creates, Holds(t)', Disputed(t)' PROVE FALSE
    BY DEF Undisturbed
  <2>1. ~Disputed(t)
    BY <1>5 DEF CredInv, Undisturbed
  <2>2. ASSUME NEW r \in Requests, pc'[r] \in Owning \cup Dropping \cup Finishing
        PROVE  target'[r] = target[r]
    BY <2>2 DEF Owning, Dropping, Finishing, Unmade
  <2>3. ~HasNamesake(t)'
    BY <2>1, <2>2 DEF Disputed, HasNamesake
  <2>4. \A r \in Requests : ~Meddles(r, Name(t))'
    BY <2>1, <2>2 DEF Disputed, Meddles, Dropping
  <2> QED
    BY <2>3, <2>4 DEF Disputed
<1>7. VerifiedStaysOpen'
  <2> SUFFICES ASSUME NEW t \in Creates, Safe(t)' PROVE Opened(t)'
    BY DEF VerifiedStaysOpen
  <2>1. Opened(t)
    BY DEF CredInv, VerifiedStaysOpen
  <2>2. ASSUME NEW r \in Requests, pc'[r] \in Finishing
        PROVE  target'[r] = target[r] /\ pc[r] \in Finishing
    BY <2>2 DEF Finishing, Unmade
  <2> QED
    BY <2>1, <2>2 DEF Opened, Opens
<1> QED
  BY <1>1, <1>2, <1>3, <1>4, <1>6, <1>7 DEF CredInv, BookInv

\* A statement of request q about its own name: it gives up or keeps what it
\* owns, takes a role that nobody has, only looks, or belongs to a delete job.
LEMMA CredInfra ==
  ASSUME TypeInv, CredInv, TypeInv', NEW q \in Requests, NEW label, Goto(q, label),
         target[q] \in Creates, pc[q] \notin Unmade \cup {"done"},
         label \notin Unmade \cup {"deljob"},
         label \in Dropping => pc[q] \in Dropping,
         label \in Finishing => Opens(q) /\ UNCHANGED infra,
         UNCHANGED <<control, job, target>>, contested \subseteq contested',
         \A n \in Names : n # Name(target[q]) => role'[n] = role[n] /\ (n \in db' <=> n \in db),
         \/ /\ pc[q] \in Owning /\ role'[Name(target[q])] \in {role[Name(target[q])], None}
            /\ label \in Owning => UNCHANGED role
         \/ /\ role[Name(target[q])] = None /\ role'[Name(target[q])] = q /\ q \in Drivers
            /\ target[q] \notin contested' => ~Disputed(target[q])
            /\ label \notin Dropping
         \/ UNCHANGED infra /\ label \notin Owning \cup Dropping
         \/ /\ pc[q] \in Dropping /\ role'[Name(target[q])] \in {role[Name(target[q])], None}
            /\ label \notin Owning
  PROVE  CredInv'
<1> USE ConstantsAssumption DEF control, infra, TypeInv, TypeOK, Requests, Drivers
<1> USE DEF Name
<1> DEFINE m == Name(target[q])
<1>0. m \in Names
  BY NameType
<1>1. /\ \A r \in Requests \ {q} : pc'[r] = pc[r]
      /\ pc'[q] = label
  BY DEF Goto
<1>2. UnmadeIsFree'
  BY <1>1 DEF CredInv, BookInv, UnmadeIsFree
<1>3. RoleIsMade'
  <2> SUFFICES ASSUME NEW n \in Names, role'[n] # None PROVE pc'[role'[n]] \notin Unmade
    BY DEF RoleIsMade
  <2>1. role'[n] = role[n] \/ role'[n] = q
    BY DEF Owning
  <2>2. CASE role'[n] = q
    BY <1>1, <2>2
  <2>3. CASE role'[n] = role[n] /\ role[n] # q
    <3>1. role[n] \in Requests /\ pc[role[n]] \notin Unmade
      BY <2>3 DEF CredInv, BookInv, RoleIsMade
    <3> QED
      BY <1>1, <2>3, <3>1
  <2> QED
    BY <2>1, <2>2, <2>3
<1>4. SavedIsRecorded'
  <2>1. \A t \in Creates : cred[t] # None =>
            cred[t] \in Requests \ {q} /\ pc[cred[t]] = "done" /\ target[cred[t]] = t /\ t \in record
    BY DEF CredInv, BookInv, SavedIsRecorded
  <2> QED
    BY <1>1, <2>1 DEF CredInv, BookInv, SavedIsRecorded
<1>5. DeletesAreRecorded'
  BY <1>1 DEF CredInv, BookInv, DeletesAreRecorded
<1>6. ASSUME NEW t \in Creates, Safe(t)'
      PROVE  (Holds(t)' => ~Disputed(t)') /\ Opened(t)'
  <2> DEFINE s == Name(t)
  <2>0. s \in Names
    BY NameType
  <2>1. Safe(t)
    BY <1>6 DEF Safe
  <2>2. Opened(t) /\ (Holds(t) => ~Disputed(t))
    BY <2>1 DEF CredInv, Undisturbed, VerifiedStaysOpen
  <2>3. CASE m # s
    <3>1. role'[s] = role[s] /\ (s \in db' <=> s \in db)
      BY <2>0, <2>3
    <3>2. Holds(t)' => Holds(t)
      BY <2>1, <3>1 DEF Holds
    <3>3. ASSUME NEW r \in Requests, target[r] # None, Name(target[r]) = s
          PROVE  pc'[r] = pc[r]
      BY <1>1, <2>3, <3>3
    <3>4. HasNamesake(t)' => HasNamesake(t)
      BY <3>3, ConstantsAssumption DEF HasNamesake
    <3>5. \A r \in Requests : Meddles(r, s)' => Meddles(r, s)
      BY <3>1, <3>3 DEF Meddles
    <3>6. Disputed(t)' => Disputed(t)
      BY <3>4, <3>5 DEF Disputed
    <3>7. Opened(t)'
      BY <1>1, <2>2, <2>3, <3>1 DEF Opened, Opens
    <3> QED
      BY <2>2, <3>2, <3>6, <3>7
  <2>4. CASE m = s
    <3>1. CASE UNCHANGED infra /\ label \notin Owning \cup Dropping
      \* It only looked; what it has verified is the password of the role.
      <4>1. Holds(t)' => Holds(t)
        BY <2>1, <3>1 DEF Holds
      <4>2. ASSUME Holds(t)' PROVE ~Disputed(t)'
        <5>1. Holds(t) /\ ~Disputed(t)
          BY <2>2, <4>1, <4>2
        <5>2. \A r \in Requests : ~Meddles(r, s)'
          BY <1>1, <3>1, <5>1 DEF Disputed, Meddles, Dropping
        <5>3. label \in Finishing => target[q] = t
          BY <2>4, <5>1 DEF Opens, Holds
        <5>4. ~HasNamesake(t)'
          BY <1>1, <5>1, <5>3 DEF Disputed, HasNamesake
        <5> QED
          BY <5>2, <5>4 DEF Disputed
      <4>3. Opened(t)'
        BY <1>1, <2>2, <3>1 DEF Opened, Opens
      <4> QED
        BY <4>2, <4>3
    <3>2. ASSUME ~Holds(t)', ~Holds(t), label \notin Finishing PROVE Opened(t)'
      BY <1>1, <2>1, <3>2, VerifiedHolds DEF Opened
    <3>3. CASE /\ role[m] = None /\ role'[m] = q /\ q \in Drivers
               /\ target[q] \notin contested' => ~Disputed(target[q])
               /\ label \notin Dropping
      <4>1. ~Holds(t) /\ label \notin Finishing
        BY <2>4, <3>3, <2>0 DEF Holds
      <4>2. Opened(t)'
        BY <1>1, <2>1, <4>1, VerifiedHolds DEF Opened
      <4>3. ASSUME Holds(t)' PROVE ~Disputed(t)'
        <5>1. target[q] = t
          BY <2>4, <3>3, <4>3 DEF Holds
        <5>2. ~Disputed(t)
          BY <1>6, <3>3, <5>1 DEF Safe
        <5>3. ~HasNamesake(t)'
          BY <1>1, <4>1, <5>2 DEF Disputed, HasNamesake
        <5>4. \A r \in Requests : ~Meddles(r, s)'
          BY <1>1, <2>4, <3>3, <5>2 DEF Disputed, Meddles, Dropping
        <5> QED
          BY <5>3, <5>4 DEF Disputed
      <4> QED
        BY <4>2, <4>3
    <3>4. CASE /\ pc[q] \in Dropping /\ role'[m] \in {role[m], None}
               /\ label \notin Owning
      <4>1. ~Holds(t)
        BY <2>2, <2>4, <3>4 DEF Disputed, Meddles, Dropping
      <4>2. ~Holds(t)'
        BY <2>1, <2>4, <3>4, <4>1 DEF Holds
      <4>3. label \notin Finishing
        <5> SUFFICES ASSUME label \in Finishing PROVE FALSE
          OBVIOUS
        <5> QED
          BY <1>1, <3>4 DEF Lanes, Dropping, Finishing, DeletePC
      <4> QED
        BY <3>2, <4>1, <4>2, <4>3
    <3>5. CASE /\ pc[q] \in Owning /\ role'[m] \in {role[m], None}
               /\ label \in Owning => UNCHANGED role
      <4>1. CASE label \in Finishing
        BY <3>1, <4>1 DEF Finishing, Owning, Dropping
      <4>2. CASE label \notin Finishing
        <5>1. Holds(t)' => Holds(t) /\ role'[s] = role[s]
          BY <2>1, <2>4, <3>5 DEF Holds
        <5>2. Holds(t) => role[s] = q
          BY <2>2, <2>4, <3>5 DEF Disputed, Meddles
        <5>3. Opened(t)'
          BY <1>1, <2>1, <3>5, <4>2, <5>2, VerifiedHolds DEF Opened, Owning, Finishing
        <5>4. ASSUME Holds(t)' PROVE ~Disputed(t)'
          <6>1. ~Disputed(t) /\ role'[s] = role[s] /\ role[s] = q
            BY <2>2, <5>1, <5>2, <5>4
          <6>2. ~HasNamesake(t)'
            BY <1>1, <4>2, <6>1 DEF Disputed, HasNamesake
          <6>3. \A r \in Requests : ~Meddles(r, s)'
            BY <1>1, <3>5, <6>1 DEF Disputed, Meddles, Dropping, Owning
          <6> QED
            BY <6>2, <6>3 DEF Disputed
        <5> QED
          BY <5>3, <5>4
      <4> QED
        BY <4>1, <4>2
    <3> QED
      BY <3>1, <3>3, <3>4, <3>5
  <2> QED
    BY <2>3, <2>4
<1>7. Undisturbed' /\ VerifiedStaysOpen'
  BY <1>6 DEF Undisturbed, VerifiedStaysOpen, Holds
<1> QED
  BY <1>2, <1>3, <1>4, <1>5, <1>7 DEF CredInv, BookInv

LEMMA CredProvider ==
  ASSUME TypeInv, CredInv, TypeInv', NEW p \in Drivers, ProviderStep(p)
  PROVE  CredInv'
<1> USE ConstantsAssumption
<1> DEFINE t == target[p]
           s == Name(t)
<1>1. UNCHANGED <<control, job, target>> /\ pc[p] \in ProviderPC /\ p \in Requests
  <2>1. UNCHANGED <<control, job, target>> /\ p \in Requests
    BY DEF ProviderStep, Requests, Drivers
  <2>2. pc[p] \in ProviderPC
    BY DEF ProviderStep, ProviderPC, Adopt, CreateRole, CreateDb, DropCreatedRole, AwaitHealth,
           VerifyHealthy, DropDatabase, DropRole
  <2> QED
    BY <2>1, <2>2
<1>2. /\ t \in Creates /\ s \in Names
      /\ pc[p] \notin Unmade \cup {"done"} /\ role \in [Names -> Drivers \cup {None}]
  BY <1>1, NameType DEF TypeInv, TypeOK, HasTarget, ProviderPC, Unmade
<1> DEFINE Elsewhere == \A n \in Names : n # s => role'[n] = role[n] /\ (n \in db' <=> n \in db)
           Gives(label) == /\ pc[p] \in Owning /\ role'[s] \in {role[s], None}
                           /\ label \in Owning => UNCHANGED role
           Takes(label) == /\ role[s] = None /\ role'[s] = p /\ p \in Drivers
                           /\ t \notin contested' => ~Disputed(t)
                           /\ label \notin Dropping
           Looks(label) == UNCHANGED infra /\ label \notin Owning \cup Dropping
           Move(label) == /\ Goto(p, label) /\ Elsewhere /\ contested \subseteq contested'
                          /\ Gives(label) \/ Takes(label) \/ Looks(label)
                          /\ label = "complete" => Opens(p) /\ UNCHANGED infra
           Labels == ProviderPC \cup {"complete", "error"}
<1>3. \E label \in Labels : Move(label)
  <2> USE DEF Owning, ProviderPC, Dropping
  <2>1. CASE Adopt(p) /\ UNCHANGED contested
    <3>1. UNCHANGED infra /\ \E label \in {"verify", "role", "error"} : Goto(p, label)
      BY <2>1 DEF Adopt, Fault
    <3> QED
      BY <2>1, <3>1 DEF infra
  <2>2. CASE CreateRole(p)
    <3>1. CASE /\ role[s] = None /\ role' = [role EXCEPT ![s] = p]
               /\ contested' = IF Disputed(t) THEN contested \cup {t} ELSE contested
               /\ Goto(p, "db") /\ UNCHANGED db
      <4>1. Takes("db") /\ Elsewhere /\ contested \subseteq contested'
        BY <1>2, <3>1
      <4> QED
        BY <3>1, <4>1
    <3>2. CASE UNCHANGED infra /\ Goto(p, "error") /\ UNCHANGED contested
      BY <3>2 DEF infra
    <3> QED
      BY <2>2, <3>1, <3>2 DEF CreateRole, Fault, infra
  <2>3. CASE CreateDb(p) /\ UNCHANGED contested
    <3>1. UNCHANGED role /\ \E label \in {"health", "error", "droprole"} : Goto(p, label)
      BY <2>3 DEF CreateDb, Fault
    <3>2. pc[p] \in Owning /\ db' \in {db, db \cup {s}}
      BY <2>3 DEF CreateDb, Fault
    <3> QED
      BY <2>3, <3>1, <3>2
  <2>4. CASE DropCreatedRole(p) /\ UNCHANGED contested
    <3>1. /\ pc[p] \in Owning /\ UNCHANGED db /\ Goto(p, "error")
          /\ role' \in {role, [role EXCEPT ![s] = None]}
      BY <2>4 DEF DropCreatedRole, Fault, RoleDropped
    <3> QED
      BY <1>2, <2>4, <3>1
  <2>5. CASE AwaitHealth(p) /\ UNCHANGED contested
    <3>1. /\ pc[p] \in Owning /\ UNCHANGED infra
          /\ \E label \in {"verify", "dropdb"} : Goto(p, label)
      BY <2>5 DEF AwaitHealth, Fault
    <3> QED
      BY <2>5, <3>1 DEF infra
  <2>6. CASE VerifyHealthy(p) /\ UNCHANGED contested
    <3>1. UNCHANGED infra /\ (Goto(p, "error") \/ (Opens(p) /\ Goto(p, "complete")))
      BY <2>6 DEF VerifyHealthy, Fault
    <3> QED
      BY <2>6, <3>1 DEF infra
  <2>7. CASE DropDatabase(p, "dropdb", "dropdbrole", "error") /\ UNCHANGED contested
    <3>1. UNCHANGED role /\ \E label \in {"dropdbrole", "error"} : Goto(p, label)
      BY <2>7 DEF DropDatabase, Fault
    <3>2. pc[p] \in Owning /\ db' \in {db, db \ {s}}
      BY <2>7 DEF DropDatabase, Fault
    <3> QED
      BY <2>7, <3>1, <3>2
  <2>8. CASE DropRole(p, "dropdbrole", "error", "error") /\ UNCHANGED contested
    <3>1. /\ pc[p] \in Owning /\ UNCHANGED db /\ Goto(p, "error")
          /\ role' \in {role, [role EXCEPT ![s] = None]}
      BY <2>8 DEF DropRole, Fault, RoleDropped
    <3> QED
      BY <1>2, <2>8, <3>1
  <2> QED
    BY <2>1, <2>2, <2>3, <2>4, <2>5, <2>6, <2>7, <2>8 DEF ProviderStep
<1>4. PICK label \in Labels : Move(label)
  BY <1>3
<1>5. /\ label \notin Unmade \cup Dropping \cup {"deljob"}
      /\ label \in Finishing => label = "complete"
  BY <1>4 DEF ProviderPC, Unmade, Dropping, Finishing
<1>6. /\ Goto(p, label) /\ contested \subseteq contested'
      /\ label \in Finishing => Opens(p) /\ UNCHANGED infra
  BY <1>4, <1>5
<1>7. Elsewhere /\ (Gives(label) \/ Takes(label) \/ Looks(label))
  BY <1>4
<1> QED
  BY ONLY TypeInv, TypeInv', CredInv, <1>1, <1>2, <1>5, <1>6, <1>7, CredInfra

LEMMA CredDelete ==
  ASSUME TypeInv, CredInv, TypeInv', NEW d \in Deletes, DeleteInfra(d)
  PROVE  CredInv'
<1> USE ConstantsAssumption
<1> DEFINE s == Name(target[d])
<1>1. /\ UNCHANGED <<control, contested, job, target>> /\ d \in Requests
      /\ pc[d] \in Dropping
  BY DEF DeleteInfra, DropDatabase, DropRole, Requests, Dropping, history
<1>2. /\ target[d] \in Creates /\ s \in Names /\ role \in [Names -> Drivers \cup {None}]
  BY <1>1, NameType DEF TypeInv, TypeOK, HasTarget, Dropping
<1>3. \A n \in Names : n # s => role'[n] = role[n] /\ (n \in db' <=> n \in db)
  BY <1>2 DEF DeleteInfra, DropDatabase, DropRole, Fault, RoleDropped
<1>4. role'[s] \in {role[s], None}
  BY <1>2 DEF DeleteInfra, DropDatabase, DropRole, Fault, RoleDropped
<1>5. PICK label \in {"delrole", "delok", "delfail"} : Goto(d, label)
  BY DEF DeleteInfra, DropDatabase, DropRole, Fault
<1>6. label \notin Unmade \cup {"deljob"} \cup Finishing \cup Owning /\ pc[d] \notin Unmade \cup {"done"}
  BY <1>1 DEF Unmade, Finishing, Owning, Dropping
<1> QED
  BY ONLY TypeInv, TypeInv', CredInv, <1>1, <1>2, <1>3, <1>4, <1>5, <1>6, CredInfra

\* A step that only moves one handler and writes one job row.
LEMMA CredMove ==
  ASSUME TypeInv, CredInv, TypeInv', NEW r \in Requests, NEW label, Goto(r, label),
         label \notin Owning \cup Dropping \cup Unmade \cup {"deljob"},
         label \in Finishing => pc[r] \in Finishing, pc[r] # "done",
         \A d \in Deletes : job'[d] = "none" => job[d] = "none",
         UNCHANGED <<control, contested, infra, target>>
  PROVE  CredInv'
<1> USE ConstantsAssumption DEF TypeInv, TypeOK, Requests, Drivers
<1>1. /\ \A q \in Requests \ {r} : pc'[q] = pc[q]
      /\ pc'[r] = label
  BY DEF Goto
<1>2. \A t \in Creates : Safe(t)' => Safe(t)
  BY DEF Safe, control
<1> QED
  BY <1>1, <1>2, CredQuiet

LEMMA CredCreateProject ==
  ASSUME TypeInv, CredInv, TypeInv', NEW c \in Creates, CreateProject(c)
  PROVE  CredInv'
<1> USE ConstantsAssumption
<1>0. /\ pc[c] = "mkproject" /\ c \in Requests
      /\ UNCHANGED <<record, cred, contested, job, infra>>
  BY DEF CreateProject, Requests, history
<1>1. CASE Goto(c, "done") /\ UNCHANGED <<projects, target>>
  BY <1>0, <1>1, CredMove DEF control, Owning, Dropping, Unmade, Finishing
<1>2. CASE /\ projects' = projects \cup {c} /\ Goto(c, "mkjob")
           /\ target' = [target EXCEPT ![c] = c]
  <2>0. TypeOK /\ c \notin projects /\ \A r \in Requests : target[r] # c
    BY <1>0 DEF CredInv, BookInv, UnmadeIsFree, Unmade, TypeInv
  <2>1. /\ \A r \in Requests \ {c} : pc'[r] = pc[r] /\ target'[r] = target[r]
        /\ pc'[c] = "mkjob" /\ target'[c] = c
    BY <1>0, <1>2, <2>0 DEF Goto, TypeOK
  <2>2. UnmadeIsFree'
    BY <1>0, <1>2, <2>1 DEF CredInv, BookInv, UnmadeIsFree, Unmade, Requests
  <2>3. RoleIsMade'
    BY <1>0, <2>0, <2>1 DEF CredInv, BookInv, RoleIsMade, Unmade, infra, TypeOK, Requests, Drivers
  <2>4. SavedIsRecorded'
    <3>1. \A t \in Creates : cred[t] # None => cred[t] \in Requests
      BY <2>0 DEF TypeOK, Requests, Drivers
    <3> QED
      BY <1>0, <1>2, <2>1, <3>1 DEF CredInv, BookInv, SavedIsRecorded
  <2>5. DeletesAreRecorded'
    <3>1. \A d \in Deletes : d # c /\ d \in Requests
      BY DEF Requests
    <3> QED
      BY <1>0, <1>2, <2>0, <2>1, <3>1 DEF CredInv, BookInv, DeletesAreRecorded
  <2>6. ASSUME NEW t \in Creates, Safe(t)', t # c PROVE Safe(t)
    <3>1. \A d \in Deletes : d # c /\ d \in Requests
      BY DEF Requests
    <3> QED
      BY <1>0, <1>2, <2>1, <2>6, <3>1 DEF Safe
  <2>7. ASSUME NEW t \in Creates, Holds(t)' PROVE Holds(t)
    <3> DEFINE q == role[Name(t)]
    <3>1. /\ Safe(t)' /\ q # None /\ target'[q] = t /\ UNCHANGED role
      BY <1>0, <2>7 DEF Holds, Name, infra
    <3>2. q \in Requests /\ q # c
      BY <1>0, <2>0, <3>1, NameType
      DEF CredInv, BookInv, RoleIsMade, Unmade, TypeOK, Requests, Drivers
    <3>3. target[q] = t /\ t # c
      BY <2>0, <2>1, <3>1, <3>2
    <3> QED
      BY <2>6, <3>1, <3>3 DEF Holds
  <2>8. Undisturbed'
    <3>1. c \notin record
      BY <2>0 DEF CredInv, BookInv, SavedIsRecorded
    <3>2. \A t \in Creates : HasNamesake(t)' => HasNamesake(t)
      BY <1>0, <2>1, <3>1 DEF HasNamesake, Finishing, Name
    <3>3. \A r \in Requests, n \in Names : Meddles(r, n)' => Meddles(r, n)
      BY <1>0, <2>1 DEF Meddles, Name, Owning, infra
    <3>4. \A t \in Creates : Disputed(t)' => Disputed(t)
      BY <3>2, <3>3, NameType DEF Disputed, Name
    <3> QED
      BY <2>7, <3>4 DEF CredInv, Undisturbed
  <2>9. ASSUME NEW t \in Creates, Safe(t)' PROVE Opened(t)'
    <3>1. CASE t = c
      <4>1. cred[c] = None
        BY <2>0 DEF CredInv, BookInv, SavedIsRecorded
      <4> QED
        BY <1>0, <2>0, <2>1, <3>1, <4>1 DEF Opened, Finishing, Requests, Drivers
    <3>2. CASE t # c
      <4>1. Opened(t)
        BY <2>6, <2>9, <3>2 DEF CredInv, VerifiedStaysOpen
      <4> QED
        BY <1>0, <2>1, <4>1 DEF Opened, Finishing, Opens, Name, infra, Requests, Drivers
    <3> QED
      BY <3>1, <3>2
  <2> QED
    BY <2>2, <2>3, <2>4, <2>5, <2>8, <2>9 DEF CredInv, BookInv, VerifiedStaysOpen
<1> QED
  BY <1>1, <1>2 DEF CreateProject

\* The record and the credential are saved; a namesake of a project that holds
\* its name is not at this point.
LEMMA CredSave ==
  ASSUME TypeInv, CredInv, TypeInv', NEW p \in Drivers, SaveDatabase(p) \/ SaveCredential(p)
  PROVE  CredInv'
<1> USE ConstantsAssumption
<1> DEFINE u == target[p]
<1>0. TypeOK /\ p \in Requests /\ pc[p] \in {"saverec", "savecred"} /\ u \in Creates
  BY DEF SaveDatabase, SaveCredential, Moved, TypeInv, HasTarget, Requests, Drivers
<1>1. /\ UNCHANGED <<projects, contested, job, infra, target>>
      /\ record' \in {record, record \cup {u}} /\ record' \subseteq projects \cup record
      /\ \A t \in Creates : \/ cred'[t] = cred[t]
                            \/ t = u /\ cred'[t] = p /\ pc'[p] = "done" /\ t \in record
      /\ \E label \in {"savecred", "done"} : Goto(p, label)
  BY <1>0 DEF SaveDatabase, SaveCredential, Moved, Goto, TypeOK, history
<1>2. /\ \A q \in Requests \ {p} : pc'[q] = pc[q]
      /\ pc'[p] \in {"savecred", "done"}
  BY <1>0, <1>1 DEF Goto, TypeOK
<1>3. UnmadeIsFree'
  BY <1>0, <1>1, <1>2 DEF CredInv, BookInv, UnmadeIsFree, Unmade, Requests
<1>4. RoleIsMade'
  BY <1>0, <1>1, <1>2 DEF CredInv, BookInv, RoleIsMade, Unmade, infra, TypeOK, Requests, Drivers
<1>5. SavedIsRecorded'
  <2>1. \A t \in Creates : cred[t] # None => cred[t] \in Requests \ {p}
    BY <1>0 DEF CredInv, BookInv, SavedIsRecorded, TypeOK, Requests, Drivers
  <2>2. record' \subseteq projects' /\ record \subseteq record'
    BY <1>1 DEF CredInv, BookInv, SavedIsRecorded
  <2> QED
    BY <1>1, <1>2, <2>1, <2>2 DEF CredInv, BookInv, SavedIsRecorded
<1>6. DeletesAreRecorded'
  BY <1>1, <1>2 DEF CredInv, BookInv, DeletesAreRecorded, Requests
<1>7. \A t \in Creates : Safe(t)' = Safe(t) /\ Holds(t)' = Holds(t)
  BY <1>1 DEF Safe, Holds, Name, infra
<1>8. Undisturbed'
  <2> SUFFICES ASSUME NEW t \in Creates, Holds(t) PROVE ~Disputed(t)'
    BY <1>7 DEF Undisturbed
  <2>1. ~Disputed(t)
    BY DEF CredInv, Undisturbed
  <2>2. u # t => Name(u) # Name(t)
    BY <1>0, <2>1 DEF Disputed, HasNamesake, Finishing
  <2>3. ~HasNamesake(t)'
    BY <1>0, <1>1, <1>2, <2>1, <2>2 DEF Disputed, HasNamesake, Name
  <2>4. \A r \in Requests : ~Meddles(r, Name(t))'
    BY <1>0, <1>1, <1>2, <2>1 DEF Disputed, Meddles, Name, Owning, infra
  <2> QED
    BY <2>3, <2>4 DEF Disputed, Name
<1>9. VerifiedStaysOpen'
  <2> SUFFICES ASSUME NEW t \in Creates, Safe(t) PROVE Opened(t)'
    BY <1>7 DEF VerifiedStaysOpen
  <2>1. Opened(t)
    BY DEF CredInv, VerifiedStaysOpen
  <2>2. u = t => Opens(p)
    BY <1>0, <2>1 DEF Opened, Finishing
  <2>3. \A q \in Drivers : target'[q] = t /\ pc'[q] \in Finishing => Opens(q)'
    BY <1>0, <1>1, <1>2, <2>1, <2>2 DEF Opened, Finishing, Opens, Name, infra, Requests, Drivers
  <2>4. cred'[t] # None => Name(t) \in db /\ role[Name(t)] = cred'[t]
    BY <1>1, <2>1, <2>2 DEF Opened, Opens
  <2> QED
    BY <1>1, <2>3, <2>4 DEF Opened, Name, infra
<1> QED
  BY <1>3, <1>4, <1>5, <1>6, <1>8, <1>9 DEF CredInv, BookInv

\* A delete job begins: its project has a record, so it is no namesake of a
\* project that holds its name.
LEMMA CredDeleteJob ==
  ASSUME TypeInv, CredInv, TypeInv', NEW d \in Deletes, DeleteJob(d)
  PROVE  CredInv'
<1> USE ConstantsAssumption
<1>0. /\ TypeOK /\ d \in Requests /\ pc[d] = "deljob" /\ target[d] \in Creates
      /\ UNCHANGED <<control, contested, infra, target>>
  BY DEF DeleteJob, TypeInv, HasTarget, Requests, history
<1>1. CASE Goto(d, "done") /\ UNCHANGED job
  BY <1>0, <1>1, CredMove DEF Owning, Dropping, Unmade, Finishing
<1>2. CASE target[d] \in projects /\ SetJob(d, "running") /\ Goto(d, "deldb")
  <2>1. /\ \A r \in Requests \ {d} : pc'[r] = pc[r] /\ job'[r] = job[r]
        /\ pc'[d] = "deldb" /\ job'[d] = "running"
    BY <1>0, <1>2 DEF Goto, SetJob, TypeOK
  <2>2. UnmadeIsFree'
    BY <1>0, <2>1 DEF CredInv, BookInv, UnmadeIsFree, control, Unmade, Requests
  <2>3. RoleIsMade'
    BY <1>0, <2>1 DEF CredInv, BookInv, RoleIsMade, Unmade, infra, TypeOK, Requests, Drivers
  <2>4. SavedIsRecorded'
    BY <1>0, <2>1 DEF CredInv, BookInv, SavedIsRecorded, control, Requests, Drivers, TypeOK
  <2>5. DeletesAreRecorded'
    BY <1>0, <2>1 DEF CredInv, BookInv, DeletesAreRecorded, control, Requests
  <2>6. ASSUME NEW t \in Creates, Safe(t)' PROVE Safe(t) /\ target[d] # t
    <3>1. target[d] # t
      BY <1>0, <2>1, <2>6 DEF Safe
    <3> QED
      BY <1>0, <2>1, <2>6, <3>1 DEF Safe, control, Requests
  <2>7. Undisturbed'
    <3> SUFFICES ASSUME NEW t \in Creates, Holds(t)' PROVE ~Disputed(t)'
      BY DEF Undisturbed
    <3>1. Holds(t) /\ target[d] # t
      BY <1>0, <2>6 DEF Holds, Name, infra
    <3>2. ~Disputed(t) /\ target[d] \in record
      BY <1>0, <1>2, <3>1 DEF CredInv, BookInv, Undisturbed, DeletesAreRecorded
    <3>3. Name(target[d]) # Name(t)
      BY <1>0, <3>1, <3>2 DEF Disputed, HasNamesake
    <3>4. ~HasNamesake(t)'
      BY <1>0, <2>1, <3>2 DEF Disputed, HasNamesake, Finishing, Name, control
    <3>5. \A r \in Requests : ~Meddles(r, Name(t))'
      BY <1>0, <2>1, <3>2, <3>3 DEF Disputed, Meddles, Name, infra
    <3> QED
      BY <3>4, <3>5 DEF Disputed, Name
  <2>8. VerifiedStaysOpen'
    BY <1>0, <2>1, <2>6
    DEF CredInv, VerifiedStaysOpen, Opened, Finishing, Opens, Name, control, infra, Requests,
        Drivers
  <2> QED
    BY <2>2, <2>3, <2>4, <2>5, <2>7, <2>8 DEF CredInv, BookInv
<1> QED
  BY <1>1, <1>2 DEF DeleteJob

LEMMA CredDeleteProject ==
  ASSUME TypeInv, CredInv, TypeInv', NEW d \in Deletes, DeleteProject(d)
  PROVE  CredInv'
<1> USE ConstantsAssumption
<1> DEFINE t == target[d]
<1>0. /\ TypeOK /\ d \in Requests /\ pc[d] = "delproject" /\ t \in Creates
      /\ UNCHANGED <<contested, infra, target>> /\ Goto(d, "done")
      /\ projects' = projects \ {t} /\ record' = record \ {t}
      /\ cred' = [cred EXCEPT ![t] = None]
      /\ job' = [r \in Requests |-> IF target[r] = t THEN "none" ELSE job[r]]
  BY DEF DeleteProject, Moved, TypeInv, HasTarget, Requests, history
<1>1. /\ \A r \in Requests \ {d} : pc'[r] = pc[r]
      /\ pc'[d] = "done"
  BY <1>0 DEF Goto, TypeOK
<1>2. \A u \in Creates : Safe(u)' => Safe(u) /\ u # t
  BY <1>0 DEF Safe, Requests
<1>3. \A u \in Creates : Holds(u)' => Holds(u)
  BY <1>0, <1>2 DEF Holds, Name, infra
<1>4. UnmadeIsFree'
  BY <1>0, <1>1 DEF CredInv, BookInv, UnmadeIsFree, Unmade, Requests
<1>5. RoleIsMade'
  BY <1>0, <1>1 DEF CredInv, BookInv, RoleIsMade, Unmade, infra, TypeOK, Requests, Drivers
<1>6. SavedIsRecorded'
  <2>1. \A u \in Creates : cred'[u] # None => u # t /\ cred'[u] = cred[u] /\ cred[u] \in Requests
    BY <1>0 DEF TypeOK, Requests, Drivers
  <2> QED
    BY <1>0, <1>1, <2>1 DEF CredInv, BookInv, SavedIsRecorded
<1>7. DeletesAreRecorded'
  BY <1>0, <1>1 DEF CredInv, BookInv, DeletesAreRecorded, Requests
<1>8. Undisturbed'
  <2>1. \A u \in Creates : HasNamesake(u)' => HasNamesake(u)
    BY <1>0, <1>1 DEF HasNamesake, Finishing, Name
  <2>2. \A r \in Requests, n \in Names : Meddles(r, n)' => Meddles(r, n)
    BY <1>0, <1>1 DEF Meddles, Name, Owning, infra
  <2>3. \A u \in Creates : Disputed(u)' => Disputed(u)
    BY <2>1, <2>2, NameType DEF Disputed, Name
  <2> QED
    BY <1>3, <2>3 DEF CredInv, Undisturbed
<1>9. VerifiedStaysOpen'
  <2>1. \A u \in Creates : u # t => cred'[u] = cred[u]
    BY <1>0 DEF TypeOK
  <2> QED
    BY <1>0, <1>1, <1>2, <2>1
    DEF CredInv, VerifiedStaysOpen, Opened, Finishing, Opens, Name, infra, Requests, Drivers
<1> QED
  BY <1>4, <1>5, <1>6, <1>7, <1>8, <1>9 DEF CredInv, BookInv

LEMMA CredStep == TypeInv /\ RowInv /\ CredInv /\ TypeInv' /\ [Next]_vars => CredInv'
<1> USE ConstantsAssumption
<1> SUFFICES ASSUME TypeInv, RowInv, CredInv, TypeInv', [Next]_vars PROVE CredInv'
  OBVIOUS
<1> DEFINE Labels == {"start", "adopt", "error", "done", "mkjob", "delproject", "giveup", "delfail"}
<1>0. Labels \cap (Owning \cup Dropping \cup Unmade \cup Finishing \cup {"deljob"}) = {}
  BY DEF Owning, Dropping, Unmade, Finishing
<1>1. ASSUME NEW c \in Creates, FindByKey(c) PROVE CredInv'
  <2>1. /\ pc[c] = "idle" /\ UNCHANGED <<control, contested, job, infra, target>>
        /\ \E label \in {"done", "mkproject"} : Goto(c, label)
    BY <1>1 DEF FindByKey, history
  <2>2. /\ \A r \in Requests \ {c} : pc'[r] = pc[r]
        /\ pc'[c] \in {"done", "mkproject"}
    BY <2>1 DEF Goto, TypeInv, TypeOK, Requests
  <2>3. \A t \in Creates : Safe(t)' => Safe(t)
    BY <2>1 DEF Safe, control
  <2> QED
    BY <2>1, <2>2, <2>3, CredQuiet DEF Owning, Dropping, Unmade, Finishing, Requests
<1>2. ASSUME NEW c \in Creates, CreateProject(c) PROVE CredInv'
  BY <1>2, CredCreateProject
<1>3. ASSUME NEW r \in Drivers, \/ CreateJob(r) \/ ReprovisionJob(r) \/ DriveStart(r)
                                \/ AttemptFailed(r) \/ GiveUp(r)
      PROVE  CredInv'
  <2>1. /\ UNCHANGED <<control, contested, infra, target>> /\ r \in Requests /\ pc[r] # "done"
        /\ \E label \in Labels : Goto(r, label)
    BY <1>3 DEF CreateJob, ReprovisionJob, DriveStart, AttemptFailed, GiveUp, Requests, Drivers,
                history
  <2>2. \A d \in Deletes : job'[d] = "none" => job[d] = "none"
    BY <1>3
    DEF CreateJob, ReprovisionJob, DriveStart, AttemptFailed, GiveUp, SetJob, TypeInv, TypeOK,
        Requests
  <2> QED
    BY <1>0, <2>1, <2>2, CredMove
<1>4. ASSUME NEW r \in Reprovisions, Reprovision(r) PROVE CredInv'
  <2>1. PICK t \in projects \ record : target' = [target EXCEPT ![r] = t]
    BY <1>4 DEF Reprovision
  <2>2. /\ pc[r] = "idle" /\ Goto(r, "mkjob") /\ UNCHANGED <<control, contested, job, infra>>
    BY <1>4 DEF Reprovision, history
  <2>3. /\ \A q \in Requests \ {r} : pc'[q] = pc[q] /\ target'[q] = target[q]
        /\ pc'[r] = "mkjob" /\ target'[r] = t /\ r \notin Deletes /\ r \notin Creates
    BY <2>1, <2>2, ConstantsAssumption DEF Goto, TypeInv, TypeOK, Requests
  <2>4. \A u \in Creates : Safe(u)' => Safe(u)
    BY <2>2, <2>3 DEF Safe, control, Requests
  <2> QED
    BY <1>0, <2>2, <2>3, <2>4, CredQuiet DEF Owning, Dropping, Finishing, Unmade, Requests
<1>5. ASSUME NEW p \in Drivers, Complete(p) \/ AppendLog(p) PROVE CredInv'
  <2>1. /\ UNCHANGED <<control, contested, infra, target>> /\ p \in Requests
        /\ pc[p] \in {"complete", "log"}
        /\ \E label \in {"log", "saverec", "done"} : Goto(p, label)
    BY <1>5 DEF Complete, AppendLog, Requests, Drivers, history
  <2>2. \A d \in Deletes : job'[d] = "none" => job[d] = "none"
    BY <1>5 DEF Complete, AppendLog, SetJob, TypeInv, TypeOK, Requests
  <2> QED
    BY <2>1, <2>2, CredMove DEF Owning, Dropping, Unmade, Finishing
<1>6. ASSUME NEW p \in Drivers, SaveDatabase(p) \/ SaveCredential(p) PROVE CredInv'
  BY <1>6, CredSave
<1>7. ASSUME NEW p \in Drivers, ProviderStep(p) PROVE CredInv'
  BY <1>7, CredProvider
<1>8. ASSUME NEW d \in Deletes, Delete(d) PROVE CredInv'
  <2>1. PICK t \in projects : /\ target' = [target EXCEPT ![d] = t]
                              /\ Goto(d, IF t \in record THEN "deljob" ELSE "delproject")
    BY <1>8 DEF Delete
  <2>2. pc[d] = "idle" /\ UNCHANGED <<control, contested, job, infra>> /\ job[d] = "none"
    BY <1>8 DEF Delete, RowInv, DeleteRow, history
  <2>3. /\ \A q \in Requests \ {d} : pc'[q] = pc[q] /\ target'[q] = target[q]
        /\ pc'[d] \in {"deljob", "delproject"} /\ target'[d] = t
        /\ pc'[d] = "deljob" => t \in record
    BY <2>1, <2>2, ConstantsAssumption DEF Goto, TypeInv, TypeOK, Requests
  <2>4. \A u \in Creates : Safe(u)' => Safe(u)
    BY <2>2, <2>3 DEF Safe, control, Requests
  <2> QED
    BY <2>2, <2>3, <2>4, CredQuiet DEF Owning, Dropping, Unmade, Finishing, Requests
<1>9. ASSUME NEW d \in Deletes, DeleteJob(d) PROVE CredInv'
  BY <1>9, CredDeleteJob
<1>10. ASSUME NEW d \in Deletes, DeleteInfra(d) PROVE CredInv'
  BY <1>10, CredDelete
<1>11. ASSUME NEW d \in Deletes, DeleteJobDone(d) PROVE CredInv'
  <2>1. /\ UNCHANGED <<control, contested, infra, target>> /\ d \in Requests /\ pc[d] # "done"
        /\ \E label \in Labels : Goto(d, label)
    BY <1>11 DEF DeleteJobDone, Requests, history
  <2>2. \A e \in Deletes : job'[e] = "none" => job[e] = "none"
    BY <1>11 DEF DeleteJobDone, SetJob, TypeInv, TypeOK, Requests
  <2> QED
    BY <1>0, <2>1, <2>2, CredMove
<1>12. ASSUME NEW d \in Deletes, DeleteProject(d) PROVE CredInv'
  BY <1>12, CredDeleteProject
<1>13. ASSUME UNCHANGED <<control, contested, infra, pc, target>>,
              \A d \in Deletes : job'[d] = "none" => job[d] = "none"
       PROVE  CredInv'
  <2>1. \A t \in Creates : Safe(t)' => Safe(t)
    BY <1>13 DEF Safe, control
  <2> QED
    BY <1>13, <2>1, CredQuiet
<1>14. ASSUME NEW j \in Drivers, Age(j) \/ WorkerReap(j) PROVE CredInv'
  <2>1. UNCHANGED <<control, contested, infra, pc, target>>
    BY <1>14 DEF Age, WorkerReap, handlers, history
  <2>2. \A d \in Deletes : job'[d] = "none" => job[d] = "none"
    BY <1>14 DEF Age, WorkerReap, TypeInv, TypeOK, Requests
  <2> QED
    BY <1>13, <2>1, <2>2
<1>15. CASE WorkerList \/ UNCHANGED vars
  BY <1>13, <1>15 DEF WorkerList, vars, handlers, history
<1>16. ASSUME NEW r \in Requests, StatementFails(r) PROVE CredInv'
  <2>1. /\ UNCHANGED <<control, contested, job, infra, target>> /\ pc[r] # "done"
        /\ \E label \in Labels : Goto(r, label)
    BY <1>16 DEF StatementFails
  <2> QED
    BY <1>0, <2>1, CredMove
<1>17. CASE Crash
  <2>1. UNCHANGED <<control, contested, job, infra, target>>
    BY <1>17 DEF Crash, history
  <2>2. \A r \in Requests : pc'[r] \in {"idle", "done"} /\ (pc'[r] = "idle" => pc[r] = "idle")
    BY <1>17 DEF Crash
  <2>3. \A t \in Creates : Safe(t)' => Safe(t)
    BY <2>1 DEF Safe, control
  <2>4. \A r \in Requests : pc[r] = "done" => pc'[r] = "done"
    BY <2>2
  <2> QED
    BY <2>1, <2>2, <2>3, <2>4, CredQuiet DEF Owning, Dropping, Unmade, Finishing, Requests
<1> QED
  BY <1>1, <1>2, <1>3, <1>4, <1>5, <1>6, <1>7, <1>8, <1>9, <1>10, <1>11, <1>12, <1>14,
     <1>15, <1>16, <1>17
  DEF Next, CreateStep, ReprovisionStep, DriverStep, DeleteStep, Drivers

\* A saved credential opens its project's database for as long as the project is
\* there and no delete of it has begun, for any number of drivers with
\* passwords of their own, projects that share a name, retries, faults, failing
\* statements, restarts and deletes of other projects; unless another project
\* or a delete job had a hold on the name when the project's role was created.
THEOREM SavedCredentialsOpen == Spec => []SavedCredentialOpens
<1>1. Spec => [](TypeInv /\ RowInv /\ CredInv)
  BY TypeInit, RowInit, CredInit, TypeStep, RowStep, CredStep, PTL DEF Spec
<1>2. TypeInv /\ CredInv => SavedCredentialOpens
  BY DEF SavedCredentialOpens, TypeInv, TypeOK, CredInv, VerifiedStaysOpen, Opened, Safe
<1> QED
  BY <1>1, <1>2, PTL

=============================================================================
