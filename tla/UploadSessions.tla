--------------------------- MODULE UploadSessions ---------------------------
(***************************************************************************)
(* One resumable upload of packages/storage on the Drizzle metadata store: *)
(* numbered parts are put as temporary objects and recorded in the         *)
(* session row, complete assembles them, abort gives up.  Each awaited     *)
(* call is one step.                                                       *)
(*                                                                         *)
(* A part's content is its index: a retry sends the same bytes again.      *)
(* The object a complete stores is the set of parts it was made of; of its *)
(* upload (module ObjectStorage) the bytes are one step and the row, or    *)
(* what the quota makes of the bytes, another.                             *)
(***************************************************************************)
EXTENDS Naturals, FiniteSets

CONSTANTS
    Puts, Index,    \* part requests, and the part index of each
    Completes, Aborts,
    MaxFaults,      \* bound: restarts of the API and failed writes of the final status
    None

Requests == Puts \cup Completes \cup Aborts
Indexes  == {Index[q] : q \in Puts}

ASSUME ConstantsAssumption ==
    /\ IsFiniteSet(Puts)
    /\ Index \in [Puts -> Nat]
    /\ Puts \cap Completes = {} /\ Puts \cap Aborts = {} /\ Completes \cap Aborts = {}
    /\ None \notin {"completed", "aborted"} /\ \A S \in SUBSET Indexes : S # None
    /\ MaxFaults \in Nat

VARIABLES
    status,     \* of the session row: "active", "completed", "aborted"
    expired,    \* its expiresAt has passed
    parts,      \* its part indexes
    received,   \* its receivedBytes, counted in parts
    files,      \* indexes whose part object exists
    object,     \* the parts of the object that was stored, or None
    pc, todo,   \* per request: where it stands, indexes it has yet to visit
    readParts, readReceived,    \* per request: the session as read
    verdict,    \* per request: the status it ends the session with
    acked,      \* history: indexes whose PUT was answered 200
    owed,       \* history: per complete, what was acknowledged when it began
    met,        \* history: part requests that were between their read and their
                \* write at one time with another
    overshot,   \* history: completes that took the object away for the quota
    faults

session == <<status, expired, parts, received>>
request == <<pc, todo, readParts, readReceived, verdict>>
history == <<acked, owed, met, overshot>>
vars == <<session, files, object, request, history, faults>>

TypeOK ==
    /\ status \in {"active", "completed", "aborted"}
    /\ expired \in BOOLEAN
    /\ parts \subseteq Indexes
    /\ received \in 0 .. Cardinality(Puts)
    /\ files \subseteq Indexes
    /\ object \in (SUBSET Indexes) \cup {None}
    /\ pc \in [Requests -> {"idle", "put", "read", "record", "assemble", "upload",
                            "stored", "clean", "finish", "done"}]
    /\ todo \in [Requests -> SUBSET Indexes]
    /\ readParts \in [Requests -> SUBSET Indexes]
    /\ readReceived \in [Requests -> 0 .. Cardinality(Puts)]
    /\ verdict \in [Requests -> {"completed", "aborted", None}]
    /\ acked \subseteq Indexes
    /\ owed \in [Requests -> SUBSET Indexes]
    /\ met \subseteq Puts
    /\ overshot \subseteq Completes
    /\ faults \in 0 .. MaxFaults

Init ==
    /\ status = "active" /\ expired = FALSE
    /\ parts = {} /\ received = 0
    /\ files = {} /\ object = None
    /\ pc = [r \in Requests |-> "idle"]
    /\ todo = [r \in Requests |-> {}]
    /\ readParts = [r \in Requests |-> {}]
    /\ readReceived = [r \in Requests |-> 0]
    /\ verdict = [r \in Requests |-> None]
    /\ acked = {}
    /\ owed = [r \in Requests |-> {}]
    /\ met = {} /\ overshot = {}
    /\ faults = 0

Goto(r, label) == pc' = [pc EXCEPT ![r] = label]
Live == status = "active" /\ ~expired
UpTo(S) == UNION {0 .. i : i \in S}
First(S) == CHOOSE i \in S : \A k \in S : i <= k
Recording == {q \in Puts : pc[q] = "record"}

-----------------------------------------------------------------------------
(* PUT parts/:index.                                                       *)

OpenPart(q) ==
    /\ pc[q] = "idle"
    /\ Goto(q, IF Live THEN "put" ELSE "done")
    /\ UNCHANGED <<session, files, object, todo, readParts, readReceived, verdict, history, faults>>

PutPart(q) ==
    /\ pc[q] = "put"
    /\ Goto(q, "read")
    /\ files' = files \cup {Index[q]}
    /\ UNCHANGED <<session, object, todo, readParts, readReceived, verdict, history, faults>>

\* recordUploadPart reads the row, and gives up on one that is not live.
ReadForPart(q) ==
    /\ pc[q] = "read"
    /\ Goto(q, IF Live THEN "record" ELSE "done")
    /\ readParts' = [readParts EXCEPT ![q] = parts]
    /\ readReceived' = [readReceived EXCEPT ![q] = received]
    /\ met' = met \cup (IF Live /\ Recording # {} THEN Recording \cup {q} ELSE {})
    /\ UNCHANGED <<session, files, object, todo, verdict, acked, owed, overshot,
                   faults>>

\* Mutation: the list holds the part that came last.
RecordPartAlone(q) ==
    /\ pc[q] = "record"
    /\ Goto(q, "done")
    /\ parts' = {Index[q]}
    /\ received' = readReceived[q] + 1
    /\ acked' = acked \cup {Index[q]}
    /\ UNCHANGED <<status, expired, files, object, todo, readParts, readReceived, verdict,
                   owed, met, overshot, faults>>

\* ... and writes the list it read with the index in it, by id.
RecordPart(q) ==
    /\ pc[q] = "record"
    /\ Goto(q, "done")
    /\ parts' = readParts[q] \cup {Index[q]}
    /\ received' = readReceived[q] + 1
    /\ acked' = acked \cup {Index[q]}
    /\ UNCHANGED <<status, expired, files, object, todo, readParts, readReceived, verdict,
                   owed, met, overshot, faults>>

-----------------------------------------------------------------------------
(* POST complete.                                                          *)

\* Mutation: no look for gaps.
OpenCompleteBlind(c) ==
    /\ pc[c] = "idle"
    /\ Goto(c, IF Live /\ parts # {} THEN "assemble" ELSE "done")
    /\ todo' = [todo EXCEPT ![c] = parts]
    /\ readParts' = [readParts EXCEPT ![c] = parts]
    /\ owed' = [owed EXCEPT ![c] = acked]
    /\ UNCHANGED <<session, files, object, readReceived, verdict, acked, met, overshot,
                   faults>>

\* The session's parts must run from 0 without a gap.
OpenComplete(c) ==
    /\ pc[c] = "idle"
    /\ Goto(c, IF Live /\ parts # {} /\ UpTo(parts) = parts THEN "assemble" ELSE "done")
    /\ todo' = [todo EXCEPT ![c] = parts]
    /\ readParts' = [readParts EXCEPT ![c] = parts]
    /\ owed' = [owed EXCEPT ![c] = acked]
    /\ UNCHANGED <<session, files, object, readReceived, verdict, acked, met, overshot,
                   faults>>

\* Parts are read in order; one that is missing, or fails to be read (Fail),
\* answers 400, with the session as it was.
Assemble(c) ==
    LET i == First(todo[c]) IN
    /\ pc[c] = "assemble"
    /\ IF i \in files
         THEN /\ todo' = [todo EXCEPT ![c] = @ \ {i}]
              /\ Goto(c, IF todo[c] = {i} THEN "upload" ELSE "assemble")
         ELSE Goto(c, "done") /\ UNCHANGED todo
    /\ UNCHANGED <<session, files, object, readParts, readReceived, verdict, history, faults>>

\* upload: refused (quota, type, an object there), or its bytes are written.
Upload(c) ==
    /\ pc[c] = "upload"
    /\ \/ /\ object' = readParts[c]
          /\ Goto(c, "stored")
          /\ UNCHANGED <<todo, verdict>>
       \/ /\ Goto(c, "clean")
          /\ todo' = [todo EXCEPT ![c] = readParts[c]]
          /\ verdict' = [verdict EXCEPT ![c] = "aborted"]
          /\ UNCHANGED object
    /\ UNCHANGED <<session, files, readParts, readReceived, history, faults>>

\* Mutation: an upload that is refused late leaves the verdict of a good one.
SettleUploadUnchecked(c) ==
    /\ pc[c] = "stored"
    /\ Goto(c, "clean")
    /\ todo' = [todo EXCEPT ![c] = readParts[c]]
    /\ verdict' = [verdict EXCEPT ![c] = "completed"]
    /\ object' \in {object, None}
    /\ UNCHANGED <<session, files, readParts, readReceived, history, faults>>

\* Then its row is written, or the write fails; or the bytes are over the quota
\* and are deleted, whoever's they are by now.
SettleUpload(c) ==
    /\ pc[c] = "stored"
    /\ Goto(c, "clean")
    /\ todo' = [todo EXCEPT ![c] = readParts[c]]
    /\ \/ /\ verdict' = [verdict EXCEPT ![c] = "completed"]
          /\ UNCHANGED <<object, overshot>>
       \/ /\ verdict' = [verdict EXCEPT ![c] = "aborted"]
          /\ \/ UNCHANGED <<object, overshot>>
             \/ object' = None /\ overshot' = overshot \cup {c}
    /\ UNCHANGED <<session, files, readParts, readReceived, acked, owed, met, faults>>

-----------------------------------------------------------------------------
(* DELETE aborts, whatever the session's status; what ends a session.      *)

OpenAbort(a) ==
    /\ pc[a] = "idle"
    /\ Goto(a, IF parts = {} THEN "finish" ELSE "clean")
    /\ todo' = [todo EXCEPT ![a] = parts]
    /\ verdict' = [verdict EXCEPT ![a] = "aborted"]
    /\ UNCHANGED <<session, files, object, readParts, readReceived, history, faults>>

\* The part objects go one by one, in order; a failed delete is ignored.
Clean(r) ==
    LET i == First(todo[r]) IN
    /\ pc[r] = "clean"
    /\ files' \in {files, files \ {i}}
    /\ todo' = [todo EXCEPT ![r] = @ \ {i}]
    /\ Goto(r, IF todo[r] = {i} THEN "finish" ELSE "clean")
    /\ UNCHANGED <<session, object, readParts, readReceived, verdict, history, faults>>

\* finishUploadSession writes the status by id.
Finish(r) ==
    /\ pc[r] = "finish"
    /\ Goto(r, "done")
    /\ status' = verdict[r]
    /\ UNCHANGED <<expired, parts, received, files, object, todo, readParts, readReceived,
                   verdict, history, faults>>

\* A call of the provider or the database throws: the request ends there.
Fail(r) ==
    /\ pc[r] \in {"put", "read", "record", "assemble"}
    /\ Goto(r, "done")
    /\ UNCHANGED <<session, files, object, todo, readParts, readReceived, verdict, history, faults>>

\* ... but the write that completes a session throws into the catch of a failed
\* upload, which cleans again and aborts.
FinishFails(r) ==
    /\ pc[r] = "finish"
    /\ faults < MaxFaults
    /\ faults' = faults + 1
    /\ IF verdict[r] = "completed"
         THEN /\ Goto(r, "clean")
              /\ todo' = [todo EXCEPT ![r] = readParts[r]]
              /\ verdict' = [verdict EXCEPT ![r] = "aborted"]
         ELSE Goto(r, "done") /\ UNCHANGED <<todo, verdict>>
    /\ UNCHANGED <<session, files, object, readParts, readReceived, history>>

Expire ==
    /\ ~expired
    /\ expired' = TRUE
    /\ UNCHANGED <<status, parts, received, files, object, request, history, faults>>

Crash ==
    /\ faults < MaxFaults
    /\ faults' = faults + 1
    /\ pc' = [r \in Requests |-> IF pc[r] = "idle" THEN "idle" ELSE "done"]
    /\ UNCHANGED <<session, files, object, todo, readParts, readReceived, verdict, history>>

-----------------------------------------------------------------------------
Next ==
    \/ \E q \in Puts : OpenPart(q) \/ PutPart(q) \/ ReadForPart(q) \/ RecordPart(q)
    \/ \E c \in Completes : OpenComplete(c) \/ Assemble(c) \/ Upload(c) \/ SettleUpload(c)
    \/ \E a \in Aborts : OpenAbort(a)
    \/ \E r \in Completes \cup Aborts : Clean(r) \/ Finish(r) \/ FinishFails(r)
    \/ \E r \in Requests : Fail(r)
    \/ Expire \/ Crash

Spec == Init /\ [][Next]_vars

-----------------------------------------------------------------------------
(* Properties.                                                             *)

\* docs/storage.md: "gaps -> 400": a stored object has no gap, although parts
\* come, are retried and are cleaned up by others while it is assembled.
ObjectHasNoGap ==
    object # None => object # {} /\ UpTo(object) = object

\* A session that says completed has its object, however completes and aborts
\* of the session overtake each other; only another complete of the session that
\* found itself over the quota, and deleted the bytes both had written, takes it.
CompletedHasObject == status = "completed" => object # None \/ overshot # {}

\* docs/storage.md: parts go "in any order", "never partial objects".  A part
\* that was acknowledged before a complete began and is not in the object was
\* put by a request that another one overlapped between its read and its write;
\* parts sent one after the other are all kept.
AckedPartsAreKept ==
    \A c \in Completes :
        verdict[c] = "completed" => owed[c] \subseteq readParts[c] \cup {Index[p] : p \in met}

\* Until something ends it, a live session has every part it reports, whatever
\* completes that fail and parts that are retried meanwhile do.  (An API that
\* dies between cleaning and finishing, or fails to finish, leaves one that has not.)
ReportedPartsExist ==
    faults = 0 /\ status = "active" /\ (\A r \in Requests : pc[r] \notin {"clean", "finish"})
        => parts \subseteq files

\* What the session says it has received are its parts, also when concurrent
\* parts overwrite each other; only a part sent again is counted again.
ReceivedAreTheParts ==
    received # Cardinality(parts) =>
        \E p, q \in Puts : p # q /\ Index[p] = Index[q] /\ pc[p] = "done" /\ pc[q] = "done"
=============================================================================
