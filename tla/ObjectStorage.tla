--------------------------- MODULE ObjectStorage ---------------------------
(***************************************************************************)
(* The objects of one bucket of packages/storage: an object is a row of    *)
(* the metadata store and bytes at the provider, and no transaction spans  *)
(* the two.  Each awaited call is one step.                                *)
(*                                                                         *)
(* Content is named by the upload that brought it.  Every path has one     *)
(* storage key.  The signed PUT takes the steps of an upload.              *)
(***************************************************************************)
EXTENDS Naturals, FiniteSets

CONSTANTS
    Uploads, Copies, Moves, Removes,    \* object requests
    Drops,          \* bucket deletions
    From, To,       \* path a request reads or removes, path it writes
    Upsert,         \* uploads with ?upsert=true
    Size,           \* size of each upload
    MaxFileBytes,   \* defaultMaxFileBytes: the provider takes no larger object
    Quota,          \* quotaBytes of the project
    MaxInFlight,    \* bound: requests under way at once
    MaxFaults,      \* bound: restarts of the API and calls that throw
    None

Transfers == Copies \cup Moves
Writers   == Uploads \cup Transfers
Requests  == Writers \cup Removes \cup Drops
Paths     == {To[r] : r \in Writers} \cup {From[r] : r \in Transfers \cup Removes}

ASSUME ConstantsAssumption ==
    /\ IsFiniteSet(Requests)
    /\ Uploads \cap Transfers = {} /\ Copies \cap Moves = {}
    /\ Writers \cap (Removes \cup Drops) = {} /\ Removes \cap Drops = {}
    /\ Upsert \subseteq Uploads
    /\ MaxFileBytes \in Nat /\ \A u \in Uploads : Size[u] \in 0 .. MaxFileBytes
    /\ Quota \in Nat /\ MaxInFlight \in Nat \ {0} /\ MaxFaults \in Nat
    /\ None \notin Writers /\ None \notin [id : Writers, body : Uploads]

VARIABLES
    bucket,     \* "open" or "deleted"
    row,        \* per path: its row, or None
    bytes,      \* per path: the content at its storage key, or None
    pc,
    seen,       \* per request: the source row as read, or None
    used,       \* per request: usage().bytes as read
    prev,       \* per request: id of the row putObject found, or None
    limit,      \* requests that clients have under way at once, in this behaviour
    doubled,    \* history: moves that wrote their copy and did not remove the row
                \* they had read: under way, cut off, or too late
    faults

store == <<bucket, row, bytes>>
request == <<pc, seen, used, prev>>
vars == <<store, request, limit, doubled, faults>>

\* A row is identified by the request that inserted it.
Row == [id : Writers, body : Uploads]

\* The sum of a function of sizes.
Total(sizes) == Cardinality({b \in (DOMAIN sizes) \X (1 .. MaxFileBytes) : b[2] <= sizes[b[1]]})

SizeOf(r) == IF r = None THEN 0 ELSE Size[r.body]
BytesOf(rows) == Total([p \in Paths |-> SizeOf(rows[p])])
Usage == BytesOf(row)
DoubledBytes == Total([m \in Moves |-> IF m \in doubled THEN SizeOf(seen[m]) ELSE 0])

\* What a writer's row describes: of a transfer, what its source row did.
Content(r) == IF r \in Uploads THEN r ELSE seen[r].body

TypeOK ==
    /\ bucket \in {"open", "deleted"}
    /\ row \in [Paths -> Row \cup {None}]
    /\ bytes \in [Paths -> Uploads \cup {None}]
    /\ pc \in [Requests -> {"idle", "dest", "usage", "put", "undo", "copy", "select", "write",
                            "unlink", "forget", "drop", "done"}]
    /\ seen \in [Requests -> Row \cup {None}]
    /\ used \in [Requests -> Nat]
    /\ prev \in [Requests -> Writers \cup {None}]
    /\ limit \in 1 .. MaxInFlight
    /\ doubled \subseteq Moves
    /\ faults \in 0 .. MaxFaults

Init ==
    /\ bucket = "open"
    /\ row = [p \in Paths |-> None]
    /\ bytes = [p \in Paths |-> None]
    /\ pc = [r \in Requests |-> "idle"]
    /\ seen = [r \in Requests |-> None]
    /\ used = [r \in Requests |-> 0]
    /\ prev = [r \in Requests |-> None]
    /\ limit \in 1 .. MaxInFlight
    /\ doubled = {}
    /\ faults = 0

Goto(r, label) == pc' = [pc EXCEPT ![r] = label]
InFlight == {r \in Requests : pc[r] \notin {"idle", "done"}}
CanOpen(r) == pc[r] = "idle" /\ Cardinality(InFlight) < limit

-----------------------------------------------------------------------------
(* Upload.                                                                 *)

\* 404 without the bucket, 409 on an object that is there unless ?upsert.
OpenUpload(u) ==
    /\ CanOpen(u)
    /\ Goto(u, IF bucket = "open" /\ (row[To[u]] = None \/ u \in Upsert) THEN "usage" ELSE "done")
    /\ UNCHANGED <<store, seen, used, prev, limit, doubled, faults>>

ReadUsage(u) ==
    /\ u \in Uploads /\ pc[u] = "usage"
    /\ used' = [used EXCEPT ![u] = Usage]
    /\ Goto(u, IF Usage >= Quota THEN "done" ELSE "put")
    /\ UNCHANGED <<store, seen, prev, limit, doubled, faults>>

\* Mutation: the quota is looked at before the write only.
PutUnmeasured(u) ==
    /\ pc[u] = "put"
    /\ bytes' = [bytes EXCEPT ![To[u]] = u]
    /\ Goto(u, "select")
    /\ UNCHANGED <<bucket, row, seen, used, prev, limit, doubled, faults>>

\* putStream replaces what is at the key; then the size is known.
Put(u) ==
    /\ pc[u] = "put"
    /\ bytes' = [bytes EXCEPT ![To[u]] = u]
    /\ Goto(u, IF used[u] + Size[u] > Quota THEN "undo" ELSE "select")
    /\ UNCHANGED <<bucket, row, seen, used, prev, limit, doubled, faults>>

\* Mutation: an overshoot is refused and its bytes stay.
UndoNothing(u) ==
    /\ pc[u] = "undo"
    /\ Goto(u, "done")
    /\ UNCHANGED <<store, seen, used, prev, limit, doubled, faults>>

\* Over quota: the bytes at the key go.
Undo(u) ==
    /\ pc[u] = "undo"
    /\ bytes' = [bytes EXCEPT ![To[u]] = None]
    /\ Goto(u, "done")
    /\ UNCHANGED <<bucket, row, seen, used, prev, limit, doubled, faults>>

-----------------------------------------------------------------------------
(* Copy and move.                                                          *)

OpenTransfer(t) ==
    /\ CanOpen(t)
    /\ seen' = [seen EXCEPT ![t] = row[From[t]]]
    /\ Goto(t, IF bucket = "open" /\ row[From[t]] # None THEN "dest" ELSE "done")
    /\ UNCHANGED <<store, used, prev, limit, doubled, faults>>

CheckDest(t) ==
    /\ pc[t] = "dest"
    /\ Goto(t, IF row[To[t]] # None THEN "done" ELSE IF t \in Copies THEN "usage" ELSE "copy")
    /\ UNCHANGED <<store, seen, used, prev, limit, doubled, faults>>

ReadUsageForCopy(t) ==
    /\ t \in Copies /\ pc[t] = "usage"
    /\ used' = [used EXCEPT ![t] = Usage]
    /\ Goto(t, IF Usage + Size[seen[t].body] > Quota THEN "done" ELSE "copy")
    /\ UNCHANGED <<store, seen, prev, limit, doubled, faults>>

\* Copying a key with no bytes throws.
Copy(t) ==
    /\ pc[t] = "copy"
    /\ IF bytes[From[t]] = None
         THEN Goto(t, "done") /\ UNCHANGED bytes
         ELSE Goto(t, "select") /\ bytes' = [bytes EXCEPT ![To[t]] = bytes[From[t]]]
    /\ UNCHANGED <<bucket, row, seen, used, prev, limit, doubled, faults>>

-----------------------------------------------------------------------------
(* putObject: select by path, then update by id or insert.                 *)

SelectRow(w) ==
    /\ pc[w] = "select"
    /\ prev' = [prev EXCEPT ![w] = IF row[To[w]] = None THEN None ELSE row[To[w]].id]
    /\ Goto(w, "write")
    /\ UNCHANGED <<store, seen, used, limit, doubled, faults>>

\* Mutation: object rows do not refer to their bucket.
WritableAnywhere(w) ==
    LET current == row[To[w]] IN
    IF prev[w] = None THEN current = None ELSE current # None /\ current.id = prev[w]

\* An insert needs its bucket (foreign key) and a free path (unique); an
\* update needs the row it found.
Writable(w) ==
    LET current == row[To[w]] IN
    IF prev[w] = None THEN bucket = "open" /\ current = None
    ELSE current # None /\ current.id = prev[w]

WriteRow(w) ==
    /\ pc[w] = "write"
    /\ IF Writable(w)
         THEN /\ row' = [row EXCEPT ![To[w]] =
                    [id |-> IF prev[w] = None THEN w ELSE prev[w], body |-> Content(w)]]
              /\ Goto(w, IF w \in Moves THEN "unlink" ELSE "done")
              /\ doubled' = doubled \cup ({w} \cap Moves)
         ELSE Goto(w, "done") /\ UNCHANGED <<row, doubled>>
    /\ UNCHANGED <<bucket, bytes, seen, used, prev, limit, faults>>

-----------------------------------------------------------------------------
(* Remove, and the end of a move.                                          *)

OpenRemove(d) ==
    /\ CanOpen(d)
    /\ Goto(d, IF bucket = "open" /\ row[From[d]] # None THEN "unlink" ELSE "done")
    /\ UNCHANGED <<store, seen, used, prev, limit, doubled, faults>>

Unlink(r) ==
    /\ pc[r] = "unlink"
    /\ bytes' = [bytes EXCEPT ![From[r]] = None]
    /\ Goto(r, "forget")
    /\ UNCHANGED <<bucket, row, seen, used, prev, limit, doubled, faults>>

\* Mutation: the row stays.
ForgetNothing(r) ==
    /\ pc[r] = "forget"
    /\ Goto(r, "done")
    /\ UNCHANGED <<store, seen, used, prev, limit, doubled, faults>>

\* deleteObject by path, whichever row is there now.
Forget(r) ==
    /\ pc[r] = "forget"
    /\ row' = [row EXCEPT ![From[r]] = None]
    /\ doubled' = IF row[From[r]] = seen[r] THEN doubled \ {r} ELSE doubled
    /\ Goto(r, "done")
    /\ UNCHANGED <<bucket, bytes, seen, used, prev, limit, faults>>

-----------------------------------------------------------------------------
(* Deleting the bucket, when it has no rows; rows go with it (cascade).    *)

OpenDrop(d) ==
    /\ CanOpen(d)
    /\ Goto(d, IF bucket = "open" /\ (\A p \in Paths : row[p] = None) THEN "drop" ELSE "done")
    /\ UNCHANGED <<store, seen, used, prev, limit, doubled, faults>>

DropBucket(d) ==
    /\ pc[d] = "drop"
    /\ bucket' = "deleted"
    /\ row' = [p \in Paths |-> None]
    /\ Goto(d, "done")
    /\ UNCHANGED <<bytes, seen, used, prev, limit, doubled, faults>>

Crash ==
    /\ faults < MaxFaults
    /\ InFlight # {}
    /\ faults' = faults + 1
    /\ pc' = [r \in Requests |-> IF r \in InFlight THEN "done" ELSE pc[r]]
    /\ UNCHANGED <<store, seen, used, prev, limit, doubled>>

\* A call of the provider or the database throws, and the request ends; the
\* delete of an overshoot throws unseen.
Fail(r) ==
    /\ faults < MaxFaults
    /\ r \in InFlight
    /\ faults' = faults + 1
    /\ Goto(r, "done")
    /\ UNCHANGED <<store, seen, used, prev, limit, doubled>>

-----------------------------------------------------------------------------
Next ==
    \/ \E u \in Uploads : OpenUpload(u) \/ ReadUsage(u) \/ Put(u) \/ Undo(u)
    \/ \E t \in Transfers : OpenTransfer(t) \/ CheckDest(t) \/ ReadUsageForCopy(t) \/ Copy(t)
    \/ \E w \in Writers : SelectRow(w) \/ WriteRow(w)
    \/ \E r \in Moves \cup Removes : Unlink(r) \/ Forget(r)
    \/ \E r \in Removes : OpenRemove(r)
    \/ \E d \in Drops : OpenDrop(d) \/ DropBucket(d)
    \/ (\E r \in Requests : Fail(r)) \/ Crash

Spec == Init /\ [][Next]_vars

-----------------------------------------------------------------------------
(* Properties.                                                             *)

Quiet == InFlight = {}

\* No request overlapped another or was cut off.
OneAtATime == limit = 1 /\ faults = 0

\* An upload that was let in, replaced the bytes at p and was refused for their size.
Overshot(p) ==
    \E u \in Upsert :
        To[u] = p /\ pc[u] = "done" /\ ~(used[u] >= Quota) /\ used[u] + Size[u] > Quota

\* Requests that do not overlap leave every row with the bytes it describes,
\* through rejected, overwriting and moved objects: "delete removes bytes AND
\* metadata" (docs/storage.md).  What loses its bytes and keeps its row is the
\* object that an upsert over quota was to replace.
RowsDescribeBytes ==
    Quiet /\ OneAtATime =>
        \A p \in Paths : row[p] # None => bytes[p] = row[p].body \/ Overshot(p)

\* The other direction, after "overshoot rolls back the bytes" (docs/storage.md):
\* a path without a row has no bytes.
NoStrayBytes ==
    Quiet /\ OneAtATime => \A p \in Paths : row[p] = None => bytes[p] = None

\* docs/storage.md, "quota enforced pre- and post-write": the usage is read
\* before a write and the sum compared after it, without a lock, and a move does
\* not look at it at all.  Every request that may be under way with the last one
\* can add one object of the largest size to the quota, and a move the size of
\* the object that it wrote again and did not remove; apart from those, one
\* request at a time keeps the quota.
OvershootIsBounded ==
    Usage <= Quota + DoubledBytes + (limit - 1) * MaxFileBytes

\* docs/storage.md, "Deletion requires an empty bucket": a bucket that is gone
\* has no objects, even when an upload was between its two statements.
GoneBucketsAreEmpty ==
    bucket = "deleted" => \A p \in Paths : row[p] = None
=============================================================================
