------------------------ MODULE ObjectStorageProofs ------------------------
(***************************************************************************)
(* TLAPS proofs about ObjectStorage, for any requests, paths, sizes and    *)
(* quota.                                                                  *)
(***************************************************************************)
EXTENDS ObjectStorage, FiniteSetTheorems, TLAPS

\* Only an insert makes a row where there was none, and it needs the bucket.
BucketInv == DOMAIN row = Paths /\ GoneBucketsAreEmpty

LEMMA RowStep ==
    ASSUME BucketInv, [Next]_vars
    PROVE  \/ UNCHANGED <<bucket, row>>
           \/ \E w \in Writers : WriteRow(w)
           \/ \E r \in Moves \cup Removes : Forget(r)
           \/ \E d \in Drops : DropBucket(d)
BY DEF Next, vars, store, OpenUpload, ReadUsage, Put, Undo, OpenTransfer, CheckDest,
   ReadUsageForCopy, Copy, SelectRow, Unlink, OpenRemove, OpenDrop, Crash, Fail

LEMMA StepInv == BucketInv /\ [Next]_vars => BucketInv'
<1> SUFFICES ASSUME BucketInv, [Next]_vars PROVE BucketInv'
  OBVIOUS
<1> USE DEF BucketInv, GoneBucketsAreEmpty
<1>1. CASE UNCHANGED <<bucket, row>>
  BY <1>1
<1>2. ASSUME NEW w \in Writers, WriteRow(w) PROVE BucketInv'
  <2>1. bucket = "deleted" => ~Writable(w)
    <3>1. To[w] \in Paths
      BY DEF Paths
    <3> QED
      BY <3>1 DEF Writable
  <2> QED
    BY <1>2, <2>1 DEF WriteRow
<1>3. ASSUME NEW r \in Moves \cup Removes, Forget(r) PROVE BucketInv'
  BY <1>3 DEF Forget
<1>4. ASSUME NEW d \in Drops, DropBucket(d) PROVE BucketInv'
  BY <1>4 DEF DropBucket
<1> QED
  BY <1>1, <1>2, <1>3, <1>4, RowStep

\* A deleted bucket has no object rows, whatever uploads, copies and moves were
\* between their statements when it went.
THEOREM DeletedBucketsAreEmpty == Spec => []GoneBucketsAreEmpty
<1>1. Init => BucketInv
  BY DEF Init, BucketInv, GoneBucketsAreEmpty
<1>2. BucketInv => GoneBucketsAreEmpty
  BY DEF BucketInv
<1> QED
  BY <1>1, <1>2, StepInv, PTL DEF Spec

-----------------------------------------------------------------------------
(* Sums of sizes.                                                          *)

Sizes(S) == [S -> 0 .. MaxFileBytes]

LEMMA TotalBasics ==
  ASSUME NEW S, IsFiniteSet(S), NEW w \in Sizes(S)
  PROVE  /\ IsFiniteSet({b \in (DOMAIN w) \X (1 .. MaxFileBytes) : b[2] <= w[b[1]]})
         /\ Total(w) \in Nat
<1>1. IsFiniteSet(S \X (1 .. MaxFileBytes))
  <2>1. IsFiniteSet(1 .. MaxFileBytes)
    BY ConstantsAssumption, FS_Interval
  <2> QED
    BY <2>1, FS_Product
<1>2. DOMAIN w = S
  BY DEF Sizes
<1>3. IsFiniteSet({b \in (DOMAIN w) \X (1 .. MaxFileBytes) : b[2] <= w[b[1]]})
  BY <1>1, <1>2, FS_Subset
<1> QED
  BY <1>3, FS_CardinalityType DEF Total

\* A sum of smaller sizes is no larger.
LEMMA TotalMonotone ==
  ASSUME NEW S, IsFiniteSet(S), NEW w \in Sizes(S), NEW v \in Sizes(S),
         \A x \in S : v[x] <= w[x]
  PROVE  Total(v) <= Total(w)
<1> DEFINE V == {b \in (DOMAIN v) \X (1 .. MaxFileBytes) : b[2] <= v[b[1]]}
           W == {b \in (DOMAIN w) \X (1 .. MaxFileBytes) : b[2] <= w[b[1]]}
<1>1. V \in SUBSET W
  <2> SUFFICES ASSUME NEW b \in V PROVE b \in W
    OBVIOUS
  <2>1. b[1] \in S /\ b[2] \in 1 .. MaxFileBytes /\ b \in S \X (1 .. MaxFileBytes)
    BY DEF Sizes
  <2>2. v[b[1]] \in Nat /\ w[b[1]] \in Nat /\ v[b[1]] <= w[b[1]] /\ b[2] <= v[b[1]]
    BY <2>1 DEF Sizes
  <2>3. b[2] <= w[b[1]]
    BY <2>1, <2>2
  <2> QED
    BY <2>1, <2>3 DEF Sizes
<1>2. IsFiniteSet(W)
  BY TotalBasics
<1>3. Cardinality(V) <= Cardinality(W)
  BY <1>1, <1>2, FS_Subset
<1> QED
  BY <1>3 DEF Total

\* The bytes of one key.
LEMMA OneKey ==
  ASSUME NEW k, NEW n \in 0 .. MaxFileBytes
  PROVE  IsFiniteSet({k} \X (1 .. n)) /\ Cardinality({k} \X (1 .. n)) = n
<1>1. IsFiniteSet(1 .. n) /\ Cardinality(1 .. n) = n
  BY FS_Interval
<1>2. IsFiniteSet({k}) /\ Cardinality({k}) = 1
  BY FS_Singleton
<1>3. Cardinality({k} \X (1 .. n)) = 1 * n
  BY <1>1, <1>2, FS_Product
<1> QED
  BY <1>1, <1>2, <1>3, FS_Product

\* The sum is that of the other keys and the size of this one.
LEMMA TotalSplit ==
  ASSUME NEW S, IsFiniteSet(S), NEW w \in Sizes(S), NEW k \in S
  PROVE  LET Others == {b \in S \X (1 .. MaxFileBytes) : b[2] <= w[b[1]] /\ b[1] # k}
         IN  IsFiniteSet(Others) /\ Total(w) = Cardinality(Others) + w[k]
<1> DEFINE W == {b \in (DOMAIN w) \X (1 .. MaxFileBytes) : b[2] <= w[b[1]]}
           Others == {b \in S \X (1 .. MaxFileBytes) : b[2] <= w[b[1]] /\ b[1] # k}
           Mine == {k} \X (1 .. w[k])
<1>1. w[k] \in 0 .. MaxFileBytes /\ DOMAIN w = S
  BY DEF Sizes
<1>2. IsFiniteSet(Others)
  <2>1. IsFiniteSet(W)
    BY TotalBasics
  <2> QED
    BY <1>1, <2>1, FS_Subset
<1>3. IsFiniteSet(Mine) /\ Cardinality(Mine) = w[k]
  BY <1>1, OneKey
<1>4. W = Others \cup Mine
  <2>1. \A b \in W : b \in Others \cup Mine
    BY <1>1, ConstantsAssumption
  <2>2. \A b \in Mine : b \in W
    BY <1>1, ConstantsAssumption
  <2> QED
    BY <1>1, <2>1, <2>2
<1>5. Cardinality(Others \cap Mine) = 0
  <2>1. Others \cap Mine = {}
    OBVIOUS
  <2> QED
    BY <2>1, FS_EmptySet
<1>6. Cardinality(W) = Cardinality(Others) + Cardinality(Mine) - Cardinality(Others \cap Mine)
  BY <1>2, <1>3, <1>4, FS_Union
<1>7. Cardinality(Others) \in Nat /\ w[k] \in Nat
  BY <1>1, <1>2, FS_CardinalityType
<1>8. Total(w) = Cardinality(W)
  BY DEF Total
<1>9. Total(w) = Cardinality(Others) + w[k]
  <2> HIDE DEF W, Others, Mine
  <2> QED
    BY <1>3, <1>5, <1>6, <1>7, <1>8
<1> QED
  BY <1>2, <1>9

\* Changing one size changes the sum by the difference.
LEMMA TotalChange ==
  ASSUME NEW S, IsFiniteSet(S), NEW w \in Sizes(S), NEW v \in Sizes(S), NEW k \in S,
         \A x \in S \ {k} : v[x] = w[x]
  PROVE  Total(v) + w[k] = Total(w) + v[k]
<1> DEFINE Others(f) == {b \in S \X (1 .. MaxFileBytes) : b[2] <= f[b[1]] /\ b[1] # k}
<1>1. Others(v) = Others(w)
  OBVIOUS
<1>2. IsFiniteSet(Others(w)) /\ Total(w) = Cardinality(Others(w)) + w[k]
  BY TotalSplit
<1>3. Total(v) = Cardinality(Others(v)) + v[k]
  BY TotalSplit
<1>4. Cardinality(Others(w)) \in Nat
  BY <1>2, FS_CardinalityType
<1>5. w[k] \in Nat /\ v[k] \in Nat
  BY DEF Sizes
<1> HIDE DEF Others
<1> QED
  BY <1>1, <1>2, <1>3, <1>4, <1>5

LEMMA FinitePaths == IsFiniteSet(Paths)
<1> USE ConstantsAssumption DEF Requests, Writers
<1> DEFINE Read == Transfers \cup Removes
           To1 == [r \in Writers |-> To[r]]
           From1 == [r \in Read |-> From[r]]
<1>1. IsFiniteSet(Writers) /\ IsFiniteSet(Read)
  BY FS_Subset
<1>2. To1 \in Surjection(Writers, {To[r] : r \in Writers})
  BY DEF Surjection
<1>3. From1 \in Surjection(Read, {From[r] : r \in Read})
  BY DEF Surjection
<1>4. IsFiniteSet({To[r] : r \in Writers}) /\ IsFiniteSet({From[r] : r \in Read})
  BY <1>1, <1>2, <1>3, FS_Surjection
<1>5. IsFiniteSet({To[r] : r \in Writers} \cup {From[r] : r \in Read})
  BY <1>4, FS_Union
<1> QED
  BY <1>5 DEF Paths

-----------------------------------------------------------------------------
(* Requests that do not overlap: rows and bytes describe each other.       *)

\* The types, and that a transfer under way has read its source.
Shape ==
    /\ bucket \in {"open", "deleted"}
    /\ row \in [Paths -> Row \cup {None}]
    /\ bytes \in [Paths -> Uploads \cup {None}]
    /\ pc \in [Requests -> {"idle", "dest", "usage", "put", "undo", "copy", "select", "write",
                            "unlink", "forget", "drop", "done"}]
    /\ seen \in [Requests -> Row \cup {None}]
    /\ used \in [Requests -> Nat]
    /\ prev \in [Requests -> Writers \cup {None}]
    /\ \A t \in Transfers : pc[t] \notin {"idle", "done"} => seen[t] # None
    /\ limit \in 1 .. MaxInFlight
    /\ doubled \subseteq Moves
    /\ faults \in 0 .. MaxFaults

Described(p) ==
    IF row[p] = None THEN bytes[p] = None
    ELSE bytes[p] = row[p].body \/ (bytes[p] = None /\ Overshot(p))

\* r has written the bytes of p and not its row yet, or removed them.
Touching(r, p) ==
    \/ r \in Writers /\ pc[r] \in {"undo", "select", "write"} /\ p = To[r]
    \/ r \in Moves \cup Removes /\ pc[r] = "forget" /\ p = From[r]

\* What an upload under way relies on.
UploadMid(u) ==
    /\ pc[u] \in {"usage", "put", "undo", "select", "write"}
    /\ row[To[u]] = None \/ u \in Upsert
    /\ pc[u] \in {"put", "undo"} => ~(used[u] >= Quota)
    /\ pc[u] = "undo" => used[u] + Size[u] > Quota
    /\ pc[u] \in {"undo", "select", "write"} => bytes[To[u]] = u

\* What a copy or a move under way relies on.
TransferMid(t) ==
    /\ pc[t] \in {"dest", "usage", "copy", "select", "write", "unlink", "forget"}
    /\ pc[t] \in {"dest", "usage", "copy"} => row[From[t]] # None /\ seen[t] = row[From[t]]
    /\ pc[t] \in {"usage", "copy", "select", "write"} => row[To[t]] = None
    /\ pc[t] \in {"select", "write"} => seen[t] # None /\ bytes[To[t]] = seen[t].body

Mid(r) ==
    /\ bucket = "open"
    /\ r \in Uploads => UploadMid(r)
    /\ r \in Transfers => TransferMid(r)
    /\ r \in Writers /\ pc[r] = "write" =>
         prev[r] = IF row[To[r]] = None THEN None ELSE row[To[r]].id
    /\ r \in Moves \cup Removes /\ pc[r] = "forget" => bytes[From[r]] = None
    /\ r \in Drops => pc[r] = "drop" /\ \A p \in Paths : row[p] = None
    /\ r \in Removes => pc[r] \in {"unlink", "forget"}

\* One request at a time is under way, and what it has not touched is described.
SeqInv ==
    OneAtATime =>
        /\ \A r, s \in InFlight : r = s
        /\ \A r \in InFlight : Mid(r)
        /\ \A p \in Paths : Described(p) \/ \E r \in InFlight : Touching(r, p)

LEMMA PathOf ==
  /\ \A w \in Writers : To[w] \in Paths
  /\ \A r \in Transfers \cup Removes : From[r] \in Paths
BY DEF Paths

LEMMA RowSizes ==
  ASSUME NEW rows \in [Paths -> Row \cup {None}]
  PROVE  [p \in Paths |-> SizeOf(rows[p])] \in Sizes(Paths) /\ BytesOf(rows) \in Nat
<1>1. [p \in Paths |-> SizeOf(rows[p])] \in Sizes(Paths)
  BY ConstantsAssumption DEF Row, SizeOf, Sizes
<1> QED
  BY <1>1, FinitePaths, TotalBasics DEF BytesOf

LEMMA ShapeStep == Shape /\ [Next]_vars => Shape'
<1> USE ConstantsAssumption, PathOf
<1> SUFFICES ASSUME Shape, [Next]_vars PROVE Shape'
  OBVIOUS
<1> USE DEF Shape, Goto, store, request, Requests, Writers, Transfers, Row
<1>0. Usage \in Nat
  BY RowSizes DEF Usage
<1>1. ASSUME NEW u \in Uploads, OpenUpload(u) \/ ReadUsage(u) \/ Put(u) \/ Undo(u) PROVE Shape'
  BY <1>0, <1>1 DEF OpenUpload, ReadUsage, Put, Undo
<1>2. ASSUME NEW t \in Transfers,
             OpenTransfer(t) \/ CheckDest(t) \/ ReadUsageForCopy(t) \/ Copy(t)
      PROVE  Shape'
  BY <1>0, <1>2 DEF OpenTransfer, CheckDest, ReadUsageForCopy, Copy
<1>3. ASSUME NEW w \in Writers, SelectRow(w) PROVE Shape'
  BY <1>3 DEF SelectRow
<1>4. ASSUME NEW w \in Writers, WriteRow(w) PROVE Shape'
  <2>1. Content(w) \in Uploads
    BY <1>4 DEF WriteRow, Content
  <2>2. [id |-> IF prev[w] = None THEN w ELSE prev[w], body |-> Content(w)] \in Row
    BY <2>1
  <2> QED
    BY <1>4, <2>2 DEF WriteRow
<1>5. ASSUME NEW r \in Moves \cup Removes, Unlink(r) \/ Forget(r) PROVE Shape'
  BY <1>5 DEF Unlink, Forget
<1>6. ASSUME NEW r \in Removes, OpenRemove(r) PROVE Shape'
  BY <1>6 DEF OpenRemove
<1>7. ASSUME NEW d \in Drops, OpenDrop(d) \/ DropBucket(d) PROVE Shape'
  BY <1>7 DEF OpenDrop, DropBucket
<1>8. ASSUME NEW r \in Requests, Fail(r) PROVE Shape'
  BY <1>8 DEF Fail
<1>9. CASE Crash
  BY <1>9 DEF Crash
<1>10. CASE UNCHANGED vars
  BY <1>10 DEF vars
<1> QED
  BY <1>1, <1>2, <1>3, <1>4, <1>5, <1>6, <1>7, <1>8, <1>9, <1>10 DEF Next

\* The step of a request that is alone: what it may rely on.
LEMMA Solo ==
  ASSUME Shape, SeqInv, OneAtATime', UNCHANGED <<limit, faults>>,
         NEW r \in Requests, CanOpen(r) \/ r \in InFlight,
         NEW label, label # "idle", Goto(r, label),
         \A s \in Requests \ {r} : used'[s] = used[s]
  PROVE  /\ InFlight' = IF label = "done" THEN {} ELSE {r}
         /\ pc'[r] = label
         /\ CanOpen(r) => \A p \in Paths : Described(p)
         /\ r \in InFlight => Mid(r) /\ (\A p \in Paths : Described(p) \/ Touching(r, p))
         /\ \A p \in Paths : Overshot(p) => Overshot(p)'
<1> USE ConstantsAssumption DEF Goto
<1>1. OneAtATime
  BY DEF OneAtATime
<1>2. CanOpen(r) => InFlight = {}
  <2>1. IsFiniteSet(InFlight)
    BY FS_Subset DEF InFlight
  <2>2. CanOpen(r) => Cardinality(InFlight) < 1
    BY <1>1 DEF CanOpen, OneAtATime
  <2> QED
    BY <2>1, <2>2, FS_CardinalityType, FS_EmptySet
<1>3. \A s \in Requests \ {r} : s \notin InFlight /\ pc'[s] = pc[s]
  BY <1>1, <1>2 DEF SeqInv, Shape
<1>4. pc'[r] = label /\ pc[r] # "done"
  BY DEF Shape, CanOpen, InFlight
<1>5. InFlight' = IF label = "done" THEN {} ELSE {r}
  BY <1>3, <1>4 DEF InFlight
<1>6. CanOpen(r) => \A p \in Paths : Described(p)
  BY <1>1, <1>2 DEF SeqInv
<1>7. r \in InFlight => Mid(r) /\ \A p \in Paths : Described(p) \/ Touching(r, p)
  BY <1>1, <1>3 DEF SeqInv, InFlight
<1>8. \A p \in Paths : Overshot(p) => Overshot(p)'
  <2> SUFFICES ASSUME NEW p \in Paths, NEW u \in Upsert, To[u] = p, pc[u] = "done",
                      ~(used[u] >= Quota), used[u] + Size[u] > Quota
               PROVE  Overshot(p)'
    BY DEF Overshot
  <2>1. u \in Requests \ {r}
    BY <1>4 DEF Requests, Writers
  <2>2. pc'[u] = "done" /\ used'[u] = used[u]
    BY <1>3, <2>1
  <2> QED
    BY <2>2 DEF Overshot
<1> QED
  BY <1>4, <1>5, <1>6, <1>7, <1>8

\* And what it has to leave behind.
LEMMA SoloEnd ==
  ASSUME NEW r \in Requests, NEW label,
         InFlight' = IF label = "done" THEN {} ELSE {r},
         label # "done" => Mid(r)',
         \A p \in Paths : Described(p)' \/ (label # "done" /\ Touching(r, p)')
  PROVE  SeqInv'
BY DEF SeqInv

LEMMA OpenUploadStep ==
  ASSUME Shape, SeqInv, OneAtATime', NEW u \in Uploads, OpenUpload(u)
  PROVE  SeqInv'
<1> USE ConstantsAssumption, PathOf DEF Requests, Writers, Transfers, Shape
<1>1. PICK label \in {"usage", "done"} :
         /\ Goto(u, label)
         /\ label # "done" => bucket = "open" /\ (row[To[u]] = None \/ u \in Upsert)
  BY DEF OpenUpload
<1>2. UNCHANGED <<store, seen, used, prev, limit, faults>> /\ CanOpen(u)
  BY DEF OpenUpload, InFlight
<1>3. /\ InFlight' = IF label = "done" THEN {} ELSE {u}
      /\ pc'[u] = label
      /\ \A p \in Paths : Described(p)
      /\ \A p \in Paths : Overshot(p) => Overshot(p)'
  BY <1>1, <1>2, Solo
<1>4. \A p \in Paths : Described(p)' \/ (label # "done" /\ Touching(u, p)')
  BY <1>2, <1>3 DEF Described, store
<1>5. label # "done" => Mid(u)'
  BY <1>1, <1>2, <1>3 DEF Mid, UploadMid, store
<1>6. u \in Requests
  OBVIOUS
<1> QED
  BY <1>3, <1>4, <1>5, <1>6, SoloEnd

LEMMA ReadUsageStep ==
  ASSUME Shape, SeqInv, OneAtATime', NEW u \in Uploads, ReadUsage(u)
  PROVE  SeqInv'
<1> USE ConstantsAssumption, PathOf DEF Requests, Writers, Transfers, Shape
<1>1. PICK label \in {"put", "done"} :
         /\ Goto(u, label)
         /\ pc[u] = "usage" /\ used' = [used EXCEPT ![u] = Usage]
         /\ label = "put" => ~(Usage >= Quota)
  BY DEF ReadUsage
<1>2. UNCHANGED <<store, seen, prev, limit, faults>> /\ u \in InFlight
  BY DEF ReadUsage, InFlight
<1>3. /\ InFlight' = IF label = "done" THEN {} ELSE {u}
      /\ pc'[u] = label
      /\ Mid(u)
      /\ \A p \in Paths : Described(p) \/ Touching(u, p)
      /\ \A p \in Paths : Overshot(p) => Overshot(p)'
  BY <1>1, <1>2, Solo
<1>4. \A p \in Paths : Described(p)' \/ (label # "done" /\ Touching(u, p)')
  BY <1>1, <1>2, <1>3 DEF Described, Touching, store
<1>5. label # "done" => Mid(u)'
  BY <1>1, <1>2, <1>3 DEF Mid, UploadMid, store
<1>6. u \in Requests
  OBVIOUS
<1> QED
  BY <1>3, <1>4, <1>5, <1>6, SoloEnd

LEMMA PutStep ==
  ASSUME Shape, SeqInv, OneAtATime', NEW u \in Uploads, Put(u)
  PROVE  SeqInv'
<1> USE ConstantsAssumption, PathOf DEF Requests, Writers, Transfers, Shape
<1>1. PICK label \in {"undo", "select"} :
         /\ Goto(u, label)
         /\ pc[u] = "put" /\ bytes' = [bytes EXCEPT ![To[u]] = u]
         /\ label = "undo" => used[u] + Size[u] > Quota
  BY DEF Put
<1>2. UNCHANGED <<bucket, row, seen, used, prev, limit, faults>> /\ u \in InFlight
  BY DEF Put, InFlight
<1>3. /\ InFlight' = IF label = "done" THEN {} ELSE {u}
      /\ pc'[u] = label
      /\ Mid(u)
      /\ \A p \in Paths : Described(p) \/ Touching(u, p)
      /\ \A p \in Paths : Overshot(p) => Overshot(p)'
  BY <1>1, <1>2, Solo
<1>4. \A p \in Paths : Described(p)' \/ (label # "done" /\ Touching(u, p)')
  BY <1>1, <1>2, <1>3 DEF Described, Touching
<1>5. label # "done" => Mid(u)'
  BY <1>1, <1>2, <1>3 DEF Mid, UploadMid
<1>6. u \in Requests
  OBVIOUS
<1> QED
  BY <1>3, <1>4, <1>5, <1>6, SoloEnd

LEMMA UndoStep ==
  ASSUME Shape, SeqInv, OneAtATime', NEW u \in Uploads, Undo(u)
  PROVE  SeqInv'
<1> USE ConstantsAssumption, PathOf DEF Requests, Writers, Transfers, Shape
<1>1. PICK label \in {"done"} :
         /\ Goto(u, label)
         /\ pc[u] = "undo" /\ bytes' = [bytes EXCEPT ![To[u]] = None]
  BY DEF Undo
<1>2. UNCHANGED <<bucket, row, seen, used, prev, limit, faults>> /\ u \in InFlight
  BY DEF Undo, InFlight
<1>3. /\ InFlight' = IF label = "done" THEN {} ELSE {u}
      /\ pc'[u] = label
      /\ Mid(u)
      /\ \A p \in Paths : Described(p) \/ Touching(u, p)
      /\ \A p \in Paths : Overshot(p) => Overshot(p)'
  BY <1>1, <1>2, Solo
<1>4. \A p \in Paths : Described(p)' \/ (label # "done" /\ Touching(u, p)')
  BY <1>1, <1>2, <1>3 DEF Described, Touching, Mid, UploadMid, Overshot
<1>5. label # "done" => Mid(u)'
  BY <1>1
<1>6. u \in Requests
  OBVIOUS
<1> QED
  BY <1>3, <1>4, <1>5, <1>6, SoloEnd

LEMMA OpenTransferStep ==
  ASSUME Shape, SeqInv, OneAtATime', NEW t \in Transfers, OpenTransfer(t)
  PROVE  SeqInv'
<1> USE ConstantsAssumption, PathOf DEF Requests, Writers, Transfers, Shape
<1>1. PICK label \in {"dest", "done"} :
         /\ Goto(t, label)
         /\ seen' = [seen EXCEPT ![t] = row[From[t]]]
         /\ label # "done" => bucket = "open" /\ row[From[t]] # None
  BY DEF OpenTransfer
<1>2. UNCHANGED <<store, used, prev, limit, faults>> /\ CanOpen(t)
  BY DEF OpenTransfer, InFlight
<1>3. /\ InFlight' = IF label = "done" THEN {} ELSE {t}
      /\ pc'[t] = label
      /\ \A p \in Paths : Described(p)
      /\ \A p \in Paths : Overshot(p) => Overshot(p)'
  BY <1>1, <1>2, Solo
<1>4. \A p \in Paths : Described(p)' \/ (label # "done" /\ Touching(t, p)')
  BY <1>2, <1>3 DEF Described, store
<1>5. label # "done" => Mid(t)'
  BY <1>1, <1>2, <1>3 DEF Mid, TransferMid, store
<1>6. t \in Requests
  OBVIOUS
<1> QED
  BY <1>3, <1>4, <1>5, <1>6, SoloEnd

LEMMA CheckDestStep ==
  ASSUME Shape, SeqInv, OneAtATime', NEW t \in Transfers, CheckDest(t)
  PROVE  SeqInv'
<1> USE ConstantsAssumption, PathOf DEF Requests, Writers, Transfers, Shape
<1>1. PICK label \in {"usage", "copy", "done"} :
         /\ Goto(t, label)
         /\ pc[t] = "dest"
         /\ label # "done" => row[To[t]] = None
  BY DEF CheckDest
<1>2. UNCHANGED <<store, seen, used, prev, limit, faults>> /\ t \in InFlight
  BY DEF CheckDest, InFlight
<1>3. /\ InFlight' = IF label = "done" THEN {} ELSE {t}
      /\ pc'[t] = label
      /\ Mid(t)
      /\ \A p \in Paths : Described(p) \/ Touching(t, p)
      /\ \A p \in Paths : Overshot(p) => Overshot(p)'
  BY <1>1, <1>2, Solo
<1>4. \A p \in Paths : Described(p)' \/ (label # "done" /\ Touching(t, p)')
  BY <1>1, <1>2, <1>3 DEF Described, Touching, store
<1>5. label # "done" => Mid(t)'
  BY <1>1, <1>2, <1>3 DEF Mid, TransferMid, store
<1>6. t \in Requests
  OBVIOUS
<1> QED
  BY <1>3, <1>4, <1>5, <1>6, SoloEnd

LEMMA ReadUsageForCopyStep ==
  ASSUME Shape, SeqInv, OneAtATime', NEW t \in Transfers, ReadUsageForCopy(t)
  PROVE  SeqInv'
<1> USE ConstantsAssumption, PathOf DEF Requests, Writers, Transfers, Shape
<1>1. PICK label \in {"copy", "done"} :
         /\ Goto(t, label)
         /\ pc[t] = "usage" /\ used' = [used EXCEPT ![t] = Usage]
  BY DEF ReadUsageForCopy
<1>2. UNCHANGED <<store, seen, prev, limit, faults>> /\ t \in InFlight
  BY DEF ReadUsageForCopy, InFlight
<1>3. /\ InFlight' = IF label = "done" THEN {} ELSE {t}
      /\ pc'[t] = label
      /\ Mid(t)
      /\ \A p \in Paths : Described(p) \/ Touching(t, p)
      /\ \A p \in Paths : Overshot(p) => Overshot(p)'
  BY <1>1, <1>2, Solo
<1>4. \A p \in Paths : Described(p)' \/ (label # "done" /\ Touching(t, p)')
  BY <1>1, <1>2, <1>3 DEF Described, Touching, store
<1>5. label # "done" => Mid(t)'
  BY <1>1, <1>2, <1>3 DEF Mid, TransferMid, store
<1>6. t \in Requests
  OBVIOUS
<1> QED
  BY <1>3, <1>4, <1>5, <1>6, SoloEnd

LEMMA CopyStep ==
  ASSUME Shape, SeqInv, OneAtATime', NEW t \in Transfers, Copy(t)
  PROVE  SeqInv'
<1> USE ConstantsAssumption, PathOf DEF Requests, Writers, Transfers, Shape
<1>1. PICK label \in {"select", "done"} :
         /\ Goto(t, label)
         /\ pc[t] = "copy"
         /\ label = "select" => /\ bytes[From[t]] # None
                                /\ bytes' = [bytes EXCEPT ![To[t]] = bytes[From[t]]]
         /\ label = "done" => UNCHANGED bytes
  BY DEF Copy
<1>2. UNCHANGED <<bucket, row, seen, used, prev, limit, faults>> /\ t \in InFlight
  BY DEF Copy, InFlight
<1>3. /\ InFlight' = IF label = "done" THEN {} ELSE {t}
      /\ pc'[t] = label
      /\ Mid(t)
      /\ \A p \in Paths : Described(p) \/ Touching(t, p)
      /\ \A p \in Paths : Overshot(p) => Overshot(p)'
  BY <1>1, <1>2, Solo
<1>4. \A p \in Paths : Described(p)' \/ (label # "done" /\ Touching(t, p)')
  BY <1>1, <1>2, <1>3 DEF Described, Touching
<1>5. label # "done" => Mid(t)'
  BY <1>1, <1>2, <1>3 DEF Mid, TransferMid, Described, Touching
<1>6. t \in Requests
  OBVIOUS
<1> QED
  BY <1>3, <1>4, <1>5, <1>6, SoloEnd

LEMMA SelectRowStep ==
  ASSUME Shape, SeqInv, OneAtATime', NEW w \in Writers, SelectRow(w)
  PROVE  SeqInv'
<1> USE ConstantsAssumption, PathOf DEF Requests, Writers, Transfers, Shape
<1>1. PICK label \in {"write"} :
         /\ Goto(w, label)
         /\ pc[w] = "select"
         /\ prev' = [prev EXCEPT ![w] = IF row[To[w]] = None THEN None ELSE row[To[w]].id]
  BY DEF SelectRow
<1>2. UNCHANGED <<store, seen, used, limit, faults>> /\ w \in InFlight
  BY DEF SelectRow, InFlight
<1>3. /\ InFlight' = IF label = "done" THEN {} ELSE {w}
      /\ pc'[w] = label
      /\ Mid(w)
      /\ \A p \in Paths : Described(p) \/ Touching(w, p)
      /\ \A p \in Paths : Overshot(p) => Overshot(p)'
  BY <1>1, <1>2, Solo
<1>4. \A p \in Paths : Described(p)' \/ (label # "done" /\ Touching(w, p)')
  BY <1>1, <1>2, <1>3 DEF Described, Touching, store
<1>5. label # "done" => Mid(w)'
  BY <1>1, <1>2, <1>3 DEF Mid, TransferMid, UploadMid, store
<1>6. w \in Requests
  OBVIOUS
<1> QED
  BY <1>3, <1>4, <1>5, <1>6, SoloEnd

\* Nothing has come between the look and the write: the write succeeds.
LEMMA WriteRowStep ==
  ASSUME Shape, SeqInv, OneAtATime', NEW w \in Writers, WriteRow(w)
  PROVE  SeqInv'
<1> USE ConstantsAssumption, PathOf DEF Requests, Writers, Transfers, Shape
<1>1. PICK label \in {"unlink", "done"} : Goto(w, label) /\ (label = "unlink" => w \in Moves)
  BY DEF WriteRow
<1>2. /\ UNCHANGED <<bucket, bytes, seen, used, prev, limit, faults>>
      /\ w \in InFlight /\ pc[w] = "write"
  BY DEF WriteRow, InFlight
<1>3. /\ InFlight' = IF label = "done" THEN {} ELSE {w}
      /\ pc'[w] = label
      /\ Mid(w) /\ \A p \in Paths : Described(p) \/ Touching(w, p)
      /\ \A p \in Paths : Overshot(p) => Overshot(p)'
  BY <1>1, <1>2, Solo
<1>4. Writable(w)
  <2>1. bucket = "open" /\ prev[w] = IF row[To[w]] = None THEN None ELSE row[To[w]].id
    BY <1>2, <1>3 DEF Mid
  <2>2. row[To[w]] # None => row[To[w]].id \in Writers
    BY DEF Row
  <2> QED
    BY <2>1, <2>2 DEF Writable
<1>5. bytes[To[w]] = Content(w) /\ Content(w) # None
  BY <1>2, <1>3 DEF Mid, UploadMid, TransferMid, Content, Row
<1>6. PICK new : new # None /\ new.body = Content(w) /\ row' = [row EXCEPT ![To[w]] = new]
  <2> DEFINE new == [id |-> IF prev[w] = None THEN w ELSE prev[w], body |-> Content(w)]
  <2>1. Content(w) \in Uploads
    BY <1>2 DEF Content, Row
  <2>2. new # None /\ new.body = Content(w)
    BY <2>1
  <2>3. row' = [row EXCEPT ![To[w]] = new]
    BY <1>4 DEF WriteRow
  <2> QED
    BY <2>2, <2>3
<1>7. \A p \in Paths : Described(p)'
  BY <1>2, <1>3, <1>5, <1>6 DEF Described, Touching
<1>8. label # "done" => Mid(w)'
  BY <1>1, <1>2, <1>3 DEF Mid, TransferMid
<1>9. w \in Requests
  OBVIOUS
<1> QED
  BY <1>3, <1>7, <1>8, <1>9, SoloEnd

LEMMA UnlinkStep ==
  ASSUME Shape, SeqInv, OneAtATime', NEW r \in Moves \cup Removes, Unlink(r)
  PROVE  SeqInv'
<1> USE ConstantsAssumption, PathOf DEF Requests, Writers, Transfers, Shape
<1>1. PICK label \in {"forget"} :
         /\ Goto(r, label)
         /\ pc[r] = "unlink" /\ bytes' = [bytes EXCEPT ![From[r]] = None]
  BY DEF Unlink
<1>2. UNCHANGED <<bucket, row, seen, used, prev, limit, faults>> /\ r \in InFlight
  BY DEF Unlink, InFlight
<1>3. /\ InFlight' = IF label = "done" THEN {} ELSE {r}
      /\ pc'[r] = label
      /\ Mid(r)
      /\ \A p \in Paths : Described(p) \/ Touching(r, p)
      /\ \A p \in Paths : Overshot(p) => Overshot(p)'
  BY <1>1, <1>2, Solo
<1>4. \A p \in Paths : Described(p)' \/ (label # "done" /\ Touching(r, p)')
  BY <1>1, <1>2, <1>3 DEF Described, Touching
<1>5. label # "done" => Mid(r)'
  BY <1>1, <1>2, <1>3 DEF Mid, TransferMid
<1>6. r \in Requests
  OBVIOUS
<1> QED
  BY <1>3, <1>4, <1>5, <1>6, SoloEnd

LEMMA ForgetStep ==
  ASSUME Shape, SeqInv, OneAtATime', NEW r \in Moves \cup Removes, Forget(r)
  PROVE  SeqInv'
<1> USE ConstantsAssumption, PathOf DEF Requests, Writers, Transfers, Shape
<1>1. PICK label \in {"done"} :
         /\ Goto(r, label)
         /\ pc[r] = "forget" /\ row' = [row EXCEPT ![From[r]] = None]
  BY DEF Forget
<1>2. UNCHANGED <<bucket, bytes, seen, used, prev, limit, faults>> /\ r \in InFlight
  BY DEF Forget, InFlight
<1>3. /\ InFlight' = IF label = "done" THEN {} ELSE {r}
      /\ pc'[r] = label
      /\ Mid(r)
      /\ \A p \in Paths : Described(p) \/ Touching(r, p)
      /\ \A p \in Paths : Overshot(p) => Overshot(p)'
  BY <1>1, <1>2, Solo
<1>4. \A p \in Paths : Described(p)' \/ (label # "done" /\ Touching(r, p)')
  BY <1>1, <1>2, <1>3 DEF Described, Touching, Mid
<1>5. label # "done" => Mid(r)'
  BY <1>1
<1>6. r \in Requests
  OBVIOUS
<1> QED
  BY <1>3, <1>4, <1>5, <1>6, SoloEnd

LEMMA OpenRemoveStep ==
  ASSUME Shape, SeqInv, OneAtATime', NEW d \in Removes, OpenRemove(d)
  PROVE  SeqInv'
<1> USE ConstantsAssumption, PathOf DEF Requests, Writers, Transfers, Shape
<1>1. PICK label \in {"unlink", "done"} :
         /\ Goto(d, label)
         /\ label # "done" => bucket = "open"
  BY DEF OpenRemove
<1>2. UNCHANGED <<store, seen, used, prev, limit, faults>> /\ CanOpen(d)
  BY DEF OpenRemove, InFlight
<1>3. /\ InFlight' = IF label = "done" THEN {} ELSE {d}
      /\ pc'[d] = label
      /\ \A p \in Paths : Described(p)
      /\ \A p \in Paths : Overshot(p) => Overshot(p)'
  BY <1>1, <1>2, Solo
<1>4. \A p \in Paths : Described(p)' \/ (label # "done" /\ Touching(d, p)')
  BY <1>2, <1>3 DEF Described, store
<1>5. label # "done" => Mid(d)'
  BY <1>1, <1>2, <1>3 DEF Mid, store
<1>6. d \in Requests
  OBVIOUS
<1> QED
  BY <1>3, <1>4, <1>5, <1>6, SoloEnd

LEMMA OpenDropStep ==
  ASSUME Shape, SeqInv, OneAtATime', NEW d \in Drops, OpenDrop(d)
  PROVE  SeqInv'
<1> USE ConstantsAssumption, PathOf DEF Requests, Writers, Transfers, Shape
<1>1. PICK label \in {"drop", "done"} :
         /\ Goto(d, label)
         /\ label # "done" => bucket = "open" /\ \A p \in Paths : row[p] = None
  BY DEF OpenDrop
<1>2. UNCHANGED <<store, seen, used, prev, limit, faults>> /\ CanOpen(d)
  BY DEF OpenDrop, InFlight
<1>3. /\ InFlight' = IF label = "done" THEN {} ELSE {d}
      /\ pc'[d] = label
      /\ \A p \in Paths : Described(p)
      /\ \A p \in Paths : Overshot(p) => Overshot(p)'
  BY <1>1, <1>2, Solo
<1>4. \A p \in Paths : Described(p)' \/ (label # "done" /\ Touching(d, p)')
  BY <1>2, <1>3 DEF Described, store
<1>5. label # "done" => Mid(d)'
  BY <1>1, <1>2, <1>3 DEF Mid, store
<1>6. d \in Requests
  OBVIOUS
<1> QED
  BY <1>3, <1>4, <1>5, <1>6, SoloEnd

LEMMA DropBucketStep ==
  ASSUME Shape, SeqInv, OneAtATime', NEW d \in Drops, DropBucket(d)
  PROVE  SeqInv'
<1> USE ConstantsAssumption, PathOf DEF Requests, Writers, Transfers, Shape
<1>1. PICK label \in {"done"} :
         /\ Goto(d, label)
         /\ pc[d] = "drop" /\ row' = [p \in Paths |-> None]
  BY DEF DropBucket
<1>2. UNCHANGED <<bytes, seen, used, prev, limit, faults>> /\ d \in InFlight
  BY DEF DropBucket, InFlight
<1>3. /\ InFlight' = IF label = "done" THEN {} ELSE {d}
      /\ pc'[d] = label
      /\ Mid(d)
      /\ \A p \in Paths : Described(p) \/ Touching(d, p)
      /\ \A p \in Paths : Overshot(p) => Overshot(p)'
  BY <1>1, <1>2, Solo
<1>4. \A p \in Paths : Described(p)' \/ (label # "done" /\ Touching(d, p)')
  BY <1>1, <1>2, <1>3 DEF Described, Touching, Mid
<1>5. label # "done" => Mid(d)'
  BY <1>1
<1>6. d \in Requests
  OBVIOUS
<1> QED
  BY <1>3, <1>4, <1>5, <1>6, SoloEnd

LEMMA SeqStep == Shape /\ SeqInv /\ [Next]_vars => SeqInv'
<1> SUFFICES ASSUME Shape, SeqInv, [Next]_vars, OneAtATime' PROVE SeqInv'
  BY DEF SeqInv
<1>1. \A r \in Requests : ~Fail(r)
  BY DEF Fail, OneAtATime, Shape
<1>2. ~Crash
  BY DEF Crash, OneAtATime, Shape
<1>3. CASE UNCHANGED vars
  <2>1. OneAtATime /\ UNCHANGED <<InFlight, bucket, row, bytes, pc, seen, used, prev>>
    BY <1>3 DEF vars, store, request, OneAtATime, InFlight
  <2> QED
    BY <2>1 DEF SeqInv, Mid, UploadMid, TransferMid, Described, Overshot, Touching
<1> QED
  BY <1>1, <1>2, <1>3, OpenUploadStep, ReadUsageStep, PutStep, UndoStep, OpenTransferStep,
     CheckDestStep, ReadUsageForCopyStep, CopyStep, SelectRowStep, WriteRowStep, UnlinkStep,
     ForgetStep, OpenRemoveStep, OpenDropStep, DropBucketStep
  DEF Next

LEMMA SeqInit == Init => Shape /\ SeqInv
<1> SUFFICES ASSUME Init PROVE Shape /\ SeqInv
  OBVIOUS
<1>1. Shape
  BY ConstantsAssumption DEF Init, Shape, Requests, Writers, Transfers
<1>2. InFlight = {}
  BY DEF Init, InFlight
<1> QED
  BY <1>1, <1>2 DEF Init, SeqInv, Described

\* Every variable keeps its type: what a transfer describes is always the content
\* of a row that it has read.
THEOREM TypeCorrect == Spec => []TypeOK
<1>1. Shape => TypeOK
  BY DEF Shape, TypeOK
<1> QED
  BY <1>1, SeqInit, ShapeStep, PTL DEF Spec

\* Requests that do not overlap leave every row with its bytes, apart from the
\* object that an upsert over quota was to replace.
THEOREM RowsKeepTheirBytes == Spec => []RowsDescribeBytes
<1>1. SeqInv => RowsDescribeBytes
  BY DEF SeqInv, RowsDescribeBytes, Quiet, Described
<1> QED
  BY <1>1, SeqInit, ShapeStep, SeqStep, PTL DEF Spec

\* And no bytes without a row: rejected uploads, moves and removals clean up.
THEOREM NoBytesWithoutRow == Spec => []NoStrayBytes
<1>1. SeqInv => NoStrayBytes
  BY DEF SeqInv, NoStrayBytes, Quiet, Described
<1> QED
  BY <1>1, SeqInit, ShapeStep, SeqStep, PTL DEF Spec

-----------------------------------------------------------------------------
(* Overlapping requests: by how much the quota is exceeded.                *)

Weight(r) == Size[Content(r)]

\* Uploads and copies whose comparison with the quota allows them to add their
\* object to what there is by now.
Admitted ==
    {r \in Uploads \cup Copies :
        pc[r] \in {"put", "copy", "select", "write"} /\ used[r] + Weight(r) <= Quota}

\* Nobody gets to a write without that comparison, or beyond the limit.
MeasuredInv ==
    /\ Cardinality(InFlight) <= limit
    /\ \A r \in Uploads \cup Copies : pc[r] \in {"copy", "select", "write"} => r \in Admitted
    /\ \A m \in doubled : pc[m] \in {"unlink", "forget", "done"}

\* Each admitted request may still add an object of the largest size, and the
\* others under way when it was measured have added theirs; the one measured last
\* has room for its own.
RoomInv ==
    LET left == limit - Cardinality(Admitted)
        bytesAllowed == Quota + DoubledBytes
    IN  \/ Usage <= bytesAllowed + (left - 1) * MaxFileBytes
        \/ \E r \in Admitted : Usage + Weight(r) <= bytesAllowed + left * MaxFileBytes

LEMMA DoubledSizes ==
  ASSUME NEW read \in [Requests -> Row \cup {None}], NEW D \in SUBSET Moves
  PROVE  LET w == [m \in Moves |-> IF m \in D THEN SizeOf(read[m]) ELSE 0]
         IN  w \in Sizes(Moves) /\ IsFiniteSet(Moves) /\ Total(w) \in Nat
<1> USE ConstantsAssumption
<1> DEFINE w == [m \in Moves |-> IF m \in D THEN SizeOf(read[m]) ELSE 0]
<1>1. w \in Sizes(Moves)
  BY DEF Row, SizeOf, Sizes, Requests, Writers, Transfers
<1>2. IsFiniteSet(Moves)
  BY FS_Subset DEF Requests, Writers, Transfers
<1>3. Total(w) \in Nat
  BY <1>1, <1>2, TotalBasics
<1> QED
  BY <1>1, <1>2, <1>3

LEMMA Sums ==
  /\ Shape => Usage \in Nat /\ DoubledBytes \in Nat
  /\ Shape' => Usage' \in Nat /\ DoubledBytes' \in Nat
BY RowSizes, DoubledSizes DEF Shape, Usage, DoubledBytes

\* The admitted are requests under way, with sizes.
LEMMA AdmittedBasics ==
  ASSUME Shape, MeasuredInv
  PROVE  /\ IsFiniteSet(Admitted) /\ Cardinality(Admitted) \in Nat
         /\ Cardinality(Admitted) <= limit
         /\ \A r \in Admitted : Weight(r) \in 0 .. MaxFileBytes
<1> USE ConstantsAssumption DEF Requests, Writers, Transfers, Shape
<1>1. IsFiniteSet(InFlight) /\ Cardinality(InFlight) \in Nat
  BY FS_Subset, FS_CardinalityType DEF InFlight
<1>2. Admitted \in SUBSET InFlight
  BY DEF Admitted, InFlight
<1>3. IsFiniteSet(Admitted) /\ Cardinality(Admitted) <= Cardinality(InFlight)
  BY <1>1, <1>2, FS_Subset
<1>4. Cardinality(Admitted) \in Nat
  BY <1>3, FS_CardinalityType
<1>5. \A r \in Admitted : Weight(r) \in 0 .. MaxFileBytes
  <2> SUFFICES ASSUME NEW r \in Admitted PROVE Weight(r) \in 0 .. MaxFileBytes
    OBVIOUS
  <2>1. Content(r) \in Uploads
    BY DEF Admitted, Content, Row
  <2> QED
    BY <2>1 DEF Weight
<1> QED
  BY <1>1, <1>3, <1>4, <1>5 DEF MeasuredInv

\* With room for every admitted request, the bound holds.
LEMMA RoomBounds ==
  ASSUME Shape, MeasuredInv, RoomInv
  PROVE  OvershootIsBounded
<1> USE ConstantsAssumption
<1> DEFINE n == Cardinality(Admitted)
<1>1. /\ n \in Nat /\ n <= limit /\ limit \in Nat
      /\ \A r \in Admitted : Weight(r) \in Nat
      /\ IsFiniteSet(Admitted)
  BY AdmittedBasics DEF Shape
<1>2. Usage \in Nat /\ DoubledBytes \in Nat /\ MaxFileBytes \in Nat /\ Quota \in Nat
  BY Sums
<1>3. Admitted # {} => n # 0
  BY <1>1, FS_EmptySet
<1> HIDE DEF n
<1>4. CASE Usage <= Quota + DoubledBytes + (limit - n - 1) * MaxFileBytes
  <2>1. (limit - n - 1) * MaxFileBytes = (limit - 1) * MaxFileBytes - n * MaxFileBytes
    BY <1>1, <1>2
  <2>2. n * MaxFileBytes \in Nat /\ (limit - 1) * MaxFileBytes \in Int
    BY <1>1, <1>2
  <2> QED
    BY <1>2, <1>4, <2>1, <2>2 DEF OvershootIsBounded
<1>5. ASSUME NEW r \in Admitted,
             Usage + Weight(r) <= Quota + DoubledBytes + (limit - n) * MaxFileBytes
      PROVE  OvershootIsBounded
  <2>1. (limit - n) * MaxFileBytes = (limit - 1) * MaxFileBytes - (n - 1) * MaxFileBytes
    BY <1>1, <1>2
  <2>2. n - 1 \in Nat
    BY <1>1, <1>3
  <2>3. (n - 1) * MaxFileBytes \in Nat /\ (limit - 1) * MaxFileBytes \in Int
    BY <1>1, <1>2, <2>2
  <2> QED
    BY <1>1, <1>2, <1>5, <2>1, <2>3 DEF OvershootIsBounded
<1> QED
  BY <1>4, <1>5 DEF RoomInv, n

\* The steps of RoomInv: the usage grows by less than what moves doubled; an
\* admitted request adds its object, or ends; a request is measured.
LEMMA RoomSame ==
  ASSUME Shape, Shape', MeasuredInv, RoomInv, limit' = limit, Admitted' = Admitted,
         \A r \in Admitted : Weight(r)' = Weight(r),
         Usage' + DoubledBytes <= Usage + DoubledBytes'
  PROVE  RoomInv'
<1> USE ConstantsAssumption
<1> DEFINE n == Cardinality(Admitted)
           room == (limit - n) * MaxFileBytes
           less == (limit - n - 1) * MaxFileBytes
<1>1. n \in Nat /\ limit \in Nat /\ \A r \in Admitted : Weight(r) \in Nat
  BY AdmittedBasics DEF Shape
<1>2. Usage \in Nat /\ Usage' \in Nat /\ DoubledBytes \in Nat /\ DoubledBytes' \in Nat
  BY Sums
<1>3. room \in Int /\ less \in Int
  BY <1>1
<1>4. RoomInv <=> \/ Usage <= Quota + DoubledBytes + less
                  \/ \E r \in Admitted : Usage + Weight(r) <= Quota + DoubledBytes + room
  BY DEF RoomInv
<1>5. RoomInv' <=> \/ Usage' <= Quota + DoubledBytes' + less
                   \/ \E r \in Admitted : Usage' + Weight(r) <= Quota + DoubledBytes' + room
  BY DEF RoomInv
<1> HIDE DEF n, room, less
<1> QED
  BY <1>1, <1>2, <1>3, <1>4, <1>5

LEMMA RoomLess ==
  ASSUME Shape, Shape', MeasuredInv, RoomInv, limit' = limit,
         NEW r \in Admitted, Admitted' = Admitted \ {r},
         \A s \in Admitted \ {r} : Weight(s)' = Weight(s),
         Usage' + DoubledBytes <= Usage + DoubledBytes' + Weight(r)
  PROVE  RoomInv'
<1> USE ConstantsAssumption
<1> DEFINE n == Cardinality(Admitted)
           more == (limit - n + 1) * MaxFileBytes
           room == (limit - n) * MaxFileBytes
           less == (limit - n - 1) * MaxFileBytes
<1>1. /\ n \in Nat /\ limit \in Nat /\ IsFiniteSet(Admitted)
      /\ \A s \in Admitted : Weight(s) \in 0 .. MaxFileBytes
  BY AdmittedBasics DEF Shape
<1>2. Usage \in Nat /\ Usage' \in Nat /\ DoubledBytes \in Nat /\ DoubledBytes' \in Nat
  BY Sums
<1>3. Cardinality(Admitted') = n - 1
  BY <1>1, FS_RemoveElement
<1>4. room \in Int /\ less \in Int /\ more = room + MaxFileBytes /\ room = less + MaxFileBytes
  BY <1>1
<1>5. RoomInv <=> \/ Usage <= Quota + DoubledBytes + less
                  \/ \E s \in Admitted : Usage + Weight(s) <= Quota + DoubledBytes + room
  BY DEF RoomInv
<1>6. limit' - Cardinality(Admitted') = limit - n + 1 /\ limit - n + 1 - 1 = limit - n
  BY <1>1, <1>3
<1>7. RoomInv' <=>
        \/ Usage' <= Quota + DoubledBytes' + room
        \/ \E s \in Admitted \ {r} : Usage' + Weight(s) <= Quota + DoubledBytes' + more
  <2>1. RoomInv' <=>
          \/ Usage' <= Quota + DoubledBytes' + (limit' - Cardinality(Admitted') - 1) * MaxFileBytes
          \/ \E s \in Admitted' :
               Usage' + Weight(s)' <=
                 Quota + DoubledBytes' + (limit' - Cardinality(Admitted')) * MaxFileBytes
    BY DEF RoomInv
  <2>2. limit' - Cardinality(Admitted') - 1 = limit - n
    BY <1>1, <1>3
  <2> QED
    BY <2>1, <2>2, <1>6
<1> HIDE DEF n, room, less, more
<1>8. CASE Usage <= Quota + DoubledBytes + less
  BY <1>1, <1>2, <1>4, <1>7, <1>8
<1>9. ASSUME NEW s \in Admitted, Usage + Weight(s) <= Quota + DoubledBytes + room
      PROVE  RoomInv'
  <2>1. CASE s = r
    BY <1>1, <1>2, <1>4, <1>7, <1>9, <2>1
  <2>2. CASE s # r
    <3>1. Usage' + Weight(s) <= Quota + DoubledBytes' + more
      BY <1>1, <1>2, <1>4, <1>9
    <3> QED
      BY <1>7, <2>2, <3>1
  <2> QED
    BY <2>1, <2>2
<1> QED
  BY <1>5, <1>8, <1>9

LEMMA RoomMore ==
  Shape /\ MeasuredInv /\ (\E r \in Admitted : Usage + Weight(r) <= Quota) => RoomInv
<1> USE ConstantsAssumption
<1> SUFFICES ASSUME Shape, MeasuredInv, NEW r \in Admitted, Usage + Weight(r) <= Quota
             PROVE  RoomInv
  OBVIOUS
<1> DEFINE left == limit - Cardinality(Admitted)
<1>1. left \in Nat /\ Weight(r) \in Nat
  BY AdmittedBasics DEF Shape
<1>2. Usage \in Nat /\ DoubledBytes \in Nat
  BY Sums
<1>3. left * MaxFileBytes \in Nat
  BY <1>1
<1>4. Usage + Weight(r) <= Quota + DoubledBytes + left * MaxFileBytes
  BY <1>1, <1>2, <1>3
<1> QED
  BY <1>4 DEF RoomInv

LEMMA RoomMoreNext ==
  (Shape /\ MeasuredInv /\ (\E r \in Admitted : Usage + Weight(r) <= Quota) => RoomInv)'
BY RoomMore, PTL

\* A step of request r to label that leaves the rows and what was doubled alone.
Still(r, label) ==
    /\ Goto(r, label) /\ label # "idle" /\ (CanOpen(r) \/ r \in InFlight)
    /\ UNCHANGED <<row, limit, doubled>>
    /\ \A s \in Requests \ {r} : used'[s] = used[s] /\ seen'[s] = seen[s]
    /\ r \in doubled => label \in {"unlink", "forget", "done"} /\ seen'[r] = seen[r]
    /\ r \in Uploads \cup Copies /\ label \in {"copy", "select", "write"} => r \in Admitted'
    /\ r \in Admitted' => (r \in Admitted /\ seen'[r] = seen[r]) \/ used'[r] = Usage

\* What a step of r does not change.
LEMMA OtherRequests ==
  ASSUME Shape, Shape', NEW r \in Requests, NEW label, Goto(r, label),
         CanOpen(r) \/ r \in InFlight, MeasuredInv, limit' = limit,
         \A s \in Requests \ {r} : used'[s] = used[s] /\ seen'[s] = seen[s]
  PROVE  /\ pc'[r] = label
         /\ \A s \in Requests \ {r} : pc'[s] = pc[s] /\ Weight(s)' = Weight(s)
         /\ \A s \in Requests \ {r} : s \in Admitted' <=> s \in Admitted
         /\ Cardinality(InFlight') <= limit'
<1> USE ConstantsAssumption DEF Goto
<1>1. pc'[r] = label /\ \A s \in Requests \ {r} : pc'[s] = pc[s]
  BY DEF Shape
<1>2. \A s \in Requests \ {r} : Weight(s)' = Weight(s)
  BY DEF Weight, Content
<1>3. \A s \in Requests \ {r} : s \in Admitted' <=> s \in Admitted
  BY <1>1, <1>2 DEF Admitted
<1>4. IsFiniteSet(InFlight) /\ Cardinality(InFlight) \in Nat
  BY FS_Subset, FS_CardinalityType DEF InFlight
<1>5. InFlight' \in SUBSET (InFlight \cup {r})
  BY <1>1 DEF InFlight
<1>6. ASSUME r \in InFlight PROVE Cardinality(InFlight') <= limit'
  <2>1. Cardinality(InFlight') <= Cardinality(InFlight)
    BY <1>4, <1>5, <1>6, FS_Subset
  <2>2. Cardinality(InFlight') \in Nat
    BY <1>4, <1>5, <1>6, FS_Subset, FS_CardinalityType
  <2>3. Cardinality(InFlight) <= limit /\ limit \in Nat /\ limit' = limit
    BY DEF MeasuredInv, Shape
  <2> QED
    BY <1>4, <2>1, <2>2, <2>3
<1>7. ASSUME CanOpen(r) PROVE Cardinality(InFlight') <= limit'
  <2>0. /\ IsFiniteSet(InFlight \cup {r})
        /\ Cardinality(InFlight \cup {r}) =
             IF r \in InFlight THEN Cardinality(InFlight) ELSE Cardinality(InFlight) + 1
    BY ONLY <1>4, FS_AddElement
  <2>1. /\ IsFiniteSet(InFlight \cup {r})
        /\ Cardinality(InFlight \cup {r}) <= Cardinality(InFlight) + 1
    BY ONLY <1>4, <2>0
  <2>2. Cardinality(InFlight') <= Cardinality(InFlight \cup {r})
    BY <1>5, <2>1, FS_Subset
  <2>3. Cardinality(InFlight') \in Nat /\ Cardinality(InFlight \cup {r}) \in Nat
    BY <1>5, <2>1, FS_Subset, FS_CardinalityType
  <2>4. Cardinality(InFlight) < limit
    BY <1>7 DEF CanOpen
  <2> QED
    BY <1>4, <2>1, <2>2, <2>3, <2>4 DEF Shape
<1> QED
  BY <1>1, <1>2, <1>3, <1>6, <1>7

LEMMA StillKeeps ==
  ASSUME Shape, Shape', MeasuredInv, RoomInv, NEW r \in Requests, NEW label, Still(r, label)
  PROVE  MeasuredInv' /\ RoomInv'
<1> USE ConstantsAssumption
<1>1. /\ pc'[r] = label
      /\ \A s \in Requests \ {r} : pc'[s] = pc[s] /\ Weight(s)' = Weight(s)
      /\ \A s \in Requests \ {r} : s \in Admitted' <=> s \in Admitted
      /\ Cardinality(InFlight') <= limit'
  BY OtherRequests DEF Still
<1>2. Uploads \cup Copies \subseteq Requests /\ Moves \subseteq Requests
  BY DEF Requests, Writers, Transfers
<1>3. Admitted \subseteq Requests /\ Admitted' \subseteq Requests
  BY <1>2 DEF Admitted
<1>4. MeasuredInv'
  <2>1. \A s \in Uploads \cup Copies : pc'[s] \in {"copy", "select", "write"} => s \in Admitted'
    BY <1>1, <1>2 DEF MeasuredInv, Still
  <2>2. \A m \in doubled' : pc'[m] \in {"unlink", "forget", "done"}
    BY <1>1, <1>2 DEF MeasuredInv, Still, Shape
  <2> QED
    BY <1>1, <2>1, <2>2 DEF MeasuredInv
<1>5. Usage' = Usage
  BY DEF Still, Usage, BytesOf
<1>6. DoubledBytes' = DoubledBytes
  <2>1. \A m \in doubled : seen'[m] = seen[m]
    BY <1>2 DEF Still, Shape
  <2>2. [m \in Moves |-> IF m \in doubled THEN SizeOf(seen[m]) ELSE 0]' =
        [m \in Moves |-> IF m \in doubled THEN SizeOf(seen[m]) ELSE 0]
    BY <2>1 DEF Still, SizeOf
  <2> QED
    BY <2>2 DEF DoubledBytes
<1>7. Usage \in Nat /\ DoubledBytes \in Nat /\ limit' = limit
  BY Sums DEF Still
<1>8. ASSUME r \in Admitted', used'[r] = Usage PROVE RoomInv'
  <2>1. Usage' + Weight(r)' <= Quota
    BY <1>5, <1>8 DEF Admitted
  <2> QED
    BY <1>4, <1>8, <2>1, RoomMoreNext
<1>9. ASSUME r \in Admitted', r \in Admitted, seen'[r] = seen[r] PROVE RoomInv'
  <2>1. Admitted' = Admitted
    BY <1>1, <1>3, <1>9
  <2>2. \A s \in Admitted : Weight(s)' = Weight(s)
    BY <1>1, <1>3, <1>9 DEF Weight, Content
  <2> QED
    BY <1>5, <1>6, <1>7, <2>1, <2>2, RoomSame
<1>10. ASSUME r \notin Admitted', r \in Admitted PROVE RoomInv'
  <2>1. Admitted' = Admitted \ {r} /\ \A s \in Admitted \ {r} : Weight(s)' = Weight(s)
    BY <1>1, <1>3, <1>10
  <2>2. Weight(r) \in Nat
    BY <1>10, AdmittedBasics
  <2>3. Usage' + DoubledBytes <= Usage + DoubledBytes' + Weight(r)
    BY <1>5, <1>6, <1>7, <2>2
  <2> QED
    BY <1>7, <1>10, <2>1, <2>3, RoomLess
<1>11. ASSUME r \notin Admitted', r \notin Admitted PROVE RoomInv'
  <2>1. Admitted' = Admitted /\ \A s \in Admitted : Weight(s)' = Weight(s)
    BY <1>1, <1>3, <1>11
  <2> QED
    BY <1>5, <1>6, <1>7, <2>1, RoomSame
<1> QED
  BY <1>4, <1>8, <1>9, <1>10, <1>11 DEF Still

\* The steps of that kind.
LEMMA StillUpload ==
  ASSUME Shape, MeasuredInv, NEW u \in Uploads, OpenUpload(u) \/ ReadUsage(u) \/ Put(u) \/ Undo(u)
  PROVE  \E label : Still(u, label)
<1> USE ConstantsAssumption DEF Requests, Writers, Transfers, Shape, Goto, store
<1>1. u \notin doubled /\ Content(u) = u /\ Content(u)' = u
  BY DEF Content
<1>2. ASSUME OpenUpload(u) PROVE \E label : Still(u, label)
  <2>1. PICK label \in {"usage", "done"} : Goto(u, label) /\ pc'[u] = label
    BY <1>2 DEF OpenUpload
  <2>2. u \notin Admitted'
    BY <2>1 DEF Admitted
  <2> QED
    BY <1>1, <1>2, <2>1, <2>2 DEF OpenUpload, Still
<1>3. ASSUME ReadUsage(u) PROVE \E label : Still(u, label)
  <2>1. PICK label \in {"put", "done"} : Goto(u, label) /\ pc'[u] = label
    BY <1>3 DEF ReadUsage
  <2>2. used'[u] = Usage /\ u \in InFlight
    BY <1>3 DEF ReadUsage, InFlight
  <2> QED
    BY <1>1, <1>3, <2>1, <2>2 DEF ReadUsage, Still
<1>4. ASSUME Put(u) PROVE \E label : Still(u, label)
  <2>1. PICK label \in {"undo", "select"} :
           /\ Goto(u, label) /\ pc'[u] = label
           /\ label = "select" => ~(used[u] + Size[u] > Quota)
    BY <1>4 DEF Put
  <2>2. used[u] \in Nat /\ Size[u] \in Nat
    OBVIOUS
  <2>3. label = "select" => u \in Admitted /\ u \in Admitted'
    BY <1>1, <1>4, <2>1, <2>2 DEF Put, Admitted, Weight
  <2>4. label = "undo" => u \notin Admitted'
    BY <2>1 DEF Admitted
  <2>5. u \in InFlight
    BY <1>4 DEF Put, InFlight
  <2> QED
    BY <1>1, <1>4, <2>1, <2>3, <2>4, <2>5 DEF Put, Still
<1>5. ASSUME Undo(u) PROVE \E label : Still(u, label)
  <2>1. Goto(u, "done") /\ pc'[u] = "done" /\ u \in InFlight
    BY <1>5 DEF Undo, InFlight
  <2>2. u \notin Admitted'
    BY <2>1 DEF Admitted
  <2> QED
    BY <1>1, <1>5, <2>1, <2>2 DEF Undo, Still
<1> QED
  BY <1>2, <1>3, <1>4, <1>5

LEMMA StillTransfer ==
  ASSUME Shape, MeasuredInv, NEW t \in Transfers,
         OpenTransfer(t) \/ CheckDest(t) \/ ReadUsageForCopy(t) \/ Copy(t)
  PROVE  \E label : Still(t, label)
<1> USE ConstantsAssumption DEF Requests, Writers, Transfers, Shape, Goto, store
<1>1. t \in doubled => pc[t] \in {"unlink", "forget", "done"}
  BY DEF MeasuredInv
<1>2. ASSUME OpenTransfer(t) PROVE \E label : Still(t, label)
  <2>1. PICK label \in {"dest", "done"} : Goto(t, label) /\ pc'[t] = label
    BY <1>2 DEF OpenTransfer
  <2>2. t \notin Admitted' /\ t \notin doubled
    BY <1>1, <1>2, <2>1 DEF Admitted, OpenTransfer, CanOpen
  <2> QED
    BY <1>2, <2>1, <2>2 DEF OpenTransfer, Still
<1>3. ASSUME CheckDest(t) PROVE \E label : Still(t, label)
  <2>1. PICK label \in {"done", "usage", "copy"} :
           Goto(t, label) /\ pc'[t] = label /\ (label = "copy" => t \notin Copies)
    BY <1>3 DEF CheckDest
  <2>2. t \notin Admitted' /\ t \notin doubled /\ t \in InFlight
    BY <1>1, <1>3, <2>1 DEF Admitted, CheckDest, InFlight
  <2> QED
    BY <1>3, <2>1, <2>2 DEF CheckDest, Still
<1>4. ASSUME ReadUsageForCopy(t) PROVE \E label : Still(t, label)
  <2>1. PICK label \in {"copy", "done"} :
           /\ Goto(t, label) /\ pc'[t] = label
           /\ label = "copy" => ~(Usage + Size[seen[t].body] > Quota)
    BY <1>4 DEF ReadUsageForCopy
  <2>2. used'[t] = Usage /\ t \in InFlight /\ t \notin doubled
    BY <1>1, <1>4 DEF ReadUsageForCopy, InFlight
  <2>3. seen[t].body \in Uploads /\ Usage \in Nat
    BY <1>4, Sums DEF ReadUsageForCopy, Row
  <2>4. Weight(t)' = Size[seen[t].body]
    BY <1>4 DEF ReadUsageForCopy, Weight, Content
  <2>5. label = "copy" => t \in Admitted'
    BY <1>4, <2>1, <2>2, <2>3, <2>4 DEF ReadUsageForCopy, Admitted
  <2> QED
    BY <1>4, <2>1, <2>2, <2>5 DEF ReadUsageForCopy, Still
<1>5. ASSUME Copy(t) PROVE \E label : Still(t, label)
  <2>1. PICK label \in {"select", "done"} : Goto(t, label) /\ pc'[t] = label
    BY <1>5 DEF Copy
  <2>2. t \in InFlight /\ t \notin doubled
    BY <1>1, <1>5 DEF Copy, InFlight
  <2>3. t \in Copies => t \in Admitted
    BY <1>5 DEF Copy, MeasuredInv
  <2>4. Weight(t)' = Weight(t) /\ used'[t] = used[t]
    BY <1>5 DEF Copy, Weight, Content
  <2>5. t \in Admitted' => t \in Admitted
    BY <2>3 DEF Admitted
  <2>6. t \in Admitted /\ label = "select" => t \in Admitted'
    BY <2>1, <2>4 DEF Admitted
  <2> QED
    BY <1>5, <2>1, <2>2, <2>3, <2>5, <2>6 DEF Copy, Still
<1> QED
  BY <1>2, <1>3, <1>4, <1>5

LEMMA StillSelect ==
  ASSUME Shape, MeasuredInv, NEW w \in Writers, SelectRow(w)
  PROVE  Still(w, "write")
<1> USE ConstantsAssumption DEF Requests, Writers, Transfers, Shape, Goto, store, SelectRow
<1>1. w \notin doubled /\ w \in InFlight /\ pc'[w] = "write"
  BY DEF MeasuredInv, InFlight
<1>2. Weight(w)' = Weight(w) /\ used'[w] = used[w]
  BY DEF Weight, Content
<1>3. w \in Uploads \cup Copies => w \in Admitted
  BY DEF MeasuredInv
<1>4. w \in Admitted <=> w \in Admitted'
  BY <1>1, <1>2 DEF Admitted
<1> QED
  BY <1>1, <1>3, <1>4 DEF Still

\* Requests that are neither an upload nor a copy, and requests that end.
LEMMA StillOther ==
  ASSUME Shape, MeasuredInv, NEW r \in Requests, NEW label, Goto(r, label),
         CanOpen(r) \/ r \in InFlight,
         UNCHANGED <<row, limit, doubled, used, seen>>,
         label \in {"unlink", "forget", "drop", "done"},
         r \in doubled => label # "drop"
  PROVE  Still(r, label)
<1> USE DEF Shape, Goto
<1>1. pc'[r] = label
  OBVIOUS
<1>2. r \notin Admitted'
  BY <1>1 DEF Admitted
<1> QED
  BY <1>1, <1>2 DEF Still

LEMMA RoomUpdate ==
  ASSUME Shape, NEW p \in Paths, NEW new \in Row \cup {None}, row' = [row EXCEPT ![p] = new]
  PROVE  /\ Usage' + SizeOf(row[p]) = Usage + SizeOf(new)
         /\ SizeOf(row[p]) \in 0 .. MaxFileBytes /\ SizeOf(new) \in 0 .. MaxFileBytes
<1> DEFINE w == [q \in Paths |-> SizeOf(row[q])]
           v == [q \in Paths |-> SizeOf(row'[q])]
<1>1. row \in [Paths -> Row \cup {None}] /\ row' \in [Paths -> Row \cup {None}]
  BY DEF Shape
<1>2. w \in Sizes(Paths) /\ v \in Sizes(Paths)
  BY <1>1, RowSizes
<1>3. \A q \in Paths \ {p} : v[q] = w[q]
  BY <1>1
<1>4. w[p] = SizeOf(row[p]) /\ v[p] = SizeOf(new)
  BY <1>1
<1>5. Total(v) + w[p] = Total(w) + v[p]
  BY <1>2, <1>3, FinitePaths, TotalChange
<1>6. Usage = Total(w) /\ Usage' = Total(v)
  BY DEF Usage, BytesOf
<1>7. w[p] \in 0 .. MaxFileBytes /\ v[p] \in 0 .. MaxFileBytes
  BY <1>2 DEF Sizes
<1> QED
  BY <1>4, <1>5, <1>6, <1>7

\* One more move that doubled its object.
LEMMA DoubledAdd ==
  ASSUME Shape, NEW A \in SUBSET Moves, NEW m \in Moves \ A
  PROVE  Total([n \in Moves |-> IF n \in A \cup {m} THEN SizeOf(seen[n]) ELSE 0]) =
         Total([n \in Moves |-> IF n \in A THEN SizeOf(seen[n]) ELSE 0]) + SizeOf(seen[m])
<1> DEFINE w == [n \in Moves |-> IF n \in A THEN SizeOf(seen[n]) ELSE 0]
           v == [n \in Moves |-> IF n \in A \cup {m} THEN SizeOf(seen[n]) ELSE 0]
<1>1. w \in Sizes(Moves) /\ v \in Sizes(Moves) /\ IsFiniteSet(Moves) /\ Total(w) \in Nat
  BY DoubledSizes DEF Shape
<1>2. Total(v) \in Nat
  BY <1>1, TotalBasics
<1>3. (\A n \in Moves \ {m} : v[n] = w[n]) /\ w[m] = 0 /\ v[m] = SizeOf(seen[m])
  OBVIOUS
<1>4. v[m] \in 0 .. MaxFileBytes
  BY <1>1 DEF Sizes
<1>5. Total(v) + w[m] = Total(w) + v[m]
  BY <1>1, <1>3, TotalChange
<1> QED
  BY <1>1, <1>2, <1>3, <1>4, <1>5

LEMMA WriteRowKeeps ==
  ASSUME Shape, Shape', MeasuredInv, RoomInv, NEW w \in Writers, WriteRow(w)
  PROVE  MeasuredInv' /\ RoomInv'
<1> USE ConstantsAssumption DEF Requests, Writers, Transfers
<1>1. PICK label \in {"unlink", "done"} : Goto(w, label)
  BY DEF WriteRow
<1>2. UNCHANGED <<used, seen, limit>> /\ w \in InFlight /\ pc[w] = "write" /\ w \notin doubled
  BY DEF WriteRow, InFlight, MeasuredInv
<1>3. CASE ~Writable(w)
  <2>1. Goto(w, "done") /\ UNCHANGED <<row, doubled>>
    BY <1>3 DEF WriteRow
  <2> QED
    BY <1>2, <2>1, StillOther, StillKeeps
<1>4. CASE Writable(w)
  <2> DEFINE new == [id |-> IF prev[w] = None THEN w ELSE prev[w], body |-> Content(w)]
  <2>1. row' = [row EXCEPT ![To[w]] = new] /\ doubled' = doubled \cup ({w} \cap Moves)
    BY <1>4 DEF WriteRow
  <2>2. Content(w) \in Uploads
    BY <1>2 DEF Content, Shape, InFlight, Row
  <2>3. new \in Row /\ new # None /\ new.body = Content(w)
    BY <2>2 DEF Row, Shape
  <2>4. /\ Usage' + SizeOf(row[To[w]]) = Usage + Weight(w)
        /\ SizeOf(row[To[w]]) \in Nat /\ Weight(w) \in Nat
    <3>1. To[w] \in Paths /\ new \in Row \cup {None} /\ SizeOf(new) = Weight(w)
      BY <2>3, PathOf DEF SizeOf, Weight
    <3> HIDE DEF new
    <3>2. /\ Usage' + SizeOf(row[To[w]]) = Usage + SizeOf(new)
          /\ SizeOf(row[To[w]]) \in 0 .. MaxFileBytes /\ SizeOf(new) \in 0 .. MaxFileBytes
      BY <2>1, <3>1, RoomUpdate
    <3> QED
      BY <3>1, <3>2
  <2>5. Usage \in Nat /\ DoubledBytes \in Nat /\ Usage' \in Nat /\ DoubledBytes' \in Nat
    BY Sums
  <2>6. /\ pc'[w] = label
        /\ \A s \in Requests \ {w} : pc'[s] = pc[s] /\ Weight(s)' = Weight(s)
        /\ \A s \in Requests \ {w} : s \in Admitted' <=> s \in Admitted
        /\ Cardinality(InFlight') <= limit'
    BY <1>1, <1>2, OtherRequests
  <2>7. w \notin Admitted' /\ Admitted \subseteq Requests /\ Admitted' \subseteq Requests
    BY <2>6 DEF Admitted
  <2>8. MeasuredInv'
    <3>1. \A r \in Uploads \cup Copies : pc'[r] \in {"copy", "select", "write"} => r \in Admitted'
      BY <2>6 DEF MeasuredInv
    <3>2. \A m \in doubled' : pc'[m] \in {"unlink", "forget", "done"}
      BY <2>1, <2>6 DEF MeasuredInv, Shape
    <3> QED
      BY <2>6, <3>1, <3>2 DEF MeasuredInv
  <2>9. CASE w \in Uploads \cup Copies
    <3>1. w \in Admitted
      BY <1>2, <2>9 DEF MeasuredInv
    <3>2. Admitted' = Admitted \ {w} /\ \A s \in Admitted \ {w} : Weight(s)' = Weight(s)
      BY <2>6, <2>7
    <3>3. DoubledBytes' = DoubledBytes
      BY <1>2, <2>1, <2>9 DEF DoubledBytes
    <3>4. Usage' + DoubledBytes <= Usage + DoubledBytes' + Weight(w)
      BY <2>4, <2>5, <3>3
    <3> QED
      BY <1>2, <2>8, <3>1, <3>2, <3>4, RoomLess
  <2>10. CASE w \in Moves
    <3>1. Admitted' = Admitted /\ \A s \in Admitted : Weight(s)' = Weight(s)
      BY <2>6, <2>7, <2>10 DEF Admitted
    <3>2. Weight(w) = SizeOf(seen[w])
      BY <1>2, <2>10 DEF Weight, Content, SizeOf, Shape
    <3>3. doubled' = doubled \cup {w}
      BY <2>1, <2>10
    <3>4. DoubledBytes' = DoubledBytes + SizeOf(seen[w])
      <4>1. DoubledBytes' =
              Total([n \in Moves |-> IF n \in doubled \cup {w} THEN SizeOf(seen[n]) ELSE 0])
        BY <1>2, <3>3 DEF DoubledBytes, SizeOf
      <4> QED
        BY <1>2, <2>10, <4>1, DoubledAdd DEF DoubledBytes, Shape
    <3>5. Usage' + DoubledBytes <= Usage + DoubledBytes'
      BY <2>4, <2>5, <3>2, <3>4
    <3> QED
      BY <1>2, <2>8, <3>1, <3>5, RoomSame
  <2> QED
    BY <2>9, <2>10
<1> QED
  BY <1>3, <1>4

\* A removal frees what it removes, and a move what it had doubled.
LEMMA ForgetKeeps ==
  ASSUME Shape, Shape', MeasuredInv, RoomInv, NEW r \in Moves \cup Removes, Forget(r)
  PROVE  MeasuredInv' /\ RoomInv'
<1> USE ConstantsAssumption DEF Requests, Writers, Transfers
<1>1. Goto(r, "done") /\ UNCHANGED <<used, seen, limit>> /\ r \in InFlight
  BY DEF Forget, InFlight
<1>2. /\ row' = [row EXCEPT ![From[r]] = None]
      /\ doubled' = IF row[From[r]] = seen[r] THEN doubled \ {r} ELSE doubled
  BY DEF Forget
<1>3. /\ pc'[r] = "done"
      /\ \A s \in Requests \ {r} : pc'[s] = pc[s] /\ Weight(s)' = Weight(s)
      /\ \A s \in Requests \ {r} : s \in Admitted' <=> s \in Admitted
      /\ Cardinality(InFlight') <= limit'
  BY <1>1, OtherRequests
<1>4. Admitted' = Admitted /\ \A s \in Admitted : Weight(s)' = Weight(s)
  BY <1>3 DEF Admitted
<1>5. MeasuredInv'
  <2>1. \A s \in Uploads \cup Copies : pc'[s] \in {"copy", "select", "write"} => s \in Admitted'
    BY <1>3 DEF MeasuredInv
  <2>2. \A m \in doubled' : pc'[m] \in {"unlink", "forget", "done"}
    BY <1>2, <1>3 DEF MeasuredInv, Shape
  <2> QED
    BY <1>3, <2>1, <2>2 DEF MeasuredInv
<1>6. Usage' + SizeOf(row[From[r]]) = Usage /\ SizeOf(row[From[r]]) \in Nat
  <2>1. SizeOf(None) = 0
    BY DEF SizeOf
  <2>2. From[r] \in Paths /\ None \in Row \cup {None}
    BY PathOf
  <2>3. /\ Usage' + SizeOf(row[From[r]]) = Usage + SizeOf(None)
        /\ SizeOf(row[From[r]]) \in 0 .. MaxFileBytes
    BY <1>2, <2>2, RoomUpdate
  <2> QED
    BY <2>1, <2>3, Sums
<1>7. Usage \in Nat /\ DoubledBytes \in Nat /\ Usage' \in Nat /\ DoubledBytes' \in Nat
  BY Sums
<1>8. CASE row[From[r]] = seen[r] /\ r \in doubled
  <2>1. doubled' \in SUBSET Moves /\ r \in Moves \ doubled' /\ doubled = doubled' \cup {r}
    BY <1>2, <1>8 DEF Shape
  <2>2. DoubledBytes' =
          Total([n \in Moves |-> IF n \in doubled' THEN SizeOf(seen[n]) ELSE 0])
    BY <1>1 DEF DoubledBytes, SizeOf
  <2>3. DoubledBytes =
          Total([n \in Moves |-> IF n \in doubled' \cup {r} THEN SizeOf(seen[n]) ELSE 0])
    BY <2>1 DEF DoubledBytes
  <2>4. DoubledBytes = DoubledBytes' + SizeOf(seen[r])
    BY <2>1, <2>2, <2>3, DoubledAdd
  <2>5. Usage' + DoubledBytes <= Usage + DoubledBytes'
    BY <1>6, <1>7, <1>8, <2>4
  <2> QED
    BY <1>1, <1>4, <1>5, <2>5, RoomSame
<1>9. CASE ~(row[From[r]] = seen[r] /\ r \in doubled)
  <2>1. doubled' = doubled
    BY <1>2, <1>9
  <2>2. DoubledBytes' = DoubledBytes
    BY <1>1, <2>1 DEF DoubledBytes, SizeOf
  <2>3. Usage' + DoubledBytes <= Usage + DoubledBytes'
    BY <1>6, <1>7, <2>2
  <2> QED
    BY <1>1, <1>4, <1>5, <2>3, RoomSame
<1> QED
  BY <1>8, <1>9

LEMMA DropBucketKeeps ==
  ASSUME Shape, Shape', MeasuredInv, RoomInv, NEW d \in Drops, DropBucket(d)
  PROVE  MeasuredInv' /\ RoomInv'
<1> USE ConstantsAssumption DEF Requests, Writers, Transfers
<1>1. Goto(d, "done") /\ UNCHANGED <<used, seen, limit, doubled>> /\ d \in InFlight
  BY DEF DropBucket, InFlight
<1>2. /\ pc'[d] = "done"
      /\ \A s \in Requests \ {d} : pc'[s] = pc[s] /\ Weight(s)' = Weight(s)
      /\ \A s \in Requests \ {d} : s \in Admitted' <=> s \in Admitted
      /\ Cardinality(InFlight') <= limit'
  BY <1>1, OtherRequests
<1>3. Admitted' = Admitted /\ \A s \in Admitted : Weight(s)' = Weight(s)
  BY <1>2 DEF Admitted
<1>4. MeasuredInv'
  <2>1. \A s \in Uploads \cup Copies : pc'[s] \in {"copy", "select", "write"} => s \in Admitted'
    BY <1>2 DEF MeasuredInv
  <2>2. \A m \in doubled' : pc'[m] \in {"unlink", "forget", "done"}
    BY <1>1, <1>2 DEF MeasuredInv, Shape
  <2> QED
    BY <1>2, <2>1, <2>2 DEF MeasuredInv
<1>5. Usage' <= Usage
  <2> DEFINE w == [q \in Paths |-> SizeOf(row[q])]
             v == [q \in Paths |-> SizeOf(row'[q])]
  <2>1. w \in Sizes(Paths) /\ v \in Sizes(Paths)
    BY RowSizes DEF Shape
  <2>2. \A q \in Paths : v[q] = 0
    BY DEF DropBucket, SizeOf
  <2>3. \A q \in Paths : v[q] <= w[q]
    <3> SUFFICES ASSUME NEW q \in Paths PROVE v[q] <= w[q]
      OBVIOUS
    <3>1. w[q] \in 0 .. MaxFileBytes
      BY <2>1 DEF Sizes
    <3> HIDE DEF v, w
    <3> QED
      BY <2>2, <3>1
  <2>4. Total(v) <= Total(w)
    BY <2>1, <2>3, FinitePaths, TotalMonotone
  <2> QED
    BY <2>4 DEF Usage, BytesOf
<1>6. DoubledBytes' = DoubledBytes
  BY <1>1 DEF DoubledBytes, SizeOf
<1>7. Usage' + DoubledBytes <= Usage + DoubledBytes'
  BY <1>5, <1>6, Sums
<1> QED
  BY <1>1, <1>3, <1>4, <1>7, RoomSame

\* After a restart nobody is admitted.
LEMMA CrashKeeps ==
  ASSUME Shape, Shape', MeasuredInv, RoomInv, Crash
  PROVE  MeasuredInv' /\ RoomInv'
<1> USE ConstantsAssumption DEF Requests, Writers, Transfers
<1>1. UNCHANGED <<row, seen, used, limit, doubled>>
  BY DEF Crash, store
<1>2. \A r \in Requests : pc'[r] \in {"idle", "done"}
  BY DEF Crash, InFlight
<1>3. \A r \in Requests : pc[r] = "done" => pc'[r] = "done"
  BY DEF Crash, InFlight
<1>4. InFlight' = {} /\ Admitted' = {}
  BY <1>2 DEF InFlight, Admitted
<1>5. Cardinality(InFlight') = 0 /\ Cardinality(Admitted') = 0 /\ limit' \in Nat
  BY <1>1, <1>4, FS_EmptySet DEF Shape
<1>6. \A m \in doubled : pc'[m] = "done"
  BY DEF Crash, InFlight, MeasuredInv, Shape
<1>7. MeasuredInv'
  <2>1. \A r \in Uploads \cup Copies : pc'[r] \notin {"copy", "select", "write"}
    BY <1>2
  <2>2. \A m \in doubled' : pc'[m] \in {"unlink", "forget", "done"}
    BY <1>1, <1>6
  <2> QED
    BY <1>5, <2>1, <2>2 DEF MeasuredInv
<1>8. Usage' = Usage /\ DoubledBytes' = DoubledBytes
  BY <1>1 DEF Usage, BytesOf, DoubledBytes, SizeOf
<1>9. OvershootIsBounded
  BY RoomBounds
<1>10. limit' - Cardinality(Admitted') - 1 = limit - 1
  BY <1>1, <1>5
<1>11. Usage' <= Quota + DoubledBytes' + (limit' - Cardinality(Admitted') - 1) * MaxFileBytes
  BY <1>8, <1>9, <1>10 DEF OvershootIsBounded
<1> QED
  BY <1>7, <1>11 DEF RoomInv

LEMMA RoomStep ==
  Shape /\ Shape' /\ MeasuredInv /\ RoomInv /\ [Next]_vars => MeasuredInv' /\ RoomInv'
<1> SUFFICES ASSUME Shape, Shape', MeasuredInv, RoomInv, [Next]_vars
             PROVE  MeasuredInv' /\ RoomInv'
  OBVIOUS
<1> USE DEF Requests, Writers, Transfers
<1>1. ASSUME NEW u \in Uploads, OpenUpload(u) \/ ReadUsage(u) \/ Put(u) \/ Undo(u)
      PROVE  MeasuredInv' /\ RoomInv'
  BY <1>1, StillUpload, StillKeeps
<1>2. ASSUME NEW t \in Transfers,
             OpenTransfer(t) \/ CheckDest(t) \/ ReadUsageForCopy(t) \/ Copy(t)
      PROVE  MeasuredInv' /\ RoomInv'
  BY <1>2, StillTransfer, StillKeeps
<1>3. ASSUME NEW w \in Writers, SelectRow(w) PROVE MeasuredInv' /\ RoomInv'
  BY <1>3, StillSelect, StillKeeps
<1>4. ASSUME NEW w \in Writers, WriteRow(w) PROVE MeasuredInv' /\ RoomInv'
  BY <1>4, WriteRowKeeps
<1>5. ASSUME NEW r \in Moves \cup Removes, Unlink(r) PROVE MeasuredInv' /\ RoomInv'
  <2>1. Goto(r, "forget") /\ r \in InFlight /\ UNCHANGED <<row, limit, doubled, used, seen>>
    BY <1>5 DEF Unlink, InFlight
  <2> QED
    BY <2>1, StillOther, StillKeeps
<1>6. ASSUME NEW r \in Moves \cup Removes, Forget(r) PROVE MeasuredInv' /\ RoomInv'
  BY <1>6, ForgetKeeps
<1>7. ASSUME NEW r \in Removes, OpenRemove(r) PROVE MeasuredInv' /\ RoomInv'
  <2>1. PICK label \in {"unlink", "done"} : Goto(r, label)
    BY <1>7 DEF OpenRemove
  <2>2. CanOpen(r) /\ UNCHANGED <<row, limit, doubled, used, seen>>
    BY <1>7 DEF OpenRemove, store
  <2> QED
    BY <2>1, <2>2, StillOther, StillKeeps
<1>8. ASSUME NEW d \in Drops, OpenDrop(d) PROVE MeasuredInv' /\ RoomInv'
  <2>1. PICK label \in {"drop", "done"} : Goto(d, label)
    BY <1>8 DEF OpenDrop
  <2>2. CanOpen(d) /\ UNCHANGED <<row, limit, doubled, used, seen>>
    BY <1>8 DEF OpenDrop, store
  <2>3. d \notin doubled
    BY ConstantsAssumption DEF Shape
  <2> QED
    BY <2>1, <2>2, <2>3, StillOther, StillKeeps
<1>9. ASSUME NEW d \in Drops, DropBucket(d) PROVE MeasuredInv' /\ RoomInv'
  BY <1>9, DropBucketKeeps
<1>10. ASSUME NEW r \in Requests, Fail(r) PROVE MeasuredInv' /\ RoomInv'
  <2>1. Goto(r, "done") /\ r \in InFlight /\ UNCHANGED <<row, limit, doubled, used, seen>>
    BY <1>10 DEF Fail, store
  <2> QED
    BY <2>1, StillOther, StillKeeps
<1>11. CASE Crash
  BY <1>11, CrashKeeps
<1>12. CASE UNCHANGED vars
  BY <1>12 DEF vars, store, request, MeasuredInv, RoomInv, Admitted, InFlight, Weight, Content,
     Usage, BytesOf, DoubledBytes, SizeOf
<1> QED
  BY <1>1, <1>2, <1>3, <1>4, <1>5, <1>6, <1>7, <1>8, <1>9, <1>10, <1>11, <1>12 DEF Next

LEMMA RoomInit == Init => MeasuredInv /\ RoomInv
<1> USE ConstantsAssumption DEF Requests, Writers, Transfers
<1> SUFFICES ASSUME Init PROVE MeasuredInv /\ RoomInv
  OBVIOUS
<1>1. Shape
  BY SeqInit
<1>2. InFlight = {} /\ Admitted = {}
  BY DEF Init, InFlight, Admitted
<1>3. Cardinality(InFlight) = 0 /\ Cardinality(Admitted) = 0 /\ limit \in Nat \ {0}
  BY <1>2, FS_EmptySet DEF Init
<1>4. MeasuredInv
  BY <1>3 DEF Init, MeasuredInv
<1>5. Usage = 0
  <2> DEFINE w == [q \in Paths |-> SizeOf(row[q])]
  <2>1. \A q \in Paths : w[q] = 0
    BY DEF Init, SizeOf
  <2>2. {b \in (DOMAIN w) \X (1 .. MaxFileBytes) : b[2] <= w[b[1]]} = {}
    BY <2>1
  <2> QED
    BY <2>2, FS_EmptySet DEF Usage, BytesOf, Total
<1>6. DoubledBytes \in Nat /\ (limit - Cardinality(Admitted) - 1) * MaxFileBytes \in Nat
  BY <1>1, <1>3, Sums
<1> QED
  BY <1>4, <1>5, <1>6 DEF RoomInv

\* However requests overlap and are cut off, the quota is exceeded by at most one
\* object of the largest size for each request that may be under way beside the
\* last, and by what moves wrote again without a look at the quota.
THEOREM TheQuotaIsNearlyKept == Spec => []OvershootIsBounded
<1>1. Shape /\ MeasuredInv /\ RoomInv => OvershootIsBounded
  BY RoomBounds
<1> QED
  BY <1>1, SeqInit, RoomInit, ShapeStep, RoomStep, PTL DEF Spec
=============================================================================
