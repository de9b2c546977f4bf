------------------------ MODULE UploadSessionsProofs ------------------------
(***************************************************************************)
(* TLAPS proofs about UploadSessions, for any number of parts, completes,  *)
(* aborts and faults.                                                      *)
(***************************************************************************)
EXTENDS UploadSessions, FiniteSetTheorems, TLAPS

Done        == {q \in Puts : pc[q] = "done"}
DoneIndexes == {Index[q] : q \in Done}
Gapless(S)  == S # {} /\ UpTo(S) = S

\* A part that was sent again, both times to its end.
Repeated ==
    \E p, q \in Puts : p # q /\ Index[p] = Index[q] /\ pc[p] = "done" /\ pc[q] = "done"

\* A count n and a list S of a session that may be in its row: both come from
\* requests that are done.
Plausible(n, S) ==
    /\ S \subseteq DoneIndexes
    /\ n <= Cardinality(Done)
    /\ n = Cardinality(S) \/ Repeated

\* The row is plausible, and so is what an unfinished part request has read of it.
PartInv ==
    /\ Plausible(received, parts)
    /\ \A q \in Puts : pc[q] = "record" => Plausible(readReceived[q], readParts[q])

\* What a complete assembles has no gap, and what ends a session says why.
EndInv ==
    /\ ObjectHasNoGap
    /\ CompletedHasObject
    /\ \A c \in Completes : pc[c] \in {"assemble", "upload", "stored"} => Gapless(readParts[c])
    /\ \A r \in Completes \cup Aborts :
          /\ verdict[r] = "completed" => object # None \/ overshot # {}
          /\ pc[r] = "stored" => object # None \/ overshot # {}
          /\ pc[r] \in {"clean", "finish"} => verdict[r] \in {"completed", "aborted"}

\* Nothing has begun to clean a session that is not yet ended.
Untouched ==
    faults = 0 /\ status = "active" /\ \A r \in Requests : pc[r] \notin {"clean", "finish"}

\* Until then, the object of each part is there before the part is listed.
KeptInv ==
    Untouched =>
        /\ parts \subseteq files
        /\ \A q \in Puts :
              /\ pc[q] \in {"read", "record"} => Index[q] \in files
              /\ pc[q] = "record" => readParts[q] \subseteq files

MetIndexes == {Index[p] : p \in met}

\* An index that was acknowledged is in the row, and in every list that a part
\* request will write back or a complete has read, unless its request met another.
AckedInv ==
    /\ \A p, q \in Recording : p # q => p \in met
    /\ acked \subseteq parts \cup MetIndexes
    /\ \A q \in Recording : acked \subseteq readParts[q] \cup MetIndexes
    /\ \A c \in Completes : owed[c] \subseteq readParts[c] \cup MetIndexes

Inv == TypeOK /\ PartInv /\ EndInv /\ KeptInv /\ AckedInv

-----------------------------------------------------------------------------
LEMMA PutsAreFinite ==
    ASSUME NEW S \in SUBSET Puts
    PROVE  IsFiniteSet(S) /\ Cardinality(S) \in Nat /\ Cardinality(S) <= Cardinality(Puts)
BY FS_Subset, FS_CardinalityType, ConstantsAssumption

LEMMA IndexesAreFinite ==
    ASSUME NEW S \in SUBSET Indexes
    PROVE  IsFiniteSet(S) /\ Cardinality(S) \in Nat
<1>1. Index \in Surjection(Puts, Indexes)
  BY ConstantsAssumption DEF Indexes, Surjection
<1>2. IsFiniteSet(Indexes)
  BY <1>1, FS_Surjection, ConstantsAssumption
<1> QED
  BY <1>2, FS_Subset, FS_CardinalityType

LEMMA InitInv == Init => Inv
<1> USE ConstantsAssumption
<1> SUFFICES ASSUME Init PROVE Inv
  OBVIOUS
<1>1. Cardinality(Puts) \in Nat /\ Cardinality({}) = 0 /\ Cardinality(Done) \in Nat
  BY PutsAreFinite, FS_EmptySet DEF Done
<1>2. TypeOK
  <2>1. 0 \in 0 .. Cardinality(Puts) /\ 0 \in 0 .. MaxFaults
    BY <1>1
  <2>2. {} \in SUBSET Indexes
    OBVIOUS
  <2> QED
    BY <2>1, <2>2 DEF Init, TypeOK
<1>3. PartInv
  BY <1>1 DEF Init, PartInv, Plausible, Requests
<1>4. EndInv
  BY DEF Init, EndInv, ObjectHasNoGap, CompletedHasObject, Requests
<1>5. KeptInv
  BY DEF Init, KeptInv, Requests
<1>6. AckedInv
  BY DEF Init, AckedInv, Recording, Requests
<1> QED
  BY <1>2, <1>3, <1>4, <1>5, <1>6 DEF Inv

\* What is plausible stays so as more requests are done.
LEMMA StaysPlausible ==
    ASSUME Done \subseteq Done', NEW n \in Nat, NEW S, Plausible(n, S)
    PROVE  Plausible(n, S)'
<1>1. Cardinality(Done) <= Cardinality(Done')
  BY PutsAreFinite, FS_Subset DEF Done
<1>2. Cardinality(Done) \in Nat /\ Cardinality(Done') \in Nat
  BY PutsAreFinite DEF Done
<1>3. DoneIndexes \subseteq DoneIndexes'
  BY DEF DoneIndexes
<1>4. Repeated => Repeated'
  BY DEF Repeated, Done
<1> QED
  BY <1>1, <1>2, <1>3, <1>4 DEF Plausible

\* Steps that record nothing.
LEMMA KeepsParts ==
    ASSUME TypeOK, PartInv, Done \subseteq Done', UNCHANGED <<parts, received>>,
           \A q \in Puts : pc'[q] = "record" =>
               /\ pc[q] = "record"
               /\ readReceived'[q] = readReceived[q] /\ readParts'[q] = readParts[q]
    PROVE  PartInv'
<1>1. received \in Nat /\ \A q \in Puts : readReceived[q] \in Nat
  BY DEF TypeOK, Requests
<1>2. ASSUME NEW n \in Nat, NEW S, n = received, S = parts PROVE Plausible(n, S)'
  BY <1>2, StaysPlausible DEF PartInv
<1>3. ASSUME NEW q \in Puts, pc'[q] = "record",
             NEW n \in Nat, NEW S, n = readReceived[q], S = readParts[q]
      PROVE  Plausible(n, S)'
  BY <1>3, StaysPlausible DEF PartInv
<1>4. Plausible(received, parts)'
  BY <1>1, <1>2 DEF Plausible
<1>5. ASSUME NEW q \in Puts, pc'[q] = "record" PROVE Plausible(readReceived[q], readParts[q])'
  BY <1>1, <1>3, <1>5 DEF Plausible
<1> QED
  BY <1>4, <1>5 DEF PartInv

\* Steps that neither begin nor end the write of a part, nor begin a complete.
LEMMA KeepsAcked ==
    ASSUME Inv, Recording' \subseteq Recording,
           UNCHANGED <<parts, readParts, acked, owed, met>>
    PROVE  AckedInv'
BY DEF Inv, AckedInv, MetIndexes

-----------------------------------------------------------------------------
(* The steps of a part. *)

LEMMA BeforeRecordInv ==
    ASSUME Inv, NEW q \in Puts, OpenPart(q) \/ PutPart(q) \/ ReadForPart(q) PROVE Inv'
<1> USE ConstantsAssumption DEF Inv, session, history, Goto, Requests
<1>1. TypeOK'
  BY DEF OpenPart, PutPart, ReadForPart, TypeOK, Indexes, Recording
<1>2. Done \subseteq Done' /\ UNCHANGED <<parts, received>>
  BY DEF OpenPart, PutPart, ReadForPart, TypeOK, Done
<1>3. PartInv'
  <2>1. CASE OpenPart(q) \/ PutPart(q)
    BY <1>2, <2>1, KeepsParts DEF OpenPart, PutPart, TypeOK
  <2>2. CASE ReadForPart(q)
    <3>1. ASSUME NEW n \in Nat, NEW S, Plausible(n, S) PROVE Plausible(n, S)'
      BY <1>2, <3>1, StaysPlausible
    <3>2. ASSUME NEW p \in Puts, pc'[p] = "record"
          PROVE  \/ pc[p] = "record" /\ readReceived'[p] = readReceived[p] /\ readParts'[p] = readParts[p]
                 \/ readReceived'[p] = received /\ readParts'[p] = parts
      BY <2>2, <3>2 DEF ReadForPart, TypeOK
    <3>3. received \in Nat /\ \A p \in Puts : readReceived[p] \in Nat
      BY DEF TypeOK
    <3>4. ASSUME NEW p \in Puts, pc'[p] = "record", NEW n \in Nat, NEW S,
                 n = readReceived'[p], S = readParts'[p]
          PROVE  Plausible(n, S)'
      BY <3>1, <3>2, <3>4 DEF PartInv
    <3>5. ASSUME NEW n \in Nat, NEW S, n = received, S = parts PROVE Plausible(n, S)'
      BY <3>1, <3>5 DEF PartInv
    <3>6. ASSUME NEW p \in Puts, pc'[p] = "record" PROVE Plausible(readReceived[p], readParts[p])'
      BY <3>2, <3>3, <3>4, <3>6 DEF Plausible
    <3> QED
      BY <1>2, <3>3, <3>5, <3>6 DEF PartInv, Plausible
  <2> QED
    BY <2>1, <2>2
<1>4. EndInv'
  BY DEF OpenPart, PutPart, ReadForPart, TypeOK, EndInv, ObjectHasNoGap, CompletedHasObject, Gapless
<1>5. KeptInv'
  BY DEF OpenPart, PutPart, ReadForPart, TypeOK, KeptInv, Untouched
<1>6. AckedInv'
  <2>1. CASE OpenPart(q) \/ PutPart(q)
    BY <2>1, KeepsAcked DEF OpenPart, PutPart, TypeOK, Recording
  <2>2. CASE ReadForPart(q)
    <3>1. Recording' \subseteq Recording \cup {q} /\ (q \in Recording' => Live)
      BY <2>2 DEF ReadForPart, TypeOK, Recording
    <3>2. met \subseteq met' /\ (q \in Recording' /\ Recording # {} => Recording \cup {q} \subseteq met')
      BY <2>2, <3>1 DEF ReadForPart
    <3>3. /\ UNCHANGED <<parts, acked, owed>>
          /\ readParts' = [readParts EXCEPT ![q] = parts]
      BY <2>2 DEF ReadForPart
    <3>4. \A c \in Completes : readParts'[c] = readParts[c]
      BY <3>3 DEF TypeOK
    <3> QED
      BY <3>1, <3>2, <3>3, <3>4 DEF AckedInv, MetIndexes, TypeOK
  <2> QED
    BY <2>1, <2>2
<1> QED
  BY <1>1, <1>3, <1>4, <1>5, <1>6

\* The write of a part: it makes its request one more that is done, and counts
\* its part twice only if another request with that index is done.
LEMMA RecordInv == ASSUME Inv, NEW q \in Puts, RecordPart(q) PROVE Inv'
<1> USE ConstantsAssumption DEF Inv, Goto, Requests
<1> DEFINE n == readReceived[q]
           S == readParts[q]
<1>0. /\ pc[q] = "record" /\ pc' = [pc EXCEPT ![q] = "done"]
      /\ parts' = S \cup {Index[q]} /\ received' = n + 1
      /\ UNCHANGED <<status, expired, files, object, todo, readParts, readReceived, verdict,
                     owed, met, faults>>
  BY DEF RecordPart
<1>1. Plausible(n, S) /\ n \in Nat /\ S \subseteq Indexes
  BY <1>0 DEF PartInv, TypeOK
<1>2. Done' = Done \cup {q} /\ q \notin Done
  BY <1>0 DEF Done, TypeOK
<1>3. Cardinality(Done') = Cardinality(Done) + 1 /\ Cardinality(Done') <= Cardinality(Puts)
  BY <1>2, PutsAreFinite, FS_AddElement DEF Done
<1>4. Cardinality(Done) \in Nat /\ Cardinality(Puts) \in Nat
  BY PutsAreFinite DEF Done
<1>5. n + 1 <= Cardinality(Done') /\ n + 1 \in 0 .. Cardinality(Puts)
  BY <1>1, <1>3, <1>4 DEF Plausible
<1>6. TypeOK'
  BY <1>0, <1>1, <1>5 DEF RecordPart, TypeOK, Indexes
<1>7. parts' \subseteq DoneIndexes'
  BY <1>0, <1>1, <1>2 DEF Plausible, DoneIndexes
<1>8. received' = Cardinality(parts') \/ Repeated'
  <2>1. CASE Repeated
    BY <1>0, <2>1 DEF Repeated, TypeOK
  <2>2. CASE Index[q] \in S
    <3>1. PICK p \in Done : Index[p] = Index[q]
      BY <1>1, <2>2 DEF Plausible, DoneIndexes
    <3> QED
      BY <1>2, <3>1 DEF Repeated, Done
  <2>3. CASE ~Repeated /\ Index[q] \notin S
    BY <1>0, <1>1, <2>3, IndexesAreFinite, FS_AddElement DEF Plausible
  <2> QED
    BY <2>1, <2>2, <2>3
<1>9. PartInv'
  <2>1. Plausible(received, parts)'
    BY <1>0, <1>5, <1>7, <1>8 DEF Plausible
  <2>2. ASSUME NEW p \in Puts, pc'[p] = "record", NEW m \in Nat, NEW T,
               m = readReceived[p], T = readParts[p]
        PROVE  Plausible(m, T)'
    <3>1. pc[p] = "record"
      BY <1>0, <2>2 DEF TypeOK
    <3> QED
      BY <1>2, <2>2, <3>1, StaysPlausible DEF PartInv
  <2>3. ASSUME NEW p \in Puts, pc'[p] = "record" PROVE Plausible(readReceived[p], readParts[p])'
    <3>1. readReceived[p] \in Nat
      BY DEF TypeOK
    <3> QED
      BY <1>0, <2>2, <2>3, <3>1 DEF Plausible
  <2> QED
    BY <2>1, <2>3 DEF PartInv
<1>10. EndInv'
  BY <1>0 DEF RecordPart, TypeOK, EndInv, ObjectHasNoGap, CompletedHasObject, Gapless
<1>11. KeptInv'
  BY <1>0 DEF TypeOK, KeptInv, Untouched
<1>12. AckedInv'
  <2>1. q \in Recording /\ Recording' = Recording \ {q} /\ acked' = acked \cup {Index[q]}
    BY <1>0 DEF RecordPart, Recording, TypeOK
  <2>2. Recording' # {} => Index[q] \in MetIndexes
    BY <2>1 DEF AckedInv, MetIndexes
  <2> QED
    BY <1>0, <2>1, <2>2 DEF AckedInv, MetIndexes
<1> QED
  BY <1>6, <1>9, <1>10, <1>11, <1>12

-----------------------------------------------------------------------------
(* The steps of a complete, and what ends a session. *)

\* Requests other than parts, and faults, record no part.
LEMMA OthersKeepParts ==
    ASSUME Inv, UNCHANGED <<parts, received>>,
           \A q \in Puts :
               /\ pc'[q] \in {pc[q], "done"} /\ (pc[q] = "done" => pc'[q] = "done")
               /\ readReceived'[q] = readReceived[q] /\ readParts'[q] = readParts[q]
    PROVE  PartInv'
<1>1. Done \subseteq Done'
  BY DEF Done
<1> QED
  BY <1>1, KeepsParts DEF Inv

LEMMA CompleteInv ==
    ASSUME Inv, NEW c \in Completes, OpenComplete(c) \/ Assemble(c) \/ Upload(c) \/ SettleUpload(c)
    PROVE  Inv'
<1> USE ConstantsAssumption DEF Inv, session, history, Goto, Requests
<1>1. TypeOK'
  BY DEF OpenComplete, Assemble, Upload, SettleUpload, TypeOK
<1>2. PartInv'
  BY OthersKeepParts DEF OpenComplete, Assemble, Upload, SettleUpload, TypeOK
<1>3. EndInv'
  <2>1. CASE OpenComplete(c)
    BY <2>1 DEF OpenComplete, TypeOK, EndInv, ObjectHasNoGap, CompletedHasObject, Gapless
  <2>2. CASE Assemble(c)
    BY <2>2 DEF Assemble, TypeOK, EndInv, ObjectHasNoGap, CompletedHasObject, Gapless
  <2>3. CASE Upload(c)
    <3>1. Gapless(readParts[c]) /\ readParts[c] # None
      BY <2>3 DEF Upload, TypeOK, EndInv
    <3> QED
      BY <2>3, <3>1 DEF Upload, TypeOK, EndInv, ObjectHasNoGap, CompletedHasObject, Gapless
  <2>4. CASE SettleUpload(c)
    BY <2>4 DEF SettleUpload, TypeOK, EndInv, ObjectHasNoGap, CompletedHasObject, Gapless
  <2> QED
    BY <2>1, <2>2, <2>3, <2>4
<1>4. KeptInv'
  BY DEF OpenComplete, Assemble, Upload, SettleUpload, TypeOK, KeptInv, Untouched
<1>5. AckedInv'
  <2>1. CASE OpenComplete(c)
    <3>1. Recording' = Recording /\ UNCHANGED <<parts, acked, met>>
      BY <2>1 DEF OpenComplete, TypeOK, Recording
    <3>2. readParts' = [readParts EXCEPT ![c] = parts] /\ owed' = [owed EXCEPT ![c] = acked]
      BY <2>1 DEF OpenComplete
    <3> QED
      BY <3>1, <3>2 DEF AckedInv, MetIndexes, TypeOK, Recording
  <2>2. CASE Assemble(c) \/ Upload(c) \/ SettleUpload(c)
    BY <2>2, KeepsAcked DEF Assemble, Upload, SettleUpload, TypeOK, Recording
  <2> QED
    BY <2>1, <2>2
<1> QED
  BY <1>1, <1>2, <1>3, <1>4, <1>5

LEMMA AbortInv == ASSUME Inv, NEW a \in Aborts, OpenAbort(a) PROVE Inv'
<1> USE ConstantsAssumption DEF Inv, session, history, Goto, Requests
<1>1. TypeOK'
  BY DEF OpenAbort, TypeOK
<1>2. PartInv'
  BY OthersKeepParts DEF OpenAbort, TypeOK
<1>3. EndInv'
  BY DEF OpenAbort, TypeOK, EndInv, ObjectHasNoGap, CompletedHasObject, Gapless
<1>4. KeptInv'
  BY DEF OpenAbort, TypeOK, KeptInv, Untouched
<1>5. AckedInv'
  BY KeepsAcked DEF OpenAbort, TypeOK, Recording
<1> QED
  BY <1>1, <1>2, <1>3, <1>4, <1>5

LEMMA EndingInv ==
    ASSUME Inv, NEW r \in Completes \cup Aborts, Clean(r) \/ Finish(r) \/ FinishFails(r) PROVE Inv'
<1> USE ConstantsAssumption DEF Inv, session, history, Goto, Requests
<1>0. pc[r] \in {"clean", "finish"} /\ verdict[r] \in {"completed", "aborted"}
  BY DEF Clean, Finish, FinishFails, EndInv
<1>1. TypeOK'
  BY <1>0 DEF Clean, Finish, FinishFails, TypeOK
<1>2. PartInv'
  BY OthersKeepParts DEF Clean, Finish, FinishFails, TypeOK
<1>3. EndInv'
  BY <1>0 DEF Clean, Finish, FinishFails, TypeOK, EndInv, ObjectHasNoGap, CompletedHasObject, Gapless
<1>4. ~Untouched'
  BY <1>0 DEF Clean, Finish, FinishFails, TypeOK, Untouched
<1>5. AckedInv'
  BY KeepsAcked DEF Clean, Finish, FinishFails, TypeOK, Recording
<1> QED
  BY <1>1, <1>2, <1>3, <1>4, <1>5 DEF KeptInv

LEMMA FaultInv == ASSUME Inv, (\E r \in Requests : Fail(r)) \/ Expire \/ Crash PROVE Inv'
<1> USE ConstantsAssumption DEF Inv, session, history, request, Goto
<1>1. TypeOK'
  <2>1. (\E r \in Requests : Fail(r)) \/ Expire => TypeOK'
    BY DEF Fail, Expire, TypeOK
  <2>2. Crash => TypeOK'
    BY DEF Crash, TypeOK
  <2> QED
    BY <2>1, <2>2
<1>2. PartInv'
  BY OthersKeepParts DEF Fail, Expire, Crash, TypeOK, Requests
<1>3. EndInv'
  BY DEF Fail, Expire, Crash, TypeOK, Requests, EndInv, ObjectHasNoGap, CompletedHasObject, Gapless
<1>4. KeptInv'
  BY DEF Fail, Expire, Crash, TypeOK, Requests, KeptInv, Untouched
<1>5. AckedInv'
  BY KeepsAcked DEF Fail, Expire, Crash, TypeOK, Requests, Recording
<1> QED
  BY <1>1, <1>2, <1>3, <1>4, <1>5

LEMMA StepInv == Inv /\ [Next]_vars => Inv'
<1> SUFFICES ASSUME Inv, [Next]_vars PROVE Inv'
  OBVIOUS
<1>1. ASSUME UNCHANGED vars PROVE Inv'
  BY <1>1 DEF vars, session, request, history, Inv, TypeOK, PartInv, Plausible, Done, DoneIndexes,
     Repeated, EndInv, ObjectHasNoGap, CompletedHasObject, Gapless, KeptInv, Untouched, AckedInv,
     Recording, MetIndexes
<1> QED
  BY <1>1, BeforeRecordInv, RecordInv, CompleteInv, AbortInv, EndingInv, FaultInv DEF Next

LEMMA Invariance == Spec => []Inv
BY InitInv, StepInv, PTL DEF Spec

\* Every variable keeps its type: no complete or abort ends a session without a
\* verdict, and the counted parts never exceed the part requests.
THEOREM TypeCorrect == Spec => []TypeOK
<1>1. Inv => TypeOK
  BY DEF Inv
<1> QED
  BY <1>1, Invariance, PTL

\* A stored object has no gap, for its complete looked for gaps in the list it
\* read and assembled that list, whatever the row says by then.
THEOREM ObjectsHaveNoGap == Spec => []ObjectHasNoGap
<1>1. Inv => ObjectHasNoGap
  BY DEF Inv, EndInv
<1> QED
  BY <1>1, Invariance, PTL

\* A session that says completed has its object, unless another complete of it
\* deleted the bytes of both because they were over the quota.
THEOREM CompletedSessionsHaveObjects == Spec => []CompletedHasObject
<1>1. Inv => CompletedHasObject
  BY DEF Inv, EndInv
<1> QED
  BY <1>1, Invariance, PTL

\* An acknowledged part is in the object, unless another part request read the
\* list before it was there and wrote it back after.
THEOREM AcknowledgedPartsAreKept == Spec => []AckedPartsAreKept
<1>1. Inv => AckedPartsAreKept
  BY DEF Inv, AckedInv, MetIndexes, AckedPartsAreKept
<1> QED
  BY <1>1, Invariance, PTL

\* Until something ends it, a session has the part objects it lists.
THEOREM LiveSessionsKeepTheirParts == Spec => []ReportedPartsExist
<1>1. Inv => ReportedPartsExist
  BY DEF Inv, KeptInv, Untouched, ReportedPartsExist
<1> QED
  BY <1>1, Invariance, PTL

\* The bytes a session says it received are those of its parts, unless a part
\* was sent again, also when parts overwrite each other's entries.
THEOREM ReceivedBytesAreTheParts == Spec => []ReceivedAreTheParts
<1>1. Inv => ReceivedAreTheParts
  BY DEF Inv, PartInv, Plausible, Repeated, ReceivedAreTheParts
<1> QED
  BY <1>1, Invariance, PTL
=============================================================================
