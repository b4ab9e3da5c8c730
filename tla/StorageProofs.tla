---------------------------- MODULE StorageProofs ----------------------------
(***************************************************************************)
(* Proofs about Storage, for every set of records and envelopes, every     *)
(* quota and every combination of faults.                                  *)
(*                                                                         *)
(* The inductive invariant says what the catalog, the two versions of the  *)
(* blob and the history agree on at every step of put, delete and recover. *)
(* It has one lemma for each action; the counting of files against the     *)
(* quota is proved on top of it with the cardinality theorems.             *)
(***************************************************************************)
EXTENDS Storage, FiniteSetTheorems, TLAPS

Blobs == Contents \cup {Nothing, Damaged}

Operations ==
    [kind : {"idle", "down", "put", "delete", "recover"},
     at : {"idle", "intent", "temporary", "renamed", "synced", "committed", "marked",
           "unlinked", "deleted", "intents", "deletions", "verify", "orphans"},
     todo : SUBSET Records, content : Contents \cup {Nothing}, open : BOOLEAN]

\* The types, with the operation under way and the counters one by one.
TypeInv ==
    /\ row \in [Records -> [state : {Nothing, "ready", "deleting", "quarantined"},
                            digest : Contents \cup {Nothing}]]
    /\ intent \in [Records -> Contents \cup {Nothing}]
    /\ blob \in [Records -> Blobs]
    /\ durable \in [Records -> Blobs]
    /\ temps \in Nat /\ quarantine \in Nat /\ temps + quarantine <= MaxJunk
    /\ op \in Operations
    /\ written \subseteq Records /\ vouched \subseteq Records /\ indexed \subseteq Records
    /\ marked \subseteq Records
    /\ gone \subseteq Records /\ damaged \subseteq Records

\* The catalog never holds a row and an intent of the same record, and a row
\* always names an envelope.
CatalogInv ==
    \A r \in Records :
        /\ row[r] = NoRow \/ intent[r] = Nothing
        /\ row[r] # NoRow => row[r].state # Nothing /\ row[r].digest \in Contents

\* What a put under way has reached.
PutInv ==
    op.kind = "put" =>
        /\ op.at \in {"intent", "temporary", "renamed", "synced", "committed"}
        /\ op.content \in Contents
        /\ \E r \in Records : op.todo = {r}
        /\ op.at = "temporary" => temps > 0
        /\ \A r \in op.todo :
            /\ op.at # "committed" => row[r] = NoRow /\ intent[r] = op.content
            /\ op.at = "committed" => row[r] = Row("ready", op.content)
            /\ op.at = "temporary" => blob[r] = Nothing
            /\ op.at \in {"renamed", "synced", "committed"} =>
                   r \in damaged \/ blob[r] = op.content
            /\ op.at \in {"synced", "committed"} =>
                   r \in damaged \/ durable[r] = op.content

\* What a delete under way has reached.
DeleteInv ==
    op.kind = "delete" =>
        /\ op.at \in {"marked", "unlinked", "synced", "deleted"}
        /\ \E r \in Records : op.todo = {r}
        /\ \A r \in op.todo :
            /\ intent[r] = Nothing
            /\ op.at # "deleted" => row[r].state = "deleting"
            /\ op.at = "deleted" => row[r] = NoRow
            /\ op.at # "marked" => blob[r] = Nothing
            /\ op.at \in {"synced", "deleted"} => durable[r] = Nothing

\* What is left to do in the phase of a recovery under way.
RecoverInv ==
    op.kind = "recover" =>
        /\ op.at \in {"intents", "deletions", "unlinked", "verify", "orphans"}
        /\ op.at = "unlinked" => \E r \in Records : op.todo = {r}
        /\ \A r \in op.todo :
            /\ op.at = "intents" => intent[r] # Nothing
            /\ op.at \in {"deletions", "unlinked"} => row[r].state = "deleting"
            /\ op.at = "unlinked" /\ "unlink" \notin faults => blob[r] = Nothing
            /\ op.at = "verify" => Visible(r)
            /\ op.at = "orphans" => row[r] = NoRow /\ intent[r] = Nothing /\ blob[r] # Nothing

\* The row that a put committed is ready with its durable blob.  The row that a
\* recovery inserted has its blob as long as the power stays.
ReadyInv ==
    "read" \notin faults =>
        \A r \in Records \ damaged :
            Visible(r) =>
                /\ r \notin indexed => blob[r] = row[r].digest /\ durable[r] = row[r].digest
                /\ "power" \notin faults => blob[r] = row[r].digest

\* A record that put vouches for by its own write has a ready row.
WrittenInv ==
    "read" \notin faults =>
        \A r \in written \ (damaged \cup vouched) :
            r \notin indexed \/ "power" \notin faults => Visible(r)

\* Of a deleted record nothing is left, neither in the catalog nor on the disk.
GoneInv ==
    \A r \in gone :
        row[r] = NoRow /\ intent[r] = Nothing /\ blob[r] = Nothing /\ durable[r] = Nothing

\* Without power losses and failing unlinks: a deletion that began is still
\* marked as such, or neither the row nor the blob is left.
MarkedInv ==
    faults \cap {"power", "unlink"} = {} =>
        \A r \in marked :
            /\ intent[r] = Nothing
            /\ row[r].state = "deleting" \/ (row[r] = NoRow /\ blob[r] = Nothing)

\* The inductive invariant, apart from the counting of files.
IInv ==
    /\ TypeInv
    /\ CatalogInv
    /\ PutInv
    /\ DeleteInv
    /\ RecoverInv
    /\ ReadyInv
    /\ WrittenInv
    /\ GoneInv
    /\ MarkedInv

\* The files are within the quota, and a put that has stored its intent has
\* room for one more.
FilesInv ==
    "power" \notin faults =>
        /\ FilesOnDisk <= Quota
        /\ Running("put", "intent") => FilesOnDisk + 1 <= Quota

-----------------------------------------------------------------------------
\* Between operations nothing is left to do.
LEMMA RestingOperations ==
    /\ Idle \in Operations /\ Idle.kind = "idle"
    /\ Down \in Operations /\ Down.kind = "down"
BY DEF Idle, Down, Operations

\* A put that finds its digest in the catalog changes the history only.
LEMMA PutRepeatedInv ==
    ASSUME IInv, NEW r \in Records, NEW c \in Contents, PutRepeated(r, c), UNCHANGED faults
    PROVE  IInv'
<1> USE DEF IInv, disk, PutRepeated
<1>1. TypeInv'
  BY DEF TypeInv
<1>2. CatalogInv' /\ PutInv' /\ DeleteInv' /\ RecoverInv'
  BY DEF CatalogInv, PutInv, DeleteInv, RecoverInv, Visible
<1>3. ReadyInv' /\ GoneInv' /\ MarkedInv'
  BY DEF ReadyInv, GoneInv, MarkedInv, Visible
<1>4. WrittenInv'
  BY DEF WrittenInv, Visible
<1> QED
  BY <1>1, <1>2, <1>3, <1>4

\* A put begins: the record is in no table, so nothing else speaks of it.
LEMMA PutIntentInv ==
    ASSUME IInv, NEW r \in Records, NEW c \in Contents, PutIntent(r, c), UNCHANGED faults
    PROVE  IInv'
<1> USE ContentsAssumption, QuotaAssumption
    DEF IInv, TypeInv, Operations, Blobs, Nothing, Damaged, NoRow, Row, Visible, Running, disk, history,
        PutIntent, Idle
<1>1. TypeInv'
  OBVIOUS
<1>2. CatalogInv'
  BY DEF CatalogInv
<1>3. PutInv'
  BY DEF PutInv
<1>4. DeleteInv'
  BY DEF DeleteInv
<1>5. RecoverInv'
  BY DEF RecoverInv
<1>6. ReadyInv' /\ WrittenInv'
  BY DEF ReadyInv, WrittenInv
<1>7. GoneInv'
  BY DEF GoneInv
<1>8. MarkedInv'
  BY DEF MarkedInv
<1> QED
  BY <1>1, <1>2, <1>3, <1>4, <1>5, <1>6, <1>7, <1>8

\* The temporary file of a put.
LEMMA PutTemporaryInv ==
    ASSUME IInv, PutTemporary, UNCHANGED faults
    PROVE  IInv'
<1> USE ContentsAssumption, QuotaAssumption
    DEF IInv, TypeInv, Operations, Blobs, Nothing, Damaged, NoRow, Row, Visible, Running, disk, history,
        PutTemporary
<1>1. TypeInv'
  OBVIOUS
<1>2. CatalogInv'
  BY DEF CatalogInv
<1>3. PutInv'
  BY DEF PutInv
<1>4. DeleteInv'
  BY DEF DeleteInv
<1>5. RecoverInv'
  BY DEF RecoverInv
<1>6. ReadyInv' /\ WrittenInv'
  BY DEF ReadyInv, WrittenInv
<1>7. GoneInv'
  BY DEF GoneInv
<1>8. MarkedInv'
  BY DEF MarkedInv
<1> QED
  BY <1>1, <1>2, <1>3, <1>4, <1>5, <1>6, <1>7, <1>8

\* The rename gives the record its blob.
LEMMA PutRenameInv ==
    ASSUME IInv, PutRename, UNCHANGED faults
    PROVE  IInv'
<1> USE ContentsAssumption, QuotaAssumption
    DEF IInv, TypeInv, Operations, Blobs, Nothing, Damaged, NoRow, Row, Visible, Running, disk, history,
        PutRename
<1>1. TypeInv'
  BY DEF PutInv
<1>2. CatalogInv'
  BY DEF CatalogInv
<1>3. PutInv'
  BY DEF PutInv
<1>4. DeleteInv'
  BY DEF DeleteInv
<1>5. RecoverInv'
  BY DEF RecoverInv
<1>6. ReadyInv' /\ WrittenInv'
  BY DEF ReadyInv, WrittenInv, PutInv
<1>7. GoneInv'
  BY DEF GoneInv, PutInv
<1>8. MarkedInv'
  BY DEF MarkedInv, PutInv
<1> QED
  BY <1>1, <1>2, <1>3, <1>4, <1>5, <1>6, <1>7, <1>8

\* The rename is made durable.
LEMMA PutSyncInv ==
    ASSUME IInv, PutSync, UNCHANGED faults
    PROVE  IInv'
<1> USE ContentsAssumption, QuotaAssumption
    DEF IInv, TypeInv, Operations, Blobs, Nothing, Damaged, NoRow, Row, Visible, Running, disk, history,
        PutSync, FsyncDirectory
<1>1. TypeInv'
  <2>1. op' \in Operations
    OBVIOUS
  <2>2. durable' \in [Records -> Blobs]
    OBVIOUS
  <2> QED
    BY <2>1, <2>2
<1>2. CatalogInv'
  BY DEF CatalogInv
<1>3. PutInv'
  BY DEF PutInv
<1>4. DeleteInv'
  BY DEF DeleteInv
<1>5. RecoverInv'
  BY DEF RecoverInv
<1>6. ReadyInv' /\ WrittenInv'
  BY DEF ReadyInv, WrittenInv, PutInv
<1>7. GoneInv'
  BY DEF GoneInv, PutInv
<1>8. MarkedInv'
  BY DEF MarkedInv
<1> QED
  BY <1>1, <1>2, <1>3, <1>4, <1>5, <1>6, <1>7, <1>8

\* The row replaces the intent.
LEMMA PutCommitInv ==
    ASSUME IInv, PutCommit, UNCHANGED faults
    PROVE  IInv'
<1> USE ContentsAssumption, QuotaAssumption
    DEF IInv, TypeInv, Operations, Blobs, Nothing, Damaged, NoRow, Row, Visible, Running, disk, history,
        PutCommit
<1>1. TypeInv'
  BY DEF PutInv
<1>2. CatalogInv'
  BY DEF CatalogInv, PutInv
<1>3. PutInv'
  BY DEF PutInv
<1>4. DeleteInv'
  BY DEF DeleteInv
<1>5. RecoverInv'
  BY DEF RecoverInv
<1>6. ReadyInv' /\ WrittenInv'
  BY DEF ReadyInv, WrittenInv, PutInv
<1>7. GoneInv'
  BY DEF GoneInv, PutInv
<1>8. MarkedInv'
  BY DEF MarkedInv, PutInv
<1> QED
  BY <1>1, <1>2, <1>3, <1>4, <1>5, <1>6, <1>7, <1>8

\* Put tells its caller, with the row, the blob and its durable version in place.
LEMMA PutReturnsInv ==
    ASSUME IInv, PutReturns, UNCHANGED faults
    PROVE  IInv'
<1> USE ContentsAssumption, QuotaAssumption
    DEF IInv, TypeInv, Operations, Blobs, Nothing, Damaged, NoRow, Row, Visible, Running, disk, history,
        PutReturns, Idle
<1>1. TypeInv'
  OBVIOUS
<1>2. CatalogInv'
  BY DEF CatalogInv
<1>3. PutInv'
  BY DEF PutInv
<1>4. DeleteInv'
  BY DEF DeleteInv
<1>5. RecoverInv'
  BY DEF RecoverInv
<1>6. ReadyInv' /\ WrittenInv'
  BY DEF ReadyInv, WrittenInv, PutInv
<1>7. GoneInv'
  BY DEF GoneInv
<1>8. MarkedInv'
  BY DEF MarkedInv
<1> QED
  BY <1>1, <1>2, <1>3, <1>4, <1>5, <1>6, <1>7, <1>8

\* A read that quarantines touches no record whose blob decodes.
LEMMA GetQuarantinesInv ==
    ASSUME IInv, NEW r \in Records, GetQuarantines(r), UNCHANGED faults
    PROVE  IInv'
<1> USE ContentsAssumption, QuotaAssumption
    DEF IInv, TypeInv, Operations, Blobs, Nothing, Damaged, NoRow, Row, Visible, Running, disk, history,
        GetQuarantines, QuarantinePath, MayNotDecode, Decodes, Idle
<1>1. TypeInv'
  <2>1. row' \in [Records -> [state : {Nothing, "ready", "deleting", "quarantined"},
                            digest : Contents \cup {Nothing}]]
    OBVIOUS
  <2>2. blob' \in [Records -> Blobs]
    OBVIOUS
  <2>3. quarantine' \in Nat /\ temps' + quarantine' <= MaxJunk
    OBVIOUS
  <2> QED
    BY <2>1, <2>2, <2>3
<1>2. CatalogInv'
  BY DEF CatalogInv
<1>3. PutInv'
  BY DEF PutInv
<1>4. DeleteInv'
  BY DEF DeleteInv
<1>5. RecoverInv'
  BY DEF RecoverInv
<1>6. ReadyInv' /\ WrittenInv'
  <2>1. "read" \notin faults => r \in damaged \/ (r \in indexed /\ "power" \in faults)
    BY DEF ReadyInv
  <2>2. \A x \in Records \ {r} : row'[x] = row[x] /\ blob'[x] = blob[x]
    OBVIOUS
  <2>3. UNCHANGED <<durable, written, vouched, indexed, damaged>>
    OBVIOUS
  <2>4. ReadyInv'
    BY <2>1, <2>2, <2>3 DEF ReadyInv
  <2>5. WrittenInv'
    BY <2>1, <2>2, <2>3 DEF WrittenInv
  <2> QED
    BY <2>4, <2>5
<1>7. GoneInv'
  BY DEF GoneInv
<1>8. MarkedInv'
  BY DEF MarkedInv
<1> QED
  BY <1>1, <1>2, <1>3, <1>4, <1>5, <1>6, <1>7, <1>8

\* A deletion begins.
LEMMA DeleteMarkInv ==
    ASSUME IInv, NEW r \in Records, DeleteMark(r), UNCHANGED faults
    PROVE  IInv'
<1> USE ContentsAssumption, QuotaAssumption
    DEF IInv, TypeInv, Operations, Blobs, Nothing, Damaged, NoRow, Row, Visible, Running, disk, history,
        DeleteMark, Idle
<1>1. TypeInv'
  OBVIOUS
<1>2. CatalogInv'
  BY DEF CatalogInv
<1>3. PutInv'
  BY DEF PutInv
<1>4. DeleteInv'
  BY DEF DeleteInv, CatalogInv
<1>5. RecoverInv'
  BY DEF RecoverInv
<1>6. ReadyInv' /\ WrittenInv'
  BY DEF ReadyInv, WrittenInv
<1>7. GoneInv'
  BY DEF GoneInv
<1>8. MarkedInv'
  BY DEF MarkedInv, CatalogInv
<1> QED
  BY <1>1, <1>2, <1>3, <1>4, <1>5, <1>6, <1>7, <1>8

\* The blob of a deletion is unlinked.
LEMMA DeleteUnlinkInv ==
    ASSUME IInv, DeleteUnlink, UNCHANGED faults
    PROVE  IInv'
<1> USE ContentsAssumption, QuotaAssumption
    DEF IInv, TypeInv, Operations, Blobs, Nothing, Damaged, NoRow, Row, Visible, Running, disk, history,
        DeleteUnlink
<1>1. TypeInv'
  OBVIOUS
<1>2. CatalogInv'
  BY DEF CatalogInv
<1>3. PutInv'
  BY DEF PutInv
<1>4. DeleteInv'
  BY DEF DeleteInv
<1>5. RecoverInv'
  BY DEF RecoverInv
<1>6. ReadyInv' /\ WrittenInv'
  BY DEF ReadyInv, WrittenInv, DeleteInv
<1>7. GoneInv'
  BY DEF GoneInv, DeleteInv
<1>8. MarkedInv'
  BY DEF MarkedInv
<1> QED
  BY <1>1, <1>2, <1>3, <1>4, <1>5, <1>6, <1>7, <1>8

\* The unlink is made durable.
LEMMA DeleteSyncInv ==
    ASSUME IInv, DeleteSync, UNCHANGED faults
    PROVE  IInv'
<1> USE ContentsAssumption, QuotaAssumption
    DEF IInv, TypeInv, Operations, Blobs, Nothing, Damaged, NoRow, Row, Visible, Running, disk, history,
        DeleteSync, FsyncDirectory
<1>1. TypeInv'
  <2>1. op' \in Operations
    OBVIOUS
  <2>2. durable' \in [Records -> Blobs]
    OBVIOUS
  <2> QED
    BY <2>1, <2>2
<1>2. CatalogInv'
  BY DEF CatalogInv
<1>3. PutInv'
  BY DEF PutInv
<1>4. DeleteInv'
  BY DEF DeleteInv
<1>5. RecoverInv'
  BY DEF RecoverInv
<1>6. ReadyInv' /\ WrittenInv'
  BY DEF ReadyInv, WrittenInv, DeleteInv
<1>7. GoneInv'
  BY DEF GoneInv, DeleteInv
<1>8. MarkedInv'
  BY DEF MarkedInv
<1> QED
  BY <1>1, <1>2, <1>3, <1>4, <1>5, <1>6, <1>7, <1>8

\* The row goes last.
LEMMA DeleteRowInv ==
    ASSUME IInv, DeleteRow, UNCHANGED faults
    PROVE  IInv'
<1> USE ContentsAssumption, QuotaAssumption
    DEF IInv, TypeInv, Operations, Blobs, Nothing, Damaged, NoRow, Row, Visible, Running, disk, history,
        DeleteRow
<1>1. TypeInv'
  OBVIOUS
<1>2. CatalogInv'
  BY DEF CatalogInv, DeleteInv
<1>3. PutInv'
  BY DEF PutInv
<1>4. DeleteInv'
  BY DEF DeleteInv
<1>5. RecoverInv'
  BY DEF RecoverInv
<1>6. ReadyInv' /\ WrittenInv'
  BY DEF ReadyInv, WrittenInv, DeleteInv
<1>7. GoneInv'
  BY DEF GoneInv
<1>8. MarkedInv'
  BY DEF MarkedInv, DeleteInv
<1> QED
  BY <1>1, <1>2, <1>3, <1>4, <1>5, <1>6, <1>7, <1>8

\* Delete tells its caller.
LEMMA DeleteReturnsInv ==
    ASSUME IInv, DeleteReturns, UNCHANGED faults
    PROVE  IInv'
<1> USE ContentsAssumption, QuotaAssumption
    DEF IInv, TypeInv, Operations, Blobs, Nothing, Damaged, NoRow, Row, Visible, Running, disk, history,
        DeleteReturns, Idle
<1>1. TypeInv'
  OBVIOUS
<1>2. CatalogInv'
  BY DEF CatalogInv
<1>3. PutInv'
  BY DEF PutInv
<1>4. DeleteInv'
  BY DEF DeleteInv
<1>5. RecoverInv'
  BY DEF RecoverInv
<1>6. ReadyInv' /\ WrittenInv'
  BY DEF ReadyInv, WrittenInv
<1>7. GoneInv'
  BY DEF GoneInv, DeleteInv
<1>8. MarkedInv'
  BY DEF MarkedInv
<1> QED
  BY <1>1, <1>2, <1>3, <1>4, <1>5, <1>6, <1>7, <1>8

\* A failed operation leaves the disk as it is.
LEMMA OperationFailsInv ==
    ASSUME IInv, OperationFails, UNCHANGED faults
    PROVE  IInv'
<1> USE ContentsAssumption, QuotaAssumption
    DEF IInv, TypeInv, Operations, Blobs, Nothing, Damaged, NoRow, Row, Visible, Running, disk, history,
        OperationFails, Raised, Idle, Down
<1>1. TypeInv'
  OBVIOUS
<1>2. CatalogInv'
  BY DEF CatalogInv
<1>3. PutInv'
  BY DEF PutInv
<1>4. DeleteInv'
  BY DEF DeleteInv
<1>5. RecoverInv'
  BY DEF RecoverInv
<1>6. ReadyInv' /\ WrittenInv'
  BY DEF ReadyInv, WrittenInv
<1>7. GoneInv'
  BY DEF GoneInv
<1>8. MarkedInv'
  BY DEF MarkedInv
<1> QED
  BY <1>1, <1>2, <1>3, <1>4, <1>5, <1>6, <1>7, <1>8

\* Recovery begins with the write intents.
LEMMA RecoverBeginInv ==
    ASSUME IInv, RecoverBegin, UNCHANGED faults
    PROVE  IInv'
<1> USE ContentsAssumption, QuotaAssumption
    DEF IInv, TypeInv, Operations, Blobs, Nothing, Damaged, NoRow, Row, Visible, Running, disk, history,
        RecoverBegin, Phase, Idle, Down
<1>1. TypeInv'
  OBVIOUS
<1>2. CatalogInv'
  BY DEF CatalogInv
<1>3. PutInv'
  BY DEF PutInv
<1>4. DeleteInv'
  BY DEF DeleteInv
<1>5. RecoverInv'
  BY DEF RecoverInv
<1>6. ReadyInv' /\ WrittenInv'
  BY DEF ReadyInv, WrittenInv
<1>7. GoneInv'
  BY DEF GoneInv
<1>8. MarkedInv'
  BY DEF MarkedInv
<1> QED
  BY <1>1, <1>2, <1>3, <1>4, <1>5, <1>6, <1>7, <1>8

\* An intent is resolved.
LEMMA RecoverIntentInv ==
    ASSUME IInv, NEW r \in Records, RecoverIntent(r), UNCHANGED faults
    PROVE  IInv'
<1> USE ContentsAssumption, QuotaAssumption
    DEF IInv, TypeInv, Operations, Blobs, Nothing, Damaged, NoRow, Row, Visible, Running, disk, history,
        RecoverIntent, QuarantinePath, MayNotDecode, Decodes
<1>1. TypeInv'
  <2>1. row' \in [Records -> [state : {Nothing, "ready", "deleting", "quarantined"},
                            digest : Contents \cup {Nothing}]]
    <3>1. CASE row' = row
      BY <3>1
    <3>2. CASE row' = [row EXCEPT ![r] = IF row[r] = NoRow THEN Row("ready", intent[r]) ELSE row[r]]
      <4>1. (IF row[r] = NoRow THEN Row("ready", intent[r]) ELSE row[r])
               \in [state : {Nothing, "ready", "deleting", "quarantined"},
                    digest : Contents \cup {Nothing}]
        OBVIOUS
      <4> QED
        BY <3>2, <4>1
    <3> QED
      BY <3>1, <3>2
  <2>2. intent' \in [Records -> Contents \cup {Nothing}] /\ blob' \in [Records -> Blobs]
    OBVIOUS
  <2>3. quarantine' \in Nat /\ temps' + quarantine' <= MaxJunk
    OBVIOUS
  <2>4. op' \in Operations
    OBVIOUS
  <2> QED
    BY <2>1, <2>2, <2>3, <2>4
<1>2. CatalogInv'
  BY DEF CatalogInv, RecoverInv
<1>3. PutInv'
  BY DEF PutInv
<1>4. DeleteInv'
  BY DEF DeleteInv
<1>5. RecoverInv'
  BY DEF RecoverInv, CatalogInv
<1>6. ReadyInv' /\ WrittenInv'
  BY DEF ReadyInv, WrittenInv, RecoverInv, CatalogInv
<1>7. GoneInv'
  BY DEF GoneInv, RecoverInv
<1>8. MarkedInv'
  BY DEF MarkedInv, RecoverInv
<1> QED
  BY <1>1, <1>2, <1>3, <1>4, <1>5, <1>6, <1>7, <1>8

\* The interrupted deletions are listed.
LEMMA RecoverDeletionsBeginInv ==
    ASSUME IInv, RecoverDeletionsBegin, UNCHANGED faults
    PROVE  IInv'
<1> USE ContentsAssumption, QuotaAssumption
    DEF IInv, TypeInv, Operations, Blobs, Nothing, Damaged, NoRow, Row, Visible, Running, disk, history,
        RecoverDeletionsBegin, NextPhase, Phase
<1>1. TypeInv'
  OBVIOUS
<1>2. CatalogInv'
  BY DEF CatalogInv
<1>3. PutInv'
  BY DEF PutInv
<1>4. DeleteInv'
  BY DEF DeleteInv
<1>5. RecoverInv'
  BY DEF RecoverInv
<1>6. ReadyInv' /\ WrittenInv'
  BY DEF ReadyInv, WrittenInv
<1>7. GoneInv'
  BY DEF GoneInv
<1>8. MarkedInv'
  BY DEF MarkedInv
<1> QED
  BY <1>1, <1>2, <1>3, <1>4, <1>5, <1>6, <1>7, <1>8

\* The blob of an interrupted deletion is unlinked.
LEMMA RecoverUnlinkInv ==
    ASSUME IInv, NEW r \in Records, RecoverUnlink(r), UNCHANGED faults
    PROVE  IInv'
<1> USE ContentsAssumption, QuotaAssumption
    DEF IInv, TypeInv, Operations, Blobs, Nothing, Damaged, NoRow, Row, Visible, Running, disk, history,
        RecoverUnlink, Phase
<1>1. TypeInv'
  OBVIOUS
<1>2. CatalogInv'
  BY DEF CatalogInv
<1>3. PutInv'
  BY DEF PutInv
<1>4. DeleteInv'
  BY DEF DeleteInv
<1>5. RecoverInv'
  BY DEF RecoverInv
<1>6. ReadyInv' /\ WrittenInv'
  BY DEF ReadyInv, WrittenInv, RecoverInv
<1>7. GoneInv'
  BY DEF GoneInv, RecoverInv
<1>8. MarkedInv'
  BY DEF MarkedInv
<1> QED
  BY <1>1, <1>2, <1>3, <1>4, <1>5, <1>6, <1>7, <1>8

\* The row of an interrupted deletion goes.
LEMMA RecoverRowInv ==
    ASSUME IInv, RecoverRow, UNCHANGED faults
    PROVE  IInv'
<1> USE ContentsAssumption, QuotaAssumption
    DEF IInv, TypeInv, Operations, Blobs, Nothing, Damaged, NoRow, Row, Visible, Running, disk, history,
        RecoverRow, Phase
<1>1. TypeInv'
  OBVIOUS
<1>2. CatalogInv'
  BY DEF CatalogInv
<1>3. PutInv'
  BY DEF PutInv
<1>4. DeleteInv'
  BY DEF DeleteInv
<1>5. RecoverInv'
  BY DEF RecoverInv
<1>6. ReadyInv' /\ WrittenInv'
  BY DEF ReadyInv, WrittenInv, RecoverInv
<1>7. GoneInv'
  BY DEF GoneInv, RecoverInv
<1>8. MarkedInv'
  BY DEF MarkedInv, RecoverInv
<1> QED
  BY <1>1, <1>2, <1>3, <1>4, <1>5, <1>6, <1>7, <1>8

\* The ready rows are listed.
LEMMA RecoverVerifyBeginInv ==
    ASSUME IInv, RecoverVerifyBegin, UNCHANGED faults
    PROVE  IInv'
<1> USE ContentsAssumption, QuotaAssumption
    DEF IInv, TypeInv, Operations, Blobs, Nothing, Damaged, NoRow, Row, Visible, Running, disk, history,
        RecoverVerifyBegin, NextPhase, Phase
<1>1. TypeInv'
  OBVIOUS
<1>2. CatalogInv'
  BY DEF CatalogInv
<1>3. PutInv'
  BY DEF PutInv
<1>4. DeleteInv'
  BY DEF DeleteInv
<1>5. RecoverInv'
  BY DEF RecoverInv
<1>6. ReadyInv' /\ WrittenInv'
  BY DEF ReadyInv, WrittenInv
<1>7. GoneInv'
  BY DEF GoneInv
<1>8. MarkedInv'
  BY DEF MarkedInv
<1> QED
  BY <1>1, <1>2, <1>3, <1>4, <1>5, <1>6, <1>7, <1>8

\* A ready row is compared with its blob.
LEMMA RecoverVerifyInv ==
    ASSUME IInv, NEW r \in Records, RecoverVerify(r), UNCHANGED faults
    PROVE  IInv'
<1> USE ContentsAssumption, QuotaAssumption
    DEF IInv, TypeInv, Operations, Blobs, Nothing, Damaged, NoRow, Row, Visible, Running, disk, history,
        QuarantinePath, MayNotDecode, Decodes
<1> DEFINE Rest == op' = [op EXCEPT !.todo = op.todo \ {r}]
<1>1. CASE Decodes(r, row[r].digest) /\ Rest /\ UNCHANGED <<row, blob, quarantine>>
  <2>1. UNCHANGED <<row, blob, quarantine, intent, durable, temps, history>>
    BY <1>1 DEF RecoverVerify
  <2>2. op.kind = "recover" /\ op.at = "verify"
    BY DEF RecoverVerify
  <2>3. op' \in Operations /\ op'.kind = "recover" /\ op'.at = "verify" /\ op'.todo \subseteq op.todo
    BY <1>1, <2>2
  <2>4. TypeInv' /\ CatalogInv' /\ GoneInv' /\ MarkedInv'
    BY <2>1, <2>3 DEF CatalogInv, GoneInv, MarkedInv
  <2>5. PutInv' /\ DeleteInv' /\ ReadyInv' /\ WrittenInv'
    BY <2>1, <2>3 DEF PutInv, DeleteInv, ReadyInv, WrittenInv
  <2>6. RecoverInv'
    BY <2>1, <2>2, <2>3 DEF RecoverInv
  <2> QED
    BY <2>4, <2>5, <2>6
<1>2. CASE /\ MayNotDecode(r, row[r].digest) /\ QuarantinePath(r)
           /\ row' = [row EXCEPT ![r].state = "quarantined"] /\ Rest
  <2>1. TypeInv'
    <3>1. row' \in [Records -> [state : {Nothing, "ready", "deleting", "quarantined"},
                              digest : Contents \cup {Nothing}]]
      BY <1>2
    <3>2. blob' \in [Records -> Blobs]
      BY <1>2
    <3>3. temps' = temps
      BY DEF RecoverVerify
    <3>4. quarantine' \in Nat /\ temps' + quarantine' <= MaxJunk
      BY <1>2, <3>3
    <3>5. op' \in Operations
      BY <1>2
    <3> QED
      BY <3>1, <3>2, <3>4, <3>5 DEF RecoverVerify
  <2>2. CatalogInv'
    <3>1. row[r] # NoRow /\ row[r].digest \in Contents /\ intent[r] = Nothing
      BY DEF RecoverVerify, RecoverInv, CatalogInv
    <3>2. /\ row'[r].state = "quarantined" /\ row'[r].digest = row[r].digest
          /\ \A x \in Records \ {r} : row'[x] = row[x]
      BY <1>2
    <3>3. intent' = intent
      BY DEF RecoverVerify
    <3> QED
      BY <3>1, <3>2, <3>3 DEF CatalogInv
  <2>3. PutInv' /\ DeleteInv' /\ RecoverInv'
    <3>1. op' = [op EXCEPT !.todo = op.todo \ {r}] /\ op.kind = "recover" /\ op.at = "verify"
      BY <1>2 DEF RecoverVerify
    <3>2. PutInv' /\ DeleteInv'
      BY <3>1 DEF PutInv, DeleteInv
    <3>3. ASSUME NEW x \in op'.todo PROVE row'[x].state = "ready"
      BY <1>2, <3>1, <3>3 DEF RecoverInv
    <3>4. RecoverInv'
      BY <3>1, <3>3 DEF RecoverInv
    <3> QED
      BY <3>2, <3>4
  <2>4. ReadyInv' /\ WrittenInv'
    BY <1>2 DEF RecoverVerify, ReadyInv, WrittenInv
  <2>5. GoneInv' /\ MarkedInv'
    BY <1>2 DEF RecoverVerify, RecoverInv, GoneInv, MarkedInv
  <2> QED
    BY <2>1, <2>2, <2>3, <2>4, <2>5
<1>3. CASE /\ MayNotDecode(r, row[r].digest) /\ QuarantinePath(r)
           /\ op' = Raised /\ UNCHANGED row
  <2>1. op' = Idle \/ op' = Down
    BY <1>3 DEF Raised
  <2>2. TypeInv'
    <3>1. op' \in Operations
      BY <2>1, RestingOperations
    <3> QED
      BY <1>3, <3>1 DEF RecoverVerify
  <2>3. PutInv' /\ DeleteInv' /\ RecoverInv'
    <3>1. op'.kind \in {"idle", "down"}
      BY <2>1, RestingOperations
    <3> QED
      BY <3>1 DEF PutInv, DeleteInv, RecoverInv
  <2>4. CatalogInv' /\ ReadyInv' /\ WrittenInv' /\ GoneInv' /\ MarkedInv'
    BY <1>3 DEF RecoverVerify, RecoverInv, CatalogInv, ReadyInv, WrittenInv, GoneInv, MarkedInv
  <2> QED
    BY <2>2, <2>3, <2>4
<1> QED
  BY <1>1, <1>2, <1>3 DEF RecoverVerify

\* The blobs nobody refers to are listed.
LEMMA RecoverOrphansBeginInv ==
    ASSUME IInv, RecoverOrphansBegin, UNCHANGED faults
    PROVE  IInv'
<1> USE ContentsAssumption, QuotaAssumption
    DEF IInv, TypeInv, Operations, Blobs, Nothing, Damaged, NoRow, Row, Visible, Running, disk, history,
        RecoverOrphansBegin, NextPhase, Phase
<1>1. TypeInv'
  OBVIOUS
<1>2. CatalogInv'
  BY DEF CatalogInv
<1>3. PutInv'
  BY DEF PutInv
<1>4. DeleteInv'
  BY DEF DeleteInv
<1>5. RecoverInv'
  BY DEF RecoverInv
<1>6. ReadyInv' /\ WrittenInv'
  BY DEF ReadyInv, WrittenInv
<1>7. GoneInv'
  BY DEF GoneInv
<1>8. MarkedInv'
  BY DEF MarkedInv
<1> QED
  BY <1>1, <1>2, <1>3, <1>4, <1>5, <1>6, <1>7, <1>8

\* An orphan is indexed or quarantined.
LEMMA RecoverOrphanInv ==
    ASSUME IInv, NEW r \in Records, RecoverOrphan(r), UNCHANGED faults
    PROVE  IInv'
<1> USE ContentsAssumption, QuotaAssumption
    DEF IInv, TypeInv, Operations, Blobs, Nothing, Damaged, NoRow, Row, Visible, Running, disk, history,
        RecoverOrphan, QuarantinePath
<1>1. TypeInv'
  <2>1. row' \in [Records -> [state : {Nothing, "ready", "deleting", "quarantined"},
                            digest : Contents \cup {Nothing}]]
    OBVIOUS
  <2>2. blob' \in [Records -> Blobs]
    OBVIOUS
  <2>3. quarantine' \in Nat /\ temps' + quarantine' <= MaxJunk
    OBVIOUS
  <2>4. op' \in Operations
    OBVIOUS
  <2> QED
    BY <2>1, <2>2, <2>3, <2>4
<1>2. CatalogInv'
  BY DEF CatalogInv, RecoverInv
<1>3. PutInv'
  BY DEF PutInv
<1>4. DeleteInv'
  BY DEF DeleteInv
<1>5. RecoverInv'
  BY DEF RecoverInv
<1>6. ReadyInv' /\ WrittenInv'
  BY DEF ReadyInv, WrittenInv, RecoverInv
<1>7. GoneInv'
  BY DEF GoneInv, RecoverInv
<1>8. MarkedInv'
  <2>1. row[r] = NoRow /\ blob[r] # Nothing
    BY DEF RecoverInv
  <2>2. ASSUME faults \cap {"power", "unlink"} = {} PROVE r \notin marked
    BY <2>1, <2>2 DEF MarkedInv
  <2>3. \A x \in Records \ {r} : row'[x] = row[x] /\ blob'[x] = blob[x]
    OBVIOUS
  <2>4. intent' = intent /\ marked' = marked /\ marked \subseteq Records
    OBVIOUS
  <2> QED
    BY <2>2, <2>3, <2>4 DEF MarkedInv
<1> QED
  BY <1>1, <1>2, <1>3, <1>4, <1>5, <1>6, <1>7, <1>8

\* Recovery ends.
LEMMA RecoverEndsInv ==
    ASSUME IInv, RecoverEnds, UNCHANGED faults
    PROVE  IInv'
<1> USE ContentsAssumption, QuotaAssumption
    DEF IInv, TypeInv, Operations, Blobs, Nothing, Damaged, NoRow, Row, Visible, Running, disk, history,
        RecoverEnds, Idle
<1>1. TypeInv'
  OBVIOUS
<1>2. CatalogInv'
  BY DEF CatalogInv
<1>3. PutInv'
  BY DEF PutInv
<1>4. DeleteInv'
  BY DEF DeleteInv
<1>5. RecoverInv'
  BY DEF RecoverInv
<1>6. ReadyInv' /\ WrittenInv'
  BY DEF ReadyInv, WrittenInv
<1>7. GoneInv'
  BY DEF GoneInv
<1>8. MarkedInv'
  BY DEF MarkedInv
<1> QED
  BY <1>1, <1>2, <1>3, <1>4, <1>5, <1>6, <1>7, <1>8

\* A crash ends the operation; a power loss takes what was not durable.
LEMMA CrashInv ==
    ASSUME IInv, Crash, UNCHANGED faults
    PROVE  IInv'
<1> USE ContentsAssumption, QuotaAssumption
    DEF IInv, TypeInv, Operations, Blobs, Nothing, Damaged, NoRow, Row, Visible, Running, disk, history,
        Crash, Idle, Down
<1>1. TypeInv'
  <2>1. blob' \in [Records -> Blobs] /\ durable' \in [Records -> Blobs]
    OBVIOUS
  <2> QED
    BY <2>1
<1>2. CatalogInv'
  BY DEF CatalogInv
<1>3. PutInv'
  BY DEF PutInv
<1>4. DeleteInv'
  BY DEF DeleteInv
<1>5. RecoverInv'
  BY DEF RecoverInv
<1>6. ReadyInv' /\ WrittenInv'
  BY DEF ReadyInv, WrittenInv
<1>7. GoneInv'
  BY DEF GoneInv
<1>8. MarkedInv'
  BY DEF MarkedInv
<1> QED
  BY <1>1, <1>2, <1>3, <1>4, <1>5, <1>6, <1>7, <1>8

\* Damage is recorded in the history.
LEMMA CorruptInv ==
    ASSUME IInv, NEW r \in Records, Corrupt(r), UNCHANGED faults
    PROVE  IInv'
<1> USE ContentsAssumption, QuotaAssumption
    DEF IInv, TypeInv, Operations, Blobs, Nothing, Damaged, NoRow, Row, Visible, Running, disk, history,
        Corrupt
<1>1. TypeInv'
  OBVIOUS
<1>2. CatalogInv'
  BY DEF CatalogInv
<1>3. PutInv'
  BY DEF PutInv
<1>4. DeleteInv'
  BY DEF DeleteInv
<1>5. RecoverInv'
  BY DEF RecoverInv
<1>6. ReadyInv' /\ WrittenInv'
  BY DEF ReadyInv, WrittenInv
<1>7. GoneInv'
  BY DEF GoneInv
<1>8. MarkedInv'
  BY DEF MarkedInv
<1> QED
  BY <1>1, <1>2, <1>3, <1>4, <1>5, <1>6, <1>7, <1>8

\* A behaviour begins with an empty storage and no process.
LEMMA InitIInv == Init => IInv
<1> SUFFICES ASSUME Init PROVE IInv
  OBVIOUS
<1> USE ContentsAssumption, QuotaAssumption DEF Init, NoRow, Blobs
<1>1. TypeInv
  BY RestingOperations DEF TypeInv, Nothing
<1>2. CatalogInv
  BY DEF CatalogInv
<1>3. PutInv /\ DeleteInv /\ RecoverInv
  BY RestingOperations DEF PutInv, DeleteInv, RecoverInv
<1>4. ReadyInv /\ WrittenInv /\ GoneInv /\ MarkedInv
  BY DEF ReadyInv, Visible, Nothing, WrittenInv, GoneInv, MarkedInv
<1> QED
  BY <1>1, <1>2, <1>3, <1>4 DEF IInv

\* A step that changes nothing keeps the invariant.
LEMMA StutterIInv ==
    ASSUME IInv, UNCHANGED vars
    PROVE  IInv'
BY DEF vars, disk, history, IInv, TypeInv, CatalogInv, PutInv, DeleteInv, RecoverInv, ReadyInv,
       WrittenInv, GoneInv, MarkedInv, Visible

\* Every step of the storage and of its environment keeps the invariant.
LEMMA NextIInv ==
    ASSUME IInv, [Next]_vars
    PROVE  IInv'
<1>1. CASE UNCHANGED vars
  BY <1>1, StutterIInv
<1>2. CASE Next
  <2> USE <1>2 DEF Next
  <2>1. CASE Put
    BY <2>1, PutIntentInv, PutTemporaryInv, PutRenameInv, PutSyncInv, PutCommitInv, PutReturnsInv,
       PutRepeatedInv, StutterIInv DEF Put, PutRefused
  <2>2. CASE Delete
    BY <2>2, DeleteMarkInv, DeleteUnlinkInv, DeleteSyncInv, DeleteRowInv, DeleteReturnsInv DEF Delete
  <2>3. CASE Recover
    BY <2>3, RecoverBeginInv, RecoverIntentInv, RecoverDeletionsBeginInv, RecoverUnlinkInv,
       RecoverRowInv, RecoverVerifyBeginInv, RecoverVerifyInv, RecoverOrphansBeginInv,
       RecoverOrphanInv, RecoverEndsInv DEF Recover
  <2>4. CASE OperationFails \/ Crash
    BY <2>4, OperationFailsInv, CrashInv
  <2>5. CASE \E r \in Records : GetQuarantines(r) \/ Corrupt(r)
    BY <2>5, GetQuarantinesInv, CorruptInv
  <2> QED
    BY <2>1, <2>2, <2>3, <2>4, <2>5
<1> QED
  BY <1>1, <1>2

-----------------------------------------------------------------------------
(* Counting files.                                                         *)

Files == {r \in Records : blob[r] # Nothing}

\* There are finitely many blob files.
LEMMA FilesCounted ==
    /\ IsFiniteSet(Files) /\ Cardinality(Files) \in Nat
    /\ FilesOnDisk = Cardinality(Files) + temps + quarantine
<1>1. IsFiniteSet(Files)
  BY RecordsAssumption, FS_Subset DEF Files
<1> QED
  BY <1>1, FS_CardinalityType DEF FilesOnDisk, Files

\* A file that is moved to the quarantine is counted there.
LEMMA QuarantineKeepsCount ==
    ASSUME TypeInv, NEW r \in Records, QuarantinePath(r), temps' = temps
    PROVE  FilesOnDisk' = FilesOnDisk
<1>1. CASE blob[r] = Nothing
  <2>1. Files' = Files /\ quarantine' = quarantine
    BY <1>1 DEF TypeInv, QuarantinePath, Files
  <2> QED
    BY <2>1 DEF FilesOnDisk, Files
<1>2. CASE blob[r] # Nothing
  <2>1. Files' = Files \ {r} /\ r \in Files /\ quarantine' = quarantine + 1
    BY <1>2 DEF TypeInv, QuarantinePath, Files
  <2>2. Cardinality(Files \ {r}) = Cardinality(Files) - 1
    BY <2>1, FilesCounted, FS_RemoveElement, Zenon
  <2>3. FilesOnDisk = Cardinality(Files) + temps + quarantine /\ Cardinality(Files) \in Nat
    BY FilesCounted
  <2>4. temps \in Nat /\ quarantine \in Nat
    BY DEF TypeInv
  <2>5. FilesOnDisk' = Cardinality(Files') + temps' + quarantine'
    BY DEF FilesOnDisk, Files
  <2> DEFINE n == Cardinality(Files)
  <2>6. FilesOnDisk' = (n - 1) + temps + (quarantine + 1) /\ FilesOnDisk = n + temps + quarantine /\ n \in Nat
    BY <2>1, <2>2, <2>3, <2>5
  <2> HIDE DEF n
  <2> QED
    BY ONLY <2>4, <2>6
<1> QED
  BY <1>1, <1>2

\* Only a rename and a power loss add a file.
LEMMA FilesShrink ==
    ASSUME Files' \subseteq Files
    PROVE  Cardinality(Files)' \in Nat /\ Cardinality(Files)' <= Cardinality(Files)
<1>1. /\ Cardinality(Files') \in Nat /\ Cardinality(Files') <= Cardinality(Files)
  BY FilesCounted, FS_Subset, FS_CardinalityType
<1> QED
  BY <1>1

\* The rename of a put turns its temporary file into a blob.
LEMMA RenameKeepsCount ==
    ASSUME IInv, PutRename
    PROVE  FilesOnDisk' = FilesOnDisk
<1>1. PICK r \in Records : op.todo = {r}
  BY DEF IInv, PutInv, PutRename, Running
<1>2. blob[r] = Nothing /\ op.content # Nothing
  BY <1>1, ContentsAssumption DEF IInv, PutInv, PutRename, Running
<1>3. Files' = Files \cup {r} /\ r \notin Files
  BY <1>1, <1>2 DEF PutRename, Files
<1>4. Cardinality(Files \cup {r}) = Cardinality(Files) + 1
  BY <1>3, FilesCounted, FS_AddElement
<1>5. FilesOnDisk' = Cardinality(Files') + temps' + quarantine'
  BY DEF FilesOnDisk, Files
<1> QED
  BY <1>3, <1>4, <1>5, FilesCounted DEF IInv, TypeInv, PutRename

\* Every step keeps the files within the quota; a put finds its room when it
\* stores its intent, and takes it with the temporary file.
LEMMA NextFilesInv ==
    ASSUME IInv, FilesInv, [Next]_vars
    PROVE  FilesInv'
<1> DEFINE Within == /\ FilesOnDisk' <= Quota
                     /\ Running("put", "intent")' => FilesOnDisk' + 1 <= Quota
<1> SUFFICES ASSUME "power" \notin faults, faults' = faults
             PROVE  Within
  BY DEF FilesInv, Next, vars
<1> USE FilesCounted, QuotaAssumption
<1>0. FilesOnDisk \in Nat /\ FilesOnDisk <= Quota /\ TypeInv
  BY DEF FilesInv, IInv, TypeInv
<1>1. ASSUME FilesOnDisk' \in Nat, FilesOnDisk' <= FilesOnDisk, op'.kind # "put" \/ op'.at # "intent"
      PROVE  Within
  <2>1. ~Running("put", "intent")'
    BY <1>1 DEF Running
  <2>2. FilesOnDisk' <= Quota
    BY <1>0, <1>1
  <2> QED
    BY <2>1, <2>2
<1>2. ASSUME UNCHANGED <<blob, quarantine>>, temps' \in 0 .. temps,
             op'.kind # "put" \/ op'.at # "intent"
      PROVE  Within
  <2>1. FilesOnDisk' = Cardinality(Files) + temps' + quarantine
    BY <1>2 DEF FilesOnDisk, Files
  <2> QED
    BY <1>0, <1>1, <1>2, <2>1 DEF TypeInv
<1>3. ASSUME NEW r \in Records, QuarantinePath(r), temps' = temps, op'.kind # "put"
      PROVE  Within
  BY <1>0, <1>1, <1>3, QuarantineKeepsCount
<1>4. ASSUME Files' \subseteq Files, UNCHANGED <<temps, quarantine>>,
             op'.kind # "put" \/ op'.at # "intent"
      PROVE  Within
  <2>1. FilesOnDisk' = Cardinality(Files)' + temps + quarantine
    BY <1>4 DEF FilesOnDisk, Files
  <2> QED
    BY <1>0, <1>1, <1>4, <2>1, FilesShrink DEF TypeInv
<1>5. ASSUME UNCHANGED vars PROVE Within
  BY <1>0, <1>5 DEF FilesInv, vars, disk, FilesOnDisk, Running
<1> USE <1>0 DEF TypeInv, disk, Running
<1>6. CASE Put
  <2>1. ASSUME NEW r \in Records, NEW c \in Contents, PutIntent(r, c) PROVE Within
    BY <2>1 DEF PutIntent, FilesOnDisk
  <2>2. CASE PutTemporary
    BY <2>2 DEF PutTemporary, FilesInv, FilesOnDisk, Files
  <2>3. CASE PutRename
    BY <2>3, <1>1, RenameKeepsCount DEF PutRename, Operations
  <2>4. CASE PutSync \/ PutCommit
    BY <2>4, <1>2 DEF PutSync, PutCommit, Operations
  <2>5. CASE PutReturns
    BY <2>5, <1>2, RestingOperations DEF PutReturns
  <2>6. ASSUME NEW r \in Records, NEW c \in Contents, PutRepeated(r, c) PROVE Within
    BY <2>6, <1>2, RestingOperations DEF PutRepeated
  <2> QED
    BY <1>6, <1>5, <2>1, <2>2, <2>3, <2>4, <2>5, <2>6 DEF Put, PutRefused
<1>7. CASE Delete
  <2>1. ASSUME NEW r \in Records, DeleteMark(r) PROVE Within
    BY <2>1, <1>2 DEF DeleteMark
  <2>2. CASE DeleteUnlink
    <3>1. Files' \subseteq Files
      BY <2>2 DEF DeleteUnlink, Files
    <3> QED
      BY <2>2, <3>1, <1>4 DEF DeleteUnlink, Operations
  <2>3. CASE DeleteSync \/ DeleteRow
    BY <2>3, <1>2 DEF DeleteSync, DeleteRow, Operations
  <2>4. CASE DeleteReturns
    BY <2>4, <1>2, RestingOperations DEF DeleteReturns
  <2> QED
    BY <1>7, <2>1, <2>2, <2>3, <2>4 DEF Delete
<1>8. CASE Recover
  <2>1. CASE RecoverBegin
    BY <2>1, <1>2 DEF RecoverBegin, Phase
  <2>2. ASSUME NEW r \in Records, RecoverIntent(r) PROVE Within
    <3>1. op'.kind = "recover" /\ temps' = temps
      BY <2>2 DEF RecoverIntent, Operations
    <3> QED
      BY <2>2, <3>1, <1>2, <1>3 DEF RecoverIntent
  <2>3. ASSUME NEW r \in Records, RecoverUnlink(r) PROVE Within
    <3>1. Files' \subseteq Files
      BY <2>3 DEF RecoverUnlink, Files
    <3> QED
      BY <2>3, <3>1, <1>4 DEF RecoverUnlink, Phase
  <2>4. ASSUME NEW r \in Records, RecoverVerify(r) PROVE Within
    <3>1. op'.kind # "put" /\ temps' = temps
      BY <2>4, RestingOperations, Zenon DEF RecoverVerify, Operations, Raised
    <3> QED
      BY <2>4, <3>1, <1>2, <1>3 DEF RecoverVerify
  <2>5. ASSUME NEW r \in Records, RecoverOrphan(r) PROVE Within
    <3>1. op'.kind = "recover" /\ temps' = temps
      BY <2>5 DEF RecoverOrphan, Operations
    <3> QED
      BY <2>5, <3>1, <1>2, <1>3 DEF RecoverOrphan
  <2>6. CASE RecoverDeletionsBegin \/ RecoverVerifyBegin \/ RecoverOrphansBegin \/ RecoverRow
    BY <2>6, <1>2 DEF RecoverDeletionsBegin, RecoverVerifyBegin, RecoverOrphansBegin, RecoverRow,
                      NextPhase, Phase
  <2>7. CASE RecoverEnds
    BY <2>7, <1>2, RestingOperations DEF RecoverEnds
  <2> QED
    BY <1>8, <2>1, <2>2, <2>3, <2>4, <2>5, <2>6, <2>7 DEF Recover
<1>9. CASE OperationFails
  BY <1>9, <1>2, RestingOperations DEF OperationFails, Raised
<1>10. CASE Crash
  BY <1>10, <1>2, RestingOperations DEF Crash
<1>11. ASSUME NEW r \in Records, GetQuarantines(r) PROVE Within
  BY <1>11, <1>3, RestingOperations DEF GetQuarantines
<1>12. ASSUME NEW r \in Records, Corrupt(r) PROVE Within
  <2>1. FilesOnDisk' = FilesOnDisk
    <3>1. Files' = Files
      BY <1>12, ContentsAssumption DEF Corrupt, Files, Nothing, Damaged
    <3> QED
      BY <1>12, <3>1 DEF Corrupt, FilesOnDisk, Files
  <2> QED
    BY <1>12, <2>1 DEF Corrupt, FilesInv
<1> QED
  BY <1>5, <1>6, <1>7, <1>8, <1>9, <1>10, <1>11, <1>12 DEF Next

-----------------------------------------------------------------------------
(* The theorems.                                                           *)

\* The inductive invariant holds in every state of every behaviour.
THEOREM StorageInvariant == Spec => []IInv
<1>1. Init => IInv
  BY InitIInv
<1>2. IInv /\ [Next]_vars => IInv'
  BY NextIInv
<1> QED
  BY <1>1, <1>2, PTL DEF Spec

\* The tables, the files and the operation under way keep their types, for
\* every set of records and whatever fails or crashes.
THEOREM StorageTypes == Spec => []StorageTypeOK
<1>1. IInv => StorageTypeOK
  BY QuotaAssumption DEF IInv, TypeInv, Operations, Blobs, StorageTypeOK
<1> QED
  BY <1>1, StorageInvariant, PTL

\* SQLiteEncryptedStorage.put: once it has returned, the record is readable with
\* that content, now and after any crash or power loss, until delete is called;
\* where put believed a row it did not write, only what WrittenIsDurable says.
THEOREM WrittenRecordsDurable == Spec => []WrittenIsDurable
<1>1. IInv => WrittenIsDurable
  BY DEF IInv, TypeInv, ReadyInv, WrittenInv, WrittenIsDurable
<1> QED
  BY <1>1, StorageInvariant, PTL

\* SQLiteEncryptedStorage.delete: once it has returned, no crash, power loss or
\* recovery brings the record back.
THEOREM DeletedRecordsStayDeleted == Spec => []DeletedStaysDeleted
<1>1. IInv => DeletedStaysDeleted
  BY DEF IInv, GoneInv, DeletedStaysDeleted, Visible, NoRow, Nothing
<1> QED
  BY <1>1, StorageInvariant, PTL

\* _finish_deletions: as long as unlinks succeed and the power stays, a deletion
\* that began is never undone, wherever the process dies.
THEOREM InterruptedDeletesComplete == Spec => []RestartCompletesDelete
<1>1. IInv => RestartCompletesDelete
  BY DEF IInv, MarkedInv, RestartCompletesDelete, InterruptedDeleteCompletes, Visible, NoRow, Nothing
<1> QED
  BY <1>1, StorageInvariant, PTL

\* _check_quota: blobs, temporary files and quarantined files together stay
\* within the quota in every step of put, delete and recover.
THEOREM FilesWithinQuota == Spec => []QuotaHolds
<1>1. Init => FilesInv
  <2>1. ASSUME Init PROVE FilesOnDisk = 0 /\ ~Running("put", "intent")
    <3>1. {r \in Records : blob[r] # Nothing} = {}
      BY <2>1 DEF Init
    <3> QED
      BY <2>1, <3>1, FS_EmptySet, RestingOperations DEF Init, FilesOnDisk, Running
  <2> QED
    BY <2>1, QuotaAssumption DEF FilesInv
<1>2. IInv /\ FilesInv /\ [Next]_vars => FilesInv'
  BY NextFilesInv
<1>3. FilesInv => QuotaHolds
  BY DEF FilesInv, QuotaHolds
<1> QED
  BY <1>1, <1>2, <1>3, StorageInvariant, PTL DEF Spec
=============================================================================
