------------------------------- MODULE Storage -------------------------------
(***************************************************************************)
(* SQLiteEncryptedStorage (storage/): the SQLite catalog (rows and write   *)
(* intents), the blob files beside it, the operations put, get, delete and  *)
(* recover, and what crashes and failing system calls do between their      *)
(* steps.                                                                   *)
(*                                                                         *)
(* One lock serialises the operations, so at most one is under way (`op').  *)
(* A committed SQLite transaction is durable (WAL, synchronous FULL).  Of a *)
(* blob file there are two versions: the one processes see (`blob') and the *)
(* one that survives a power loss (`durable'), made equal by                *)
(* fsync_directory.  An envelope is a member of Contents; its digest is     *)
(* itself.  Sizes are counted in blobs.                                     *)
(***************************************************************************)
EXTENDS Integers, FiniteSets

CONSTANTS
    Records,        \* record identifiers
    Contents,       \* envelopes (their encoding and digest)
    Quota,          \* quota_bytes, in blobs
    Environments,   \* what may go wrong in a behaviour: "power", "unlink", "read", "corrupt"
    MaxJunk         \* bound on leftover temporary and quarantined files

Nothing == "nothing"
Damaged == "damaged"
ASSUME ContentsAssumption == {Nothing, Damaged} \cap Contents = {}
ASSUME RecordsAssumption == IsFiniteSet(Records)
ASSUME QuotaAssumption == Quota \in Nat \ {0} /\ MaxJunk \in Nat
ASSUME EnvironmentsAssumption ==
    Environments \subseteq SUBSET {"power", "unlink", "read", "corrupt"}

VARIABLES
    faults,      \* what may go wrong in this behaviour
    row,         \* records table: state, and digest
    intent,      \* write_intents table: digest, or Nothing
    blob,        \* blob file as processes see it
    durable,     \* blob file as a power loss leaves it
    temps,       \* files in tmp/
    quarantine,  \* files in quarantine/
    op,          \* the operation under way, or "idle"; "down" without a process
    \* history
    written,     \* put of the record succeeded and no deletion of it began since
    vouched,     \* that success was read off a row that is not ready
    indexed,     \* the row of the record was inserted by a recovery, not by put
    marked,      \* a deletion of the record began and no put of it was tried since
    gone,        \* delete reported the record deleted and no put was tried since
    damaged      \* the environment damaged the blob

disk == <<row, intent, blob, durable, temps, quarantine>>
history == <<written, vouched, indexed, marked, gone, damaged>>
vars == <<faults, disk, op, history>>

NoRow == [state |-> Nothing, digest |-> Nothing]
Row(s, c) == [state |-> s, digest |-> c]
Idle == [kind |-> "idle", at |-> "idle", todo |-> {}, content |-> Nothing, open |-> TRUE]
Down == [Idle EXCEPT !.kind = "down", !.open = FALSE]

\* What an operation that raises leaves: the storage object, or none if it was
\* being constructed.
Raised == IF op.open THEN Idle ELSE Down

Visible(r) == row[r].state = "ready"

Init ==
    /\ faults \in Environments
    /\ row = [r \in Records |-> NoRow]
    /\ intent = [r \in Records |-> Nothing]
    /\ blob = [r \in Records |-> Nothing]
    /\ durable = [r \in Records |-> Nothing]
    /\ temps = 0
    /\ quarantine = 0
    /\ op = Down
    /\ written = {}
    /\ vouched = {}
    /\ indexed = {}
    /\ marked = {}
    /\ gone = {}
    /\ damaged = {}

-----------------------------------------------------------------------------
(* Files.                                                                  *)

FilesOnDisk == Cardinality({r \in Records : blob[r] # Nothing}) + temps + quarantine

FsyncDirectory(r) == durable' = [durable EXCEPT ![r] = blob[r]]

\* quarantine_path: the file, if there is one, leaves the shard.  Only the
\* quarantine directory is synchronised.
QuarantinePath(r) ==
    /\ blob' = [blob EXCEPT ![r] = Nothing]
    /\ quarantine' = IF blob[r] # Nothing THEN quarantine + 1 ELSE quarantine
    /\ blob[r] # Nothing => temps + quarantine < MaxJunk

\* The blob can be read and has the digest.  A read may fail by itself.
Decodes(r, digest) == blob[r] = digest
MayNotDecode(r, digest) == ~Decodes(r, digest) \/ "read" \in faults

-----------------------------------------------------------------------------
(* put.                                                                    *)

Running(kind, at) == op.kind = kind /\ op.at = at

\* Another envelope of the record is in the catalog, the quota is used up, or an
\* intent of an earlier attempt is in the way: put raises and nothing changes.
PutRefused(r, c) ==
    /\ op = Idle
    /\ \/ row[r] # NoRow /\ row[r].digest # c
       \/ row[r] = NoRow /\ (FilesOnDisk + 1 > Quota \/ intent[r] # Nothing)
    /\ UNCHANGED vars

\* The row has the digest of the envelope: put succeeds without a write and
\* without a look at the row's state or at the blob.
PutRepeated(r, c) ==
    /\ op = Idle
    /\ row[r] # NoRow /\ row[r].digest = c
    /\ written' = written \cup {r}
    /\ vouched' = IF Visible(r) THEN vouched ELSE vouched \cup {r}
    /\ UNCHANGED <<disk, op, indexed, marked, gone, damaged>>

\* Mutant of PutIntent: quarantined files are not counted.
PutOverQuota(r, c) ==
    /\ op = Idle
    /\ row[r] = NoRow /\ intent[r] = Nothing
    /\ FilesOnDisk + 1 <= Quota + quarantine
    /\ intent' = [intent EXCEPT ![r] = c]
    /\ op' = [kind |-> "put", at |-> "intent", todo |-> {r}, content |-> c,
              open |-> TRUE]
    /\ marked' = marked \ {r}
    /\ gone' = gone \ {r}
    /\ UNCHANGED <<row, blob, durable, temps, quarantine, written, vouched, indexed, damaged>>

PutIntent(r, c) ==
    /\ op = Idle
    /\ row[r] = NoRow /\ intent[r] = Nothing
    /\ FilesOnDisk + 1 <= Quota
    /\ intent' = [intent EXCEPT ![r] = c]
    /\ op' = [kind |-> "put", at |-> "intent", todo |-> {r}, content |-> c,
              open |-> TRUE]
    /\ marked' = marked \ {r}
    /\ gone' = gone \ {r}
    /\ UNCHANGED <<row, blob, durable, temps, quarantine, written, vouched, indexed, damaged>>

\* write_blob_atomically: the temporary file is written and synchronised ...
PutTemporary ==
    /\ Running("put", "intent")
    /\ \A r \in op.todo : blob[r] = Nothing
    /\ temps + quarantine < MaxJunk
    /\ temps' = temps + 1
    /\ op' = [op EXCEPT !.at = "temporary"]
    /\ UNCHANGED <<row, intent, blob, durable, quarantine, history>>

\* ... renamed ...
PutRename ==
    /\ Running("put", "temporary")
    /\ temps' = temps - 1
    /\ blob' = [r \in Records |-> IF r \in op.todo THEN op.content ELSE blob[r]]
    /\ op' = [op EXCEPT !.at = "renamed"]
    /\ UNCHANGED <<row, intent, durable, quarantine, history>>

\* Mutant of PutSync: the shard directory is not synchronised.
PutNoSync ==
    /\ Running("put", "renamed")
    /\ op' = [op EXCEPT !.at = "synced"]
    /\ UNCHANGED <<disk, history>>

\* ... and the rename made durable.
PutSync ==
    /\ Running("put", "renamed")
    /\ \E r \in op.todo : FsyncDirectory(r)
    /\ op' = [op EXCEPT !.at = "synced"]
    /\ UNCHANGED <<row, intent, blob, temps, quarantine, history>>

\* The ready row is inserted and the intent removed in one transaction.
PutCommit ==
    /\ Running("put", "synced")
    /\ row' = [r \in Records |-> IF r \in op.todo THEN Row("ready", op.content) ELSE row[r]]
    /\ intent' = [r \in Records |-> IF r \in op.todo THEN Nothing ELSE intent[r]]
    /\ op' = [op EXCEPT !.at = "committed"]
    /\ indexed' = indexed \ op.todo
    /\ UNCHANGED <<blob, durable, temps, quarantine, written, vouched, marked, gone, damaged>>

PutReturns ==
    /\ Running("put", "committed")
    /\ op' = Idle
    /\ written' = written \cup op.todo
    /\ vouched' = vouched \ op.todo
    /\ UNCHANGED <<disk, indexed, marked, gone, damaged>>

-----------------------------------------------------------------------------
(* get and the other reads.                                                *)

\* A ready row whose blob does not decode is quarantined; the update of the row
\* may still fail when the file has been moved.
GetQuarantines(r) ==
    /\ op = Idle
    /\ Visible(r)
    /\ MayNotDecode(r, row[r].digest)
    /\ QuarantinePath(r)
    /\ row' \in {[row EXCEPT ![r].state = "quarantined"], row}
    /\ UNCHANGED <<intent, durable, temps, op, history>>

-----------------------------------------------------------------------------
(* delete.                                                                 *)

DeleteMark(r) ==
    /\ op = Idle
    /\ row[r] # NoRow
    /\ row' = [row EXCEPT ![r].state = "deleting"]
    /\ op' = [kind |-> "delete", at |-> "marked", todo |-> {r}, content |-> Nothing,
              open |-> TRUE]
    /\ written' = written \ {r}
    /\ vouched' = vouched \ {r}
    /\ marked' = marked \cup {r}
    /\ UNCHANGED <<intent, blob, durable, temps, quarantine, indexed, gone, damaged>>

DeleteUnlink ==
    /\ Running("delete", "marked")
    /\ blob' = [r \in Records |-> IF r \in op.todo THEN Nothing ELSE blob[r]]
    /\ op' = [op EXCEPT !.at = "unlinked"]
    /\ UNCHANGED <<row, intent, durable, temps, quarantine, history>>

\* Mutant of DeleteSync: the unlink is not made durable.
DeleteNoSync ==
    /\ Running("delete", "unlinked")
    /\ op' = [op EXCEPT !.at = "synced"]
    /\ UNCHANGED <<disk, history>>

DeleteSync ==
    /\ Running("delete", "unlinked")
    /\ \E r \in op.todo : FsyncDirectory(r)
    /\ op' = [op EXCEPT !.at = "synced"]
    /\ UNCHANGED <<row, intent, blob, temps, quarantine, history>>

DeleteRow ==
    /\ Running("delete", "synced")
    /\ row' = [r \in Records |-> IF r \in op.todo THEN NoRow ELSE row[r]]
    /\ op' = [op EXCEPT !.at = "deleted"]
    /\ UNCHANGED <<intent, blob, durable, temps, quarantine, history>>

DeleteReturns ==
    /\ Running("delete", "deleted")
    /\ op' = Idle
    /\ gone' = gone \cup op.todo
    /\ UNCHANGED <<disk, written, vouched, indexed, marked, damaged>>

\* A system call or a transaction of put, delete or recover failed: the
\* operation raises and leaves what it did.
OperationFails ==
    /\ op.kind \in {"put", "delete", "recover"}
    /\ op' = Raised
    /\ UNCHANGED <<disk, history>>

-----------------------------------------------------------------------------
(* recover, in the constructor and on request: the phases in their order,  *)
(* each row or file of a phase in any order.                               *)

Phase(p, todo) ==
    [kind |-> "recover", at |-> p, todo |-> todo, content |-> Nothing, open |-> op.open]

\* The temporary files are unlinked; safe_unlink ignores failures.
RecoverBegin ==
    /\ op \in {Idle, Down}
    /\ temps' \in IF "unlink" \in faults THEN 0..temps ELSE {0}
    /\ op' = Phase("intents", {r \in Records : intent[r] # Nothing})
    /\ UNCHANGED <<row, intent, blob, durable, quarantine, history>>

\* An intent without a blob is dropped; with the blob it announced it becomes a
\* ready row (INSERT OR IGNORE); with any other blob, the blob is quarantined.
RecoverIntent(r) ==
    /\ Running("recover", "intents")
    /\ r \in op.todo
    /\ op' = [op EXCEPT !.todo = @ \ {r}]
    /\ intent' = [intent EXCEPT ![r] = Nothing]
    /\ \/ /\ blob[r] = Nothing
          /\ UNCHANGED <<row, blob, quarantine>>
       \/ /\ blob[r] # Nothing /\ Decodes(r, intent[r])
          /\ row' = [row EXCEPT ![r] = IF @ = NoRow THEN Row("ready", intent[r]) ELSE @]
          /\ UNCHANGED <<blob, quarantine>>
       \/ /\ blob[r] # Nothing /\ MayNotDecode(r, intent[r])
          /\ QuarantinePath(r)
          /\ UNCHANGED row
    /\ indexed' = IF row' # row THEN indexed \cup {r} ELSE indexed
    /\ UNCHANGED <<durable, temps, written, vouched, marked, gone, damaged>>

NextPhase(p, q, todo) ==
    /\ Running("recover", p)
    /\ op.todo = {}
    /\ op' = Phase(q, todo)
    /\ UNCHANGED <<disk, history>>

RecoverDeletionsBegin ==
    NextPhase("intents", "deletions", {r \in Records : row[r].state = "deleting"})

\* safe_unlink ignores that the unlink failed, and nothing synchronises the
\* directory before the row is deleted.
RecoverUnlink(r) ==
    /\ Running("recover", "deletions")
    /\ r \in op.todo
    /\ op' = Phase("unlinked", {r})
    /\ \/ blob' = [blob EXCEPT ![r] = Nothing]
       \/ "unlink" \in faults /\ UNCHANGED blob
    /\ UNCHANGED <<row, intent, durable, temps, quarantine, history>>

\* Mutant of RecoverRow: an interrupted deletion is rolled back.
RecoverRowReady ==
    /\ Running("recover", "unlinked")
    /\ row' = [r \in Records |-> IF r \in op.todo THEN Row("ready", row[r].digest) ELSE row[r]]
    /\ op' = Phase("deletions", {r \in Records : row'[r].state = "deleting"})
    /\ UNCHANGED <<intent, blob, durable, temps, quarantine, history>>

RecoverRow ==
    /\ Running("recover", "unlinked")
    /\ row' = [r \in Records |-> IF r \in op.todo THEN NoRow ELSE row[r]]
    /\ op' = Phase("deletions", {r \in Records : row'[r].state = "deleting"})
    /\ UNCHANGED <<intent, blob, durable, temps, quarantine, history>>

RecoverVerifyBegin ==
    NextPhase("deletions", "verify", {r \in Records : Visible(r)})

RecoverVerify(r) ==
    /\ Running("recover", "verify")
    /\ r \in op.todo
    /\ \/ /\ Decodes(r, row[r].digest)
          /\ op' = [op EXCEPT !.todo = @ \ {r}]
          /\ UNCHANGED <<row, blob, quarantine>>
       \/ /\ MayNotDecode(r, row[r].digest)
          /\ QuarantinePath(r)
          /\ \/ /\ row' = [row EXCEPT ![r].state = "quarantined"]
                /\ op' = [op EXCEPT !.todo = @ \ {r}]
             \/ op' = Raised /\ UNCHANGED row
    /\ UNCHANGED <<intent, durable, temps, history>>

RecoverOrphansBegin ==
    NextPhase("verify", "orphans",
              {r \in Records : blob[r] # Nothing /\ row[r] = NoRow /\ intent[r] = Nothing})

\* Mutant of RecoverOrphan: every file is taken for a valid envelope.
RecoverOrphanUnchecked(r) ==
    /\ Running("recover", "orphans")
    /\ r \in op.todo
    /\ op' = [op EXCEPT !.todo = @ \ {r}]
    /\ row' = [row EXCEPT ![r] = Row("ready", blob[r])]
    /\ indexed' = indexed \cup {r}
    /\ UNCHANGED <<intent, blob, durable, temps, quarantine, written, vouched, marked, gone,
                   damaged>>

\* A valid blob nobody refers to is indexed again; any other is quarantined.
RecoverOrphan(r) ==
    /\ Running("recover", "orphans")
    /\ r \in op.todo
    /\ op' = [op EXCEPT !.todo = @ \ {r}]
    /\ \/ /\ blob[r] \in Contents
          /\ row' = [row EXCEPT ![r] = Row("ready", blob[r])]
          /\ indexed' = indexed \cup {r}
          /\ UNCHANGED <<blob, quarantine>>
       \/ /\ blob[r] \notin Contents \/ "read" \in faults
          /\ QuarantinePath(r)
          /\ UNCHANGED <<row, indexed>>
    /\ UNCHANGED <<intent, durable, temps, written, vouched, marked, gone, damaged>>

RecoverEnds ==
    /\ Running("recover", "orphans")
    /\ op.todo = {}
    /\ op' = Idle
    /\ UNCHANGED <<disk, history>>

-----------------------------------------------------------------------------
(* The environment.                                                        *)

\* The process ends at any point.  A power loss also takes, of any shards, what
\* was not made durable.
Crash ==
    /\ op # Down
    /\ op' = Down
    /\ \/ UNCHANGED <<blob, durable>>
       \/ /\ "power" \in faults
          /\ \E lost \in SUBSET Records :
                blob' = [r \in Records |-> IF r \in lost THEN durable[r] ELSE blob[r]]
          /\ durable' = blob'
    /\ UNCHANGED <<row, intent, temps, quarantine, history>>

Corrupt(r) ==
    /\ "corrupt" \in faults
    /\ blob[r] \in Contents
    /\ blob' = [blob EXCEPT ![r] = Damaged]
    /\ durable' = [durable EXCEPT ![r] = Damaged]
    /\ damaged' = damaged \cup {r}
    /\ UNCHANGED <<row, intent, temps, quarantine, op, written, vouched, indexed, marked, gone>>

Put == (\E r \in Records, c \in Contents :
              PutRefused(r, c) \/ PutRepeated(r, c) \/ PutIntent(r, c))
          \/ PutTemporary \/ PutRename \/ PutSync \/ PutCommit \/ PutReturns

Delete == (\E r \in Records : DeleteMark(r))
          \/ DeleteUnlink \/ DeleteSync \/ DeleteRow \/ DeleteReturns

Recover ==
    \/ RecoverBegin
    \/ \E r \in Records : RecoverIntent(r) \/ RecoverUnlink(r) \/ RecoverVerify(r)
                            \/ RecoverOrphan(r)
    \/ RecoverDeletionsBegin
    \/ RecoverRow
    \/ RecoverVerifyBegin
    \/ RecoverOrphansBegin
    \/ RecoverEnds

Next ==
    /\ UNCHANGED faults
    /\ \/ Put
       \/ Delete
       \/ OperationFails
       \/ Recover
       \/ \E r \in Records : GetQuarantines(r) \/ Corrupt(r)
       \/ Crash

Spec == Init /\ [][Next]_vars

-----------------------------------------------------------------------------
(* Properties.                                                             *)

\* Types of the catalog, the files and the operation.
StorageTypeOK ==
    /\ row \in [Records -> [state : {Nothing, "ready", "deleting", "quarantined"},
                            digest : Contents \cup {Nothing}]]
    /\ intent \in [Records -> Contents \cup {Nothing}]
    /\ blob \in [Records -> Contents \cup {Nothing, Damaged}]
    /\ durable \in [Records -> Contents \cup {Nothing, Damaged}]
    /\ temps + quarantine \in 0..MaxJunk
    /\ op.todo \subseteq Records

\* A record whose put succeeded stays readable with the content of that put,
\* through crashes, power losses, failed operations and recoveries, until a
\* delete begins; except when the environment damaged its blob or a read of it
\* failed.  Two successes promise less, because put believes the row it finds:
\* on a row that is being deleted or is quarantined (vouched) it promises
\* nothing, and on a row that a recovery inserted (indexed), whose blob nobody
\* has synchronised, it does not outlive a power loss.
WrittenIsDurable ==
    "read" \notin faults =>
        \A r \in written \ (damaged \cup vouched) :
            /\ r \notin indexed \/ "power" \notin faults =>
                   Visible(r) /\ blob[r] = row[r].digest
            /\ r \notin indexed => durable[r] = row[r].digest

\* A record that delete reported deleted does not come back without a put.
DeletedStaysDeleted == \A r \in gone : ~Visible(r)

\* docs/storage.md: restart completes any interrupted deletion; a record whose
\* deletion began is not readable again without a put.
InterruptedDeleteCompletes == \A r \in marked : ~Visible(r)

\* Without a power loss and with unlinks that succeed, it does: a process crash
\* at any step of a deletion, or of the recovery that completes it, loses nothing.
RestartCompletesDelete ==
    faults \cap {"power", "unlink"} = {} => InterruptedDeleteCompletes

\* docs/storage.md: a write that would exceed the quota fails before creating
\* a new blob.  Only a power loss, which brings unlinked files back, exceeds it.
QuotaHolds == "power" \notin faults => FilesOnDisk <= Quota

=============================================================================
