-------------------------- MODULE DerivedDataProofs --------------------------
(***************************************************************************)
(* DeletionTruthful for every finite set of records, every set of requests *)
(* and all bounds.  The inductive invariant DerivedInv says, beside types  *)
(* and locks, how far a deletion has come (PhaseInv), what it has cleaned  *)
(* by then and why nobody brings it back (CleanInv), and that a reported   *)
(* record is nowhere it could come back from (ReportInv).                  *)
(***************************************************************************)
EXTENDS DerivedData, WellFoundedInduction, TLAPS

Places == {"idle", "listed", "records", "remove", "removing", "members", "reconcile", "loading",
           "replacing", "reconciled", "clear"}
WriterPlaces == {"idle", "add", "adding", "rebuild", "batches", "batch", "publishing", "published"}
Phases == {"none", "planned", "records-deleted", "derived-reconciled"}
TempNames == {"active", "checkpoint", "activity"}
Files == [exists : BOOLEAN, ids : SUBSET Records]
Calls == [at : Places, ids : SUBSET Records, days : SUBSET Days, todo : SUBSET Records,
          keep : SUBSET Records]

\* Inside reconcile_deleted: the survivors are being collected or written.
Inside == {"loading", "replacing"}
del == proc["deletion"]
col == proc["collector"]

TypeInv ==
    /\ fresh \subseteq Records
    /\ ready \subseteq Records
    /\ index \in Files
    /\ checkpoint \in Files
    /\ activity \in Files
    /\ temps \subseteq TempNames
    /\ journal \in [phase : Phases, request : Requests \cup {"none"}, ids : SUBSET Records]
    /\ proc \in [Processes -> Calls]
    /\ writer \in [at : WriterPlaces, docs : SUBSET Records, done : SUBSET Records]
    /\ refresher \in [at : {"idle", "waiting", "replacing"}, docs : SUBSET Records,
                      done : SUBSET Records]
    /\ carried \subseteq Records
    /\ reported \subseteq Records

\* What is written was captured before, a rebuild writes what it was given, and
\* a snapshot that does not exist holds nothing.
CapturedInv ==
    /\ ready \cap fresh = {}
    /\ index.ids \cap fresh = {}
    /\ checkpoint.ids \cap fresh = {}
    /\ activity.ids \cap fresh = {}
    /\ journal.ids \cap fresh = {}
    /\ \A p \in Processes : proc[p].keep \cap fresh = {}
    /\ writer.docs \cap fresh = {}
    /\ writer.done \subseteq writer.docs
    /\ writer.at = "batch" => writer.docs # writer.done
    /\ refresher.docs \cap fresh = {}
    /\ index.exists = FALSE => index.ids = {}

\* A lock is held exactly by the call inside it.
LockInv ==
    /\ indexLock = "deletion" <=> del.at = "removing"
    /\ indexLock = "collector" <=> col.at = "removing"
    /\ indexLock = "writer" <=> writer.at \notin {"idle", "add", "rebuild"}
    /\ surviveLock = "deletion" <=> del.at \in Inside
    /\ surviveLock = "collector" <=> col.at \in Inside
    /\ reconcileLock = "deletion" <=> del.at = "replacing"
    /\ reconcileLock = "collector" <=> col.at = "replacing"
    /\ reconcileLock = "refresher" <=> refresher.at = "replacing"

\* Where the coordinator is, the journal says.
PhaseInv ==
    /\ journal.phase = "none" <=> journal = NoJournal
    /\ journal.phase = "none" => del.at = "idle"
    /\ del.at # "idle" => del.ids = journal.ids
    /\ del.at = "records" => journal.phase = "planned"
    /\ del.at \in {"remove", "removing", "reconcile", "loading", "replacing", "reconciled"}
         => journal.phase = "records-deleted"
    /\ del.at = "clear" => journal.phase = "derived-reconciled"
    /\ del.at \notin {"listed", "members"}
    /\ col.at \notin {"records", "reconciled", "clear"}

\* Records of the transaction that no call under way was given before.
Due == journal.ids \ carried

RecordsDone == journal.phase \in {"records-deleted", "derived-reconciled"}
IndexDone ==
    \/ journal.phase = "derived-reconciled"
    \/ del.at \in {"reconcile", "loading", "replacing", "reconciled"}
ActivityDone == journal.phase = "derived-reconciled" \/ del.at = "reconciled"

\* What the transaction has cleaned stays clean: storage has no copy to read
\* again, calls under way were given none but the carried ones, and a collector
\* that rebuilds the activity snapshot listed the records after the deletion.
CleanInv ==
    /\ del.at = "records" => (journal.ids \ del.todo) \cap ready = {}
    /\ RecordsDone => journal.ids \cap ready = {}
    /\ RecordsDone => Due \cap (writer.docs \cup refresher.docs) = {}
    /\ IndexDone => Due \cap index.ids = {}
    /\ ActivityDone => Due \cap activity.ids = {}
    /\ ActivityDone /\ col.at \in Inside => Due \cap col.keep = {}
    /\ del.at \in Inside => journal.ids \cap del.keep = {}

\* A reported record has no copy anywhere, nor does a call under way hold one.
ReportInv ==
    /\ reported \cap fresh = {}
    /\ reported \cap ready = {}
    /\ reported \cap index.ids = {}
    /\ reported \cap activity.ids = {}
    /\ reported \cap writer.docs = {}
    /\ reported \cap refresher.docs = {}
    /\ del.at \in Inside => reported \cap del.keep = {}
    /\ col.at \in Inside => reported \cap col.keep = {}

DerivedInv == TypeInv /\ CapturedInv /\ LockInv /\ PhaseInv /\ CleanInv /\ ReportInv

-----------------------------------------------------------------------------
(* The documents of a rebuild, and _resume.                                *)

\* The order of record identifiers as the relation of the library's theorems.
LEMMA LessIsRelated ==
    ASSUME NEW n \in Nat, NEW m \in Nat, n < m
    PROVE  <<n, m>> \in OpToRel(<, Nat)
<1>1. <<n, m>> \in Nat \X Nat
  OBVIOUS
<1>2. <<n, m>>[1] < <<n, m>>[2]
  OBVIOUS
<1> QED BY <1>1, <1>2, Zenon DEF OpToRel

\* The next document of a batch is one of the documents left.
LEMMA MinIsMember ==
    ASSUME NEW S, S \subseteq Records, S # {}
    PROVE  Min(S) \in S
<1>1. S \subseteq Nat
  BY RecordsAssumption
<1>2. PICK m \in S : \A n \in S : ~ (<<n, m>> \in OpToRel(<, Nat))
  BY <1>1, NatLessThanWellFounded, WFMin
<1>3. \A n \in S : ~ (n < m)
  BY <1>1, <1>2, LessIsRelated
<1>4. \A n \in S : m <= n
  BY <1>1, <1>3
<1> QED BY <1>4 DEF Min

\* _resume goes on where the phase of the journal says, with all of its records.
LEMMA ResumeEffect ==
    ASSUME DerivedInv, ResumeJournal, journal'.phase \in Phases \ {"none"},
           journal'.ids \subseteq Records
    PROVE  /\ proc' \in [Processes -> Calls]
           /\ carried' \subseteq Records
           /\ del' = [at |-> ResumeAt(journal'.phase), ids |-> journal'.ids, days |-> {},
                      todo |-> journal'.ids, keep |-> {}]
           /\ col' = col
<1>1. proc \in [Processes -> Calls]
  BY DEF DerivedInv, TypeInv
<1>2. [at |-> ResumeAt(journal'.phase), ids |-> journal'.ids, days |-> {}, todo |-> journal'.ids,
       keep |-> {}] \in Calls
  BY DEF ResumeAt, Phases, Calls, Places
<1>3. proc' = [proc EXCEPT !["deletion"] =
                  [at |-> ResumeAt(journal'.phase), ids |-> journal'.ids, days |-> {},
                   todo |-> journal'.ids, keep |-> {}]]
  BY DEF ResumeJournal
<1>4. proc' \in [Processes -> Calls]
  BY <1>1, <1>2, <1>3 DEF Processes
<1>5. carried' \subseteq Records
  BY DEF DerivedInv, TypeInv, ResumeJournal
<1> QED BY <1>1, <1>3, <1>4, <1>5 DEF del, col, Processes

\* _resume keeps the invariant, for a journal with a transaction that is either
\* new or the one that was there.
LEMMA ResumeKeeps ==
    ASSUME DerivedInv, ResumeJournal, del.at = "idle",
           journal' \in [phase : Phases, request : Requests \cup {"none"}, ids : SUBSET Records],
           journal'.ids \cap fresh = {},
           journal'.phase # "none",
           journal'.phase = "planned" \/ journal' = journal,
           UNCHANGED <<stored, files, activity, locks, callers, counters, reported>>
    PROVE  DerivedInv'
<1> USE DEF stored, files, locks, callers
<1>1. /\ proc' \in [Processes -> Calls]
      /\ carried' \subseteq Records
      /\ del' = [at |-> ResumeAt(journal'.phase), ids |-> journal'.ids, days |-> {},
                 todo |-> journal'.ids, keep |-> {}]
      /\ col' = col
      /\ proc["deletion"] = del /\ proc'["deletion"] = del'
      /\ proc["collector"] = col /\ proc'["collector"] = col'
  BY ResumeEffect DEF del, col
<1>2. CASE journal'.phase = "planned"
  <2>1. /\ del'.at = "records" /\ del'.ids = journal'.ids
        /\ del'.todo = journal'.ids /\ del'.keep = {}
    BY <1>1, <1>2 DEF ResumeAt
  <2>2. TypeInv'
    BY <1>1 DEF DerivedInv, TypeInv
  <2>3. CapturedInv'
    BY <1>1, <2>1 DEF DerivedInv, CapturedInv, Processes
  <2>4. LockInv'
    BY <1>1, <2>1 DEF DerivedInv, LockInv, Inside
  <2>5. PhaseInv'
    BY <1>1, <1>2, <2>1 DEF DerivedInv, PhaseInv, NoJournal
  <2>6. CleanInv'
    BY <1>1, <1>2, <2>1 DEF CleanInv, Inside, RecordsDone, IndexDone, ActivityDone
  <2>7. ReportInv'
    BY <1>1, <2>1 DEF DerivedInv, ReportInv, Inside
  <2> QED BY <2>2, <2>3, <2>4, <2>5, <2>6, <2>7 DEF DerivedInv
<1>3. CASE journal' = journal /\ journal.phase = "records-deleted"
  <2>1. /\ del'.at = "remove" /\ del'.ids = journal'.ids
        /\ del'.todo = journal'.ids /\ del'.keep = {}
        /\ carried' = journal.ids \cap (writer.docs \cup refresher.docs)
    BY <1>1, <1>3 DEF ResumeAt, ResumeJournal, Carried
  <2>2. TypeInv'
    BY <1>1 DEF DerivedInv, TypeInv
  <2>3. CapturedInv'
    BY <1>1, <1>3, <2>1 DEF DerivedInv, CapturedInv, Processes
  <2>4. LockInv'
    BY <1>1, <2>1 DEF DerivedInv, LockInv, Inside
  <2>5. PhaseInv'
    BY <1>1, <1>3, <2>1 DEF DerivedInv, PhaseInv, NoJournal
  <2>6. CleanInv'
    BY <1>1, <1>3, <2>1
       DEF DerivedInv, CleanInv, Due, Inside, RecordsDone, IndexDone, ActivityDone
  <2>7. ReportInv'
    BY <1>1, <2>1 DEF DerivedInv, ReportInv, Inside
  <2> QED BY <2>2, <2>3, <2>4, <2>5, <2>6, <2>7 DEF DerivedInv
<1>4. CASE journal' = journal /\ journal.phase = "derived-reconciled"
  <2>1. /\ del'.at = "clear" /\ del'.ids = journal'.ids
        /\ del'.todo = journal'.ids /\ del'.keep = {}
        /\ carried' = carried
    BY <1>1, <1>4 DEF ResumeAt, ResumeJournal
  <2>2. TypeInv'
    BY <1>1 DEF DerivedInv, TypeInv
  <2>3. CapturedInv'
    BY <1>1, <1>4, <2>1 DEF DerivedInv, CapturedInv, Processes
  <2>4. LockInv'
    BY <1>1, <2>1 DEF DerivedInv, LockInv, Inside
  <2>5. PhaseInv'
    BY <1>1, <1>4, <2>1 DEF DerivedInv, PhaseInv, NoJournal
  <2>6. CleanInv'
    BY <1>1, <1>4, <2>1
       DEF DerivedInv, CleanInv, Due, Inside, RecordsDone, IndexDone, ActivityDone
  <2>7. ReportInv'
    BY <1>1, <2>1 DEF DerivedInv, ReportInv, Inside
  <2> QED BY <2>2, <2>3, <2>4, <2>5, <2>6, <2>7 DEF DerivedInv
<1> QED BY <1>2, <1>3, <1>4 DEF Phases

\* delete: a new transaction, or the one in the journal.
LEMMA DeleteKeeps ==
    ASSUME DerivedInv, NEW request \in Requests, NEW ids \in SUBSET (Records \ fresh),
           Delete(request, ids)
    PROVE  DerivedInv'
<1> USE DEF Delete
<1>1. CASE journal = NoJournal
  <2>1. journal' = [phase |-> "planned", request |-> request, ids |-> ids]
    BY <1>1
  <2> QED BY <2>1, ResumeKeeps DEF Phases, del
<1>2. CASE journal # NoJournal
  <2>1. journal' = journal /\ journal.phase # "none"
    BY <1>2 DEF DerivedInv, PhaseInv
  <2> QED BY <2>1, ResumeKeeps DEF DerivedInv, TypeInv, CapturedInv, del
<1> QED BY <1>1, <1>2

\* recover: the transaction in the journal.
LEMMA RecoverKeeps ==
    ASSUME DerivedInv, Recover
    PROVE  DerivedInv'
<1>1. journal' = journal /\ journal.phase # "none"
  BY DEF DerivedInv, PhaseInv, Recover
<1> QED BY <1>1, ResumeKeeps DEF DerivedInv, TypeInv, CapturedInv, Recover, del

\* ClearJournal: what the transaction cleaned is what it reports.
LEMMA ClearJournalKeeps ==
    ASSUME DerivedInv, ClearJournal
    PROVE  DerivedInv'
<1> USE DEF ClearJournal, stored, files, locks, callers, counters
<1>1. TypeInv'
  BY DEF DerivedInv, TypeInv, CapturedInv, NoJournal, Idle, Calls, Processes, Places, Phases
<1>2. del'.at = "idle" /\ col' = col
  BY DEF DerivedInv, TypeInv, Idle, Processes, del, col
<1>3. CapturedInv'
  BY DEF DerivedInv, TypeInv, CapturedInv, NoJournal, Idle, Processes, Calls
<1>4. LockInv'
  BY <1>2 DEF DerivedInv, LockInv, Inside, del
<1>5. PhaseInv' /\ CleanInv'
  BY <1>2 DEF DerivedInv, PhaseInv, CleanInv, NoJournal, Inside, RecordsDone, IndexDone,
              ActivityDone
<1>6. journal.phase = "derived-reconciled"
  BY DEF DerivedInv, PhaseInv, del
<1>7. /\ Due \cap fresh = {} /\ Due \cap ready = {}
      /\ Due \cap index.ids = {} /\ Due \cap activity.ids = {}
      /\ Due \cap writer.docs = {} /\ Due \cap refresher.docs = {}
      /\ col.at \in Inside => Due \cap col.keep = {}
  BY <1>6 DEF DerivedInv, CapturedInv, CleanInv, Due, RecordsDone, IndexDone, ActivityDone
<1>8. ReportInv'
  <2>1. reported' = reported \cup Due
    BY DEF Due
  <2> QED BY <1>2, <1>7, <2>1 DEF DerivedInv, ReportInv, Inside
<1> QED BY <1>1, <1>3, <1>4, <1>5, <1>8 DEF DerivedInv

\* CollectIndex only decides what the collector does next.
LEMMA CollectIndexKeeps ==
    ASSUME DerivedInv, CollectIndex
    PROVE  DerivedInv'
<1> USE DEF stored, files, locks, callers, counters, history
<1>1. /\ proc' \in [Processes -> Calls]
      /\ del' = del
      /\ col.at = "listed" /\ col'.at \in {"members", "remove"} /\ col'.keep = col.keep
      /\ proc["deletion"] = del /\ proc'["deletion"] = del'
      /\ proc["collector"] = col /\ proc'["collector"] = col'
  <2>1. PICK stale \in SUBSET Records, place \in {"members", "remove"} :
          proc' = [proc EXCEPT !["collector"].at = place, !["collector"].ids = stale]
    BY DEF DerivedInv, TypeInv, Files, CollectIndex
  <2>2. proc \in [Processes -> Calls] /\ proc["collector"].at = "listed"
    BY DEF DerivedInv, TypeInv, CollectIndex
  <2>3. proc' \in [Processes -> Calls]
    BY <2>1, <2>2 DEF Calls, Processes, Places
  <2> QED BY <2>1, <2>2, <2>3 DEF Calls, Processes, del, col
<1>2. UNCHANGED <<stored, files, activity, locks, journal, callers, counters, history>>
  BY DEF CollectIndex
<1>3. TypeInv'
  BY <1>1, <1>2 DEF DerivedInv, TypeInv
<1>4. CapturedInv'
  BY <1>1, <1>2 DEF DerivedInv, CapturedInv, Processes
<1>5. LockInv' /\ PhaseInv'
  BY <1>1, <1>2 DEF DerivedInv, LockInv, PhaseInv, Inside
<1>6. CleanInv' /\ ReportInv'
  BY <1>1, <1>2 DEF DerivedInv, CleanInv, ReportInv, Due, RecordsDone, IndexDone, ActivityDone,
                    Inside
<1> QED BY <1>3, <1>4, <1>5, <1>6 DEF DerivedInv

\* A batch saves a checkpoint of documents that the rebuild was given.
LEMMA RebuildBatchKeeps ==
    ASSUME DerivedInv, RebuildBatch
    PROVE  DerivedInv'
<1> USE DEF RebuildBatch, stored, files, locks, callers, counters, history
<1>1. /\ writer'.docs = writer.docs /\ writer'.done \subseteq writer.docs
      /\ writer.at \in {"batches", "batch"} /\ writer'.at \in {"batches", "batch"}
      /\ writer' \in [at : WriterPlaces, docs : SUBSET Records, done : SUBSET Records]
      /\ checkpoint' \in Files /\ checkpoint'.ids \subseteq checkpoint.ids \cup writer.docs
      /\ temps' \subseteq TempNames
  <2>1. /\ writer \in [at : WriterPlaces, docs : SUBSET Records, done : SUBSET Records]
        /\ writer.done \subseteq writer.docs
        /\ checkpoint \in Files /\ temps \subseteq TempNames
    BY DEF DerivedInv, TypeInv, CapturedInv
  <2>2. CASE writer.at = "batches"
    BY <2>1, <2>2 DEF WriterPlaces, TempNames
  <2>3. CASE writer.at = "batch"
    <3> DEFINE next == Min(writer.docs \ writer.done)
    <3>1. next \in writer.docs
      BY <2>1, MinIsMember
    <3> HIDE DEF next
    <3>2. /\ writer' = [writer EXCEPT !.at = "batches", !.done = @ \cup {next}]
          /\ checkpoint' = File(writer'.done)
          /\ temps' = temps \ {"checkpoint"}
      BY <2>3 DEF next
    <3>3. /\ writer' \in [at : WriterPlaces, docs : SUBSET Records, done : SUBSET Records]
          /\ writer'.at = "batches" /\ writer'.docs = writer.docs
          /\ writer'.done = writer.done \cup {next}
      BY <2>1, <3>1, <3>2 DEF WriterPlaces
    <3> QED BY <2>1, <2>3, <3>1, <3>2, <3>3 DEF File, Files
  <2> QED BY <2>2, <2>3
<1>2. TypeInv'
  BY <1>1 DEF DerivedInv, TypeInv
<1>3. CapturedInv'
  BY <1>1 DEF DerivedInv, CapturedInv
<1>4. LockInv'
  BY <1>1 DEF DerivedInv, LockInv, Inside, del, col
<1>5. PhaseInv' /\ CleanInv' /\ ReportInv'
  BY <1>1 DEF DerivedInv, PhaseInv, CleanInv, ReportInv, Due, RecordsDone, IndexDone, ActivityDone,
              Inside, del, col
<1> QED BY <1>2, <1>3, <1>4, <1>5 DEF DerivedInv

\* The rebuilt snapshot holds documents that the rebuild was given.
LEMMA RebuildPublishKeeps ==
    ASSUME DerivedInv, RebuildPublish
    PROVE  DerivedInv'
<1> USE DEF RebuildPublish, stored, files, locks, callers, counters, history
<1>1. /\ writer'.docs \subseteq writer.docs /\ writer'.done \subseteq writer'.docs
      /\ writer' \in [at : WriterPlaces, docs : SUBSET Records, done : SUBSET Records]
      /\ checkpoint' \in Files /\ checkpoint'.ids \subseteq checkpoint.ids
      /\ index' \in Files
      /\ index' = index \/ (index'.exists /\ index'.ids \subseteq writer.docs)
      /\ temps' \subseteq TempNames
  <2>1. /\ writer \in [at : WriterPlaces, docs : SUBSET Records, done : SUBSET Records]
        /\ writer.done \subseteq writer.docs
        /\ checkpoint \in Files /\ index \in Files /\ temps \subseteq TempNames
    BY DEF DerivedInv, TypeInv, CapturedInv
  <2>2. CASE writer.at = "batches"
    BY <2>1, <2>2 DEF WriterPlaces, TempNames
  <2>3. CASE writer.at = "publishing"
    <3>1. /\ writer' \in [at : WriterPlaces, docs : SUBSET Records, done : SUBSET Records]
          /\ writer'.docs = writer.docs /\ writer'.done = writer.done
      BY <2>1, <2>3 DEF WriterPlaces
    <3>2. index' = File(writer.done) /\ checkpoint' = checkpoint /\ temps' = temps \ {"active"}
      BY <2>3
    <3>3. index' \in Files /\ index'.exists /\ index'.ids = writer.done
      BY <2>1, <3>2 DEF File, Files
    <3> QED BY <2>1, <3>1, <3>2, <3>3
  <2>4. CASE writer.at = "published"
    <3>1. writer' = IdleWriter /\ checkpoint' = NoFile /\ index' = index /\ temps' = temps
      BY <2>4
    <3>2. checkpoint' \in Files /\ checkpoint'.ids = {}
      BY <3>1 DEF NoFile, Files
    <3>3. /\ writer' \in [at : WriterPlaces, docs : SUBSET Records, done : SUBSET Records]
          /\ writer'.docs = {} /\ writer'.done = {}
      BY <3>1 DEF IdleWriter, WriterPlaces
    <3> QED BY <2>1, <3>1, <3>2, <3>3
  <2> QED BY <2>2, <2>3, <2>4
<1>2. TypeInv'
  BY <1>1 DEF DerivedInv, TypeInv
<1>3. CapturedInv'
  BY <1>1 DEF DerivedInv, CapturedInv
<1>4. LockInv'
  BY DEF DerivedInv, TypeInv, LockInv, Inside, IdleWriter, del, col
<1>5. PhaseInv' /\ CleanInv' /\ ReportInv'
  <2>1. PhaseInv'
    BY DEF DerivedInv, PhaseInv, del, col
  <2>2. RecordsDone => Due \cap writer.docs = {}
    BY DEF DerivedInv, CleanInv
  <2>3. IndexDone => RecordsDone
    BY DEF DerivedInv, PhaseInv, IndexDone, RecordsDone
  <2>4. CleanInv'
    BY <1>1, <2>2, <2>3 DEF DerivedInv, CleanInv, Due, RecordsDone, IndexDone, ActivityDone, Inside,
                            del, col
  <2>5. ReportInv'
    BY <1>1 DEF DerivedInv, ReportInv, Inside, del, col
  <2> QED BY <2>1, <2>4, <2>5
<1> QED BY <1>2, <1>3, <1>4, <1>5 DEF DerivedInv

-----------------------------------------------------------------------------
(* The other actions.                                                      *)

\* Storing a record takes it out of the fresh ones.
LEMMA PutKeeps ==
    ASSUME DerivedInv, NEW r \in Records, Put(r)
    PROVE  DerivedInv'
<1> USE DEF Put, files, locks, callers, counters, history
<1>1. TypeInv'
  BY DEF DerivedInv, TypeInv
<1>2. CapturedInv'
  BY DEF DerivedInv, CapturedInv
<1>3. LockInv'
  BY DEF DerivedInv, LockInv, Inside, del, col
<1>4. PhaseInv'
  BY DEF DerivedInv, PhaseInv, NoJournal, del, col
<1>5. CleanInv'
  BY DEF DerivedInv, TypeInv, CapturedInv, LockInv, PhaseInv, CleanInv, Inside, Due,
         RecordsDone, IndexDone, ActivityDone, del, col, Processes, Calls, Files
<1>6. ReportInv'
  BY DEF DerivedInv, ReportInv, Inside, del, col
<1> QED BY <1>1, <1>2, <1>3, <1>4, <1>5, <1>6 DEF DerivedInv

\* The sweep only takes from storage.
LEMMA SweepDeleteKeeps ==
    ASSUME DerivedInv, NEW r \in Records, SweepDelete(r)
    PROVE  DerivedInv'
<1> USE DEF SweepDelete, files, locks, callers, counters, history
<1>1. TypeInv'
  BY DEF DerivedInv, TypeInv
<1>2. CapturedInv'
  BY DEF DerivedInv, CapturedInv
<1>3. LockInv'
  BY DEF DerivedInv, LockInv, Inside, del, col
<1>4. PhaseInv'
  BY DEF DerivedInv, PhaseInv, NoJournal, del, col
<1>5. CleanInv'
  BY DEF DerivedInv, CleanInv, Inside, Due, RecordsDone, IndexDone, ActivityDone, del, col
<1>6. ReportInv'
  BY DEF DerivedInv, ReportInv, Inside, del, col
<1> QED BY <1>1, <1>2, <1>3, <1>4, <1>5, <1>6 DEF DerivedInv

\* Without a snapshot there is nothing to remove; a call that raises gives up.
LEMMA RemoveWithoutSaveKeeps ==
    ASSUME DerivedInv, NEW p \in Processes, RemoveWithoutSave(p)
    PROVE  DerivedInv'
<1> USE DEF RemoveWithoutSave, stored, files, locks, callers, counters, history, Enter,
            AfterRemove, Idle
<1>1. TypeInv'
  BY DEF DerivedInv, TypeInv, Processes, Calls, Places, Phases
<1>2. CapturedInv'
  BY DEF DerivedInv, TypeInv, CapturedInv, Processes, Calls, Files
<1>3. LockInv'
  BY DEF DerivedInv, TypeInv, LockInv, Inside, del, col, Processes, Calls, Files
<1>4. PhaseInv'
  BY DEF DerivedInv, TypeInv, PhaseInv, NoJournal, del, col, Processes, Calls, Files
<1>5. CleanInv'
  BY DEF DerivedInv, TypeInv, CapturedInv, LockInv, PhaseInv, CleanInv, Inside, Due,
         RecordsDone, IndexDone, ActivityDone, del, col, Processes, Calls, Files
<1>6. ReportInv'
  BY DEF DerivedInv, TypeInv, PhaseInv, CleanInv, ReportInv, Inside, del, col, Processes,
         Calls, Files
<1> QED BY <1>1, <1>2, <1>3, <1>4, <1>5, <1>6 DEF DerivedInv

\* A removal begins under the index lock.
LEMMA RemoveBeginKeeps ==
    ASSUME DerivedInv, NEW p \in Processes, RemoveBegin(p)
    PROVE  DerivedInv'
<1> USE DEF RemoveBegin, stored, callers, counters, history, Enter, TempNames
<1>1. TypeInv'
  BY DEF DerivedInv, TypeInv, Processes, Calls, Places, Phases
<1>2. CapturedInv'
  BY DEF DerivedInv, CapturedInv, Processes
<1>3. LockInv'
  BY DEF DerivedInv, TypeInv, LockInv, Inside, del, col, Processes
<1>4. PhaseInv'
  BY DEF DerivedInv, PhaseInv, NoJournal, del, col, Processes
<1>5. CleanInv'
  BY DEF DerivedInv, CleanInv, Inside, Due, RecordsDone, IndexDone, ActivityDone, del, col,
         Processes
<1>6. ReportInv'
  BY DEF DerivedInv, ReportInv, Inside, del, col, Processes
<1> QED BY <1>1, <1>2, <1>3, <1>4, <1>5, <1>6 DEF DerivedInv

\* A removal takes the coordinator's records out of the snapshot.
LEMMA RemoveEndKeeps ==
    ASSUME DerivedInv, NEW p \in Processes, RemoveEnd(p)
    PROVE  DerivedInv'
<1> USE DEF RemoveEnd, stored, callers, counters, history, Enter, AfterRemove, File
<1>1. TypeInv'
  BY DEF DerivedInv, TypeInv, CapturedInv, Files, Calls, Processes, Places, WriterPlaces,
         Phases
<1>2. CapturedInv'
  BY DEF DerivedInv, CapturedInv, Processes
<1>3. LockInv'
  BY DEF DerivedInv, TypeInv, LockInv, Inside, del, col, Processes
<1>4. PhaseInv'
  BY DEF DerivedInv, PhaseInv, NoJournal, del, col, Processes
<1>5. CleanInv'
  BY DEF DerivedInv, TypeInv, PhaseInv, CleanInv, Inside, Due, RecordsDone, IndexDone,
         ActivityDone, del, col, Processes, Calls, Files
<1>6. ReportInv'
  BY DEF DerivedInv, ReportInv, Inside, del, col, Processes
<1> QED BY <1>1, <1>2, <1>3, <1>4, <1>5, <1>6 DEF DerivedInv

\* The survive lock keeps coordinator and collector apart: one lists after the
\* other's rebuild.
LEMMA ReconcileBeginKeeps ==
    ASSUME DerivedInv, NEW p \in Processes, ReconcileBegin(p)
    PROVE  DerivedInv'
<1> USE DEF ReconcileBegin, stored, files, callers, counters, history, Enter, AfterReconcile
<1>0. WindowDays(activity.ids) \subseteq Days
  BY DEF WindowDays
<1>1. TypeInv'
  BY <1>0 DEF DerivedInv, TypeInv, Processes, Calls, Places, Phases
<1>2. CapturedInv'
  BY DEF DerivedInv, TypeInv, CapturedInv, Processes, Calls, Files
<1>3. LockInv'
  BY DEF DerivedInv, TypeInv, LockInv, Inside, del, col, Processes, Calls, Files
<1>4. PhaseInv'
  BY DEF DerivedInv, TypeInv, PhaseInv, NoJournal, del, col, Processes, Calls, Files
<1>5. CleanInv'
  BY DEF DerivedInv, TypeInv, CapturedInv, LockInv, PhaseInv, CleanInv, Inside, Due,
         RecordsDone, IndexDone, ActivityDone, del, col, Processes, Calls, Files
<1>6. ReportInv'
  BY DEF DerivedInv, TypeInv, PhaseInv, CleanInv, ReportInv, Inside, del, col, Processes,
         Calls, Files
<1> QED BY <1>1, <1>2, <1>3, <1>4, <1>5, <1>6 DEF DerivedInv

\* A day is listed: no record survives yet.
LEMMA ReconcileDayKeeps ==
    ASSUME DerivedInv, NEW p \in Processes, ReconcileDay(p)
    PROVE  DerivedInv'
<1> USE DEF ReconcileDay, stored, files, locks, callers, counters, history
<1>1. TypeInv'
  <2>1. proc \in [Processes -> Calls] /\ proc[p] \in Calls /\ ready \in SUBSET Records
    BY DEF DerivedInv, TypeInv
  <2>2. PICK day : proc' = [proc EXCEPT ![p].days = @ \ {day}, ![p].todo = ready \cap day]
    BY DEF ReconcileDay
  <2>3. proc' \in [Processes -> Calls]
    BY <2>1, <2>2 DEF Processes, Calls, Places
  <2> QED BY <2>3 DEF DerivedInv, TypeInv
<1>2. CapturedInv'
  BY DEF DerivedInv, TypeInv, CapturedInv, Processes
<1>3. LockInv'
  BY DEF DerivedInv, TypeInv, LockInv, Inside, del, col, Processes
<1>4. PhaseInv'
  BY DEF DerivedInv, TypeInv, PhaseInv, NoJournal, del, col, Processes
<1>5. CleanInv'
  BY DEF DerivedInv, TypeInv, PhaseInv, CleanInv, Inside, Due, RecordsDone, IndexDone,
         ActivityDone, del, col, Processes, Calls, Files
<1>6. ReportInv'
  BY DEF DerivedInv, TypeInv, ReportInv, Inside, del, col, Processes
<1> QED BY <1>1, <1>2, <1>3, <1>4, <1>5, <1>6 DEF DerivedInv

\* Only ready records survive.
LEMMA ReconcileLoadKeeps ==
    ASSUME DerivedInv, NEW p \in Processes, NEW r \in Records, ReconcileLoad(p, r)
    PROVE  DerivedInv'
<1> USE DEF ReconcileLoad, stored, files, locks, callers, counters, history
<1>1. TypeInv'
  <2>1. proc \in [Processes -> Calls] /\ proc[p] \in Calls /\ ready \in SUBSET Records
    BY DEF DerivedInv, TypeInv
  <2>2. proc' = [proc EXCEPT ![p].todo = @ \ {r},
                             ![p].keep = @ \cup ({r} \cap (ready \ proc[p].ids))]
    BY DEF ReconcileLoad
  <2>3. proc' \in [Processes -> Calls]
    BY <2>1, <2>2 DEF Processes, Calls, Places
  <2> QED BY <2>3 DEF DerivedInv, TypeInv
<1>2. CapturedInv'
  BY DEF DerivedInv, TypeInv, CapturedInv, Processes
<1>3. LockInv'
  BY DEF DerivedInv, TypeInv, LockInv, Inside, del, col, Processes
<1>4. PhaseInv'
  BY DEF DerivedInv, TypeInv, PhaseInv, NoJournal, del, col, Processes
<1>5. CleanInv'
  BY DEF DerivedInv, TypeInv, PhaseInv, CleanInv, Inside, Due, RecordsDone, IndexDone,
         ActivityDone, del, col, Processes, Calls, Files
<1>6. ReportInv'
  BY DEF DerivedInv, TypeInv, ReportInv, Inside, del, col, Processes
<1> QED BY <1>1, <1>2, <1>3, <1>4, <1>5, <1>6 DEF DerivedInv

\* The second lock, for the replacement.
LEMMA ReconcileSurvivorsKeeps ==
    ASSUME DerivedInv, NEW p \in Processes, ReconcileSurvivors(p)
    PROVE  DerivedInv'
<1> USE DEF ReconcileSurvivors, stored, files, callers, counters, history, Enter
<1>1. TypeInv'
  BY DEF DerivedInv, TypeInv, Processes, Calls, Places, Phases
<1>2. CapturedInv'
  BY DEF DerivedInv, CapturedInv, Processes
<1>3. LockInv'
  BY DEF DerivedInv, TypeInv, LockInv, Inside, del, col, Processes
<1>4. PhaseInv'
  BY DEF DerivedInv, PhaseInv, NoJournal, del, col, Processes
<1>5. CleanInv'
  BY DEF DerivedInv, CleanInv, Inside, Due, RecordsDone, IndexDone, ActivityDone, del, col,
         Processes
<1>6. ReportInv'
  BY DEF DerivedInv, ReportInv, Inside, del, col, Processes
<1> QED BY <1>1, <1>2, <1>3, <1>4, <1>5, <1>6 DEF DerivedInv

\* The survivors, none of them due, replace the activity snapshot.
LEMMA ReconcileEndKeeps ==
    ASSUME DerivedInv, NEW p \in Processes, ReconcileEnd(p)
    PROVE  DerivedInv'
<1> USE DEF ReconcileEnd, stored, files, callers, counters, history, Enter, AfterReconcile, File
<1>1. TypeInv'
  BY DEF DerivedInv, TypeInv, CapturedInv, Files, Calls, Processes, Places, WriterPlaces,
         Phases
<1>2. CapturedInv'
  BY DEF DerivedInv, CapturedInv, Processes
<1>3. LockInv'
  BY DEF DerivedInv, TypeInv, LockInv, Inside, del, col, Processes
<1>4. PhaseInv'
  BY DEF DerivedInv, PhaseInv, NoJournal, del, col, Processes
<1>5. CleanInv'
  BY DEF DerivedInv, TypeInv, CapturedInv, LockInv, PhaseInv, CleanInv, Inside, Due,
         RecordsDone, IndexDone, ActivityDone, del, col, Processes, Calls, Files
<1>6. ReportInv'
  BY DEF DerivedInv, ReportInv, Inside, del, col, Processes
<1> QED BY <1>1, <1>2, <1>3, <1>4, <1>5, <1>6 DEF DerivedInv

\* A rebuild that raises gives its locks back and leaves the journal where it is.
LEMMA RebuildRaisesKeeps ==
    ASSUME DerivedInv, NEW p \in Processes, RebuildRaises(p)
    PROVE  DerivedInv'
<1>1. /\ proc[p].at \in {"reconcile", "loading", "replacing"}
      /\ proc' = [proc EXCEPT ![p] = Idle]
      /\ surviveLock' = Released(surviveLock, p)
      /\ reconcileLock' = Released(reconcileLock, p)
      /\ UNCHANGED <<stored, files, activity, indexLock, journal, callers, counters, history>>
  BY DEF RebuildRaises
<1> USE <1>1 DEF stored, files, callers, counters, history, Released, Idle
<1>2. TypeInv'
  BY DEF DerivedInv, TypeInv, Processes, Calls, Places, Phases
<1>3. CapturedInv'
  BY DEF DerivedInv, CapturedInv, Processes
<1>4. LockInv'
  BY DEF DerivedInv, TypeInv, LockInv, Inside, del, col, Processes
<1>5. PhaseInv'
  BY DEF DerivedInv, PhaseInv, NoJournal, del, col, Processes
<1>6. CleanInv'
  BY DEF DerivedInv, CleanInv, Inside, Due, RecordsDone, IndexDone, ActivityDone, del, col,
         Processes
<1>7. ReportInv'
  BY DEF DerivedInv, ReportInv, Inside, del, col, Processes
<1> QED BY <1>2, <1>3, <1>4, <1>5, <1>6, <1>7 DEF DerivedInv

\* One record less to delete, and storage no longer has it.
LEMMA DeleteRecordKeeps ==
    ASSUME DerivedInv, NEW r \in Records, DeleteRecord(r)
    PROVE  DerivedInv'
<1> USE DEF DeleteRecord, files, locks, callers, counters, history
<1>1. TypeInv'
  BY DEF DerivedInv, TypeInv, Processes, Calls, Places, Phases
<1>2. CapturedInv'
  BY DEF DerivedInv, CapturedInv, Processes
<1>3. LockInv'
  BY DEF DerivedInv, LockInv, Inside, del, col, Processes
<1>4. PhaseInv'
  BY DEF DerivedInv, PhaseInv, NoJournal, del, col, Processes
<1>5. CleanInv'
  BY DEF DerivedInv, CleanInv, Inside, Due, RecordsDone, IndexDone, ActivityDone, del, col,
         Processes
<1>6. ReportInv'
  BY DEF DerivedInv, ReportInv, Inside, del, col, Processes
<1> QED BY <1>1, <1>2, <1>3, <1>4, <1>5, <1>6 DEF DerivedInv

\* With nothing left to delete, storage exposes none; the calls under way are noted.
LEMMA RecordsDeletedKeeps ==
    ASSUME DerivedInv, RecordsDeleted
    PROVE  DerivedInv'
<1> USE DEF RecordsDeleted, stored, files, locks, callers, counters, Enter, Carried, NoJournal
<1>1. TypeInv'
  BY DEF DerivedInv, TypeInv, Processes, Calls, Places, Phases
<1>2. CapturedInv'
  BY DEF DerivedInv, CapturedInv, Processes
<1>3. LockInv'
  BY DEF DerivedInv, LockInv, Inside, del, col, Processes
<1>4. PhaseInv'
  BY DEF DerivedInv, TypeInv, PhaseInv, NoJournal, del, col, Processes
<1>5. CleanInv'
  BY DEF DerivedInv, CleanInv, Inside, Due, RecordsDone, IndexDone, ActivityDone, del, col,
         Processes
<1>6. ReportInv'
  BY DEF DerivedInv, ReportInv, Inside, del, col, Processes
<1> QED BY <1>1, <1>2, <1>3, <1>4, <1>5, <1>6 DEF DerivedInv

\* The second phase begins when index and activity snapshot are clean.
LEMMA DerivedReconciledKeeps ==
    ASSUME DerivedInv, DerivedReconciled
    PROVE  DerivedInv'
<1> USE DEF DerivedReconciled, stored, files, locks, callers, counters, history, Enter, NoJournal
<1>1. TypeInv'
  BY DEF DerivedInv, TypeInv, Processes, Calls, Places, Phases
<1>2. CapturedInv'
  BY DEF DerivedInv, CapturedInv, Processes
<1>3. LockInv'
  BY DEF DerivedInv, LockInv, Inside, del, col, Processes
<1>4. PhaseInv'
  BY DEF DerivedInv, TypeInv, PhaseInv, NoJournal, del, col, Processes
<1>5. CleanInv'
  BY DEF DerivedInv, TypeInv, PhaseInv, CleanInv, Inside, Due, RecordsDone, IndexDone,
         ActivityDone, del, col, Processes, Calls, Files
<1>6. ReportInv'
  BY DEF DerivedInv, ReportInv, Inside, del, col, Processes
<1> QED BY <1>1, <1>2, <1>3, <1>4, <1>5, <1>6 DEF DerivedInv

\* The collector lists.
LEMMA CollectBeginKeeps ==
    ASSUME DerivedInv, CollectBegin
    PROVE  DerivedInv'
<1> USE DEF CollectBegin, stored, files, locks, callers, counters, history, Idle
<1>1. TypeInv'
  BY DEF DerivedInv, TypeInv, Processes, Calls, Places, Phases
<1>2. CapturedInv'
  BY DEF DerivedInv, CapturedInv, Processes
<1>3. LockInv'
  BY DEF DerivedInv, LockInv, Inside, del, col, Processes
<1>4. PhaseInv'
  BY DEF DerivedInv, PhaseInv, NoJournal, del, col, Processes
<1>5. CleanInv'
  BY DEF DerivedInv, CleanInv, Inside, Due, RecordsDone, IndexDone, ActivityDone, del, col,
         Processes
<1>6. ReportInv'
  BY DEF DerivedInv, ReportInv, Inside, del, col, Processes
<1> QED BY <1>1, <1>2, <1>3, <1>4, <1>5, <1>6 DEF DerivedInv

\* CollectMembers only decides what the collector does next.
LEMMA CollectMembersKeeps ==
    ASSUME DerivedInv, CollectMembers
    PROVE  DerivedInv'
<1> USE DEF CollectMembers, stored, files, locks, callers, counters, history, Idle
<1>1. TypeInv'
  <2>1. activity.ids \subseteq Records /\ proc \in [Processes -> Calls]
    BY DEF DerivedInv, TypeInv, Files
  <2>2. proc' \in [Processes -> Calls]
    BY <2>1 DEF Calls, Processes, Places
  <2> QED BY <2>2 DEF DerivedInv, TypeInv
<1>2. CapturedInv'
  BY DEF DerivedInv, CapturedInv, Processes
<1>3. LockInv'
  BY DEF DerivedInv, LockInv, Inside, del, col, Processes
<1>4. PhaseInv'
  BY DEF DerivedInv, PhaseInv, NoJournal, del, col, Processes
<1>5. CleanInv'
  BY DEF DerivedInv, CleanInv, Inside, Due, RecordsDone, IndexDone, ActivityDone, del, col,
         Processes
<1>6. ReportInv'
  BY DEF DerivedInv, ReportInv, Inside, del, col, Processes
<1> QED BY <1>1, <1>2, <1>3, <1>4, <1>5, <1>6 DEF DerivedInv

\* A call is given ready records, so none that is due or reported.
LEMMA WriterCallKeeps ==
    ASSUME DerivedInv, NEW op \in {"add", "rebuild"}, WriterCall(op)
    PROVE  DerivedInv'
<1> USE DEF WriterCall, stored, files, locks, history
<1>1. TypeInv'
  BY DEF DerivedInv, TypeInv, Processes, WriterPlaces
<1>2. CapturedInv'
  BY DEF DerivedInv, CapturedInv
<1>3. LockInv'
  BY DEF DerivedInv, LockInv, Inside, del, col
<1>4. PhaseInv'
  BY DEF DerivedInv, PhaseInv, NoJournal, del, col
<1>5. CleanInv'
  BY DEF DerivedInv, CleanInv, Inside, Due, RecordsDone, IndexDone, ActivityDone, del, col
<1>6. ReportInv'
  BY DEF DerivedInv, ReportInv, Inside, del, col
<1> QED BY <1>1, <1>2, <1>3, <1>4, <1>5, <1>6 DEF DerivedInv

\* A call that raises gives the lock back.
LEMMA WriterRefusedKeeps ==
    ASSUME DerivedInv, WriterRefused
    PROVE  DerivedInv'
<1> USE DEF WriterRefused, stored, files, counters, history, IdleWriter
<1>1. TypeInv'
  BY DEF DerivedInv, TypeInv, Processes, WriterPlaces
<1>2. CapturedInv'
  BY DEF DerivedInv, CapturedInv
<1>3. LockInv'
  BY DEF DerivedInv, LockInv, Inside, del, col
<1>4. PhaseInv'
  BY DEF DerivedInv, PhaseInv, NoJournal, del, col
<1>5. CleanInv'
  BY DEF DerivedInv, CleanInv, Inside, Due, RecordsDone, IndexDone, ActivityDone, del, col
<1>6. ReportInv'
  BY DEF DerivedInv, ReportInv, Inside, del, col
<1> QED BY <1>1, <1>2, <1>3, <1>4, <1>5, <1>6 DEF DerivedInv

\* A save begins under the index lock.
LEMMA AddBeginKeeps ==
    ASSUME DerivedInv, AddBegin
    PROVE  DerivedInv'
<1> USE DEF AddBegin, stored, counters, history, TempNames
<1>1. TypeInv'
  BY DEF DerivedInv, TypeInv, Processes, WriterPlaces
<1>2. CapturedInv'
  BY DEF DerivedInv, CapturedInv
<1>3. LockInv'
  BY DEF DerivedInv, LockInv, Inside, del, col
<1>4. PhaseInv'
  BY DEF DerivedInv, PhaseInv, NoJournal, del, col
<1>5. CleanInv'
  BY DEF DerivedInv, CleanInv, Inside, Due, RecordsDone, IndexDone, ActivityDone, del, col
<1>6. ReportInv'
  BY DEF DerivedInv, ReportInv, Inside, del, col
<1> QED BY <1>1, <1>2, <1>3, <1>4, <1>5, <1>6 DEF DerivedInv

\* The snapshot grows by what the call was given.
LEMMA AddEndKeeps ==
    ASSUME DerivedInv, AddEnd
    PROVE  DerivedInv'
<1> USE DEF AddEnd, stored, counters, history, IdleWriter, File
<1>1. TypeInv'
  BY DEF DerivedInv, TypeInv, CapturedInv, Files, Calls, Processes, Places, WriterPlaces,
         Phases
<1>2. CapturedInv'
  BY DEF DerivedInv, CapturedInv
<1>3. LockInv'
  BY DEF DerivedInv, LockInv, Inside, del, col
<1>4. PhaseInv'
  BY DEF DerivedInv, PhaseInv, NoJournal, del, col
<1>5. CleanInv'
  BY DEF DerivedInv, TypeInv, PhaseInv, CleanInv, Inside, Due, RecordsDone, IndexDone,
         ActivityDone, del, col, Processes, Calls, Files
<1>6. ReportInv'
  BY DEF DerivedInv, ReportInv, Inside, del, col
<1> QED BY <1>1, <1>2, <1>3, <1>4, <1>5, <1>6 DEF DerivedInv

\* A checkpoint is resumed only within the documents given.
LEMMA RebuildBeginKeeps ==
    ASSUME DerivedInv, RebuildBegin
    PROVE  DerivedInv'
<1> USE DEF RebuildBegin, stored, files, counters, history, MatchesPrefix
<1>1. TypeInv'
  BY DEF DerivedInv, TypeInv, Processes, WriterPlaces
<1>2. CapturedInv'
  BY DEF DerivedInv, CapturedInv
<1>3. LockInv'
  BY DEF DerivedInv, LockInv, Inside, del, col
<1>4. PhaseInv'
  BY DEF DerivedInv, PhaseInv, NoJournal, del, col
<1>5. CleanInv'
  BY DEF DerivedInv, CleanInv, Inside, Due, RecordsDone, IndexDone, ActivityDone, del, col
<1>6. ReportInv'
  BY DEF DerivedInv, ReportInv, Inside, del, col
<1> QED BY <1>1, <1>2, <1>3, <1>4, <1>5, <1>6 DEF DerivedInv

\* A refresh is given ready records, so none that is due or reported.
LEMMA RefreshCallKeeps ==
    ASSUME DerivedInv, RefreshCall
    PROVE  DerivedInv'
<1> USE DEF RefreshCall, stored, files, locks, history, IdleWriter
<1>1. TypeInv'
  BY DEF DerivedInv, TypeInv
<1>2. CapturedInv'
  BY DEF DerivedInv, CapturedInv
<1>3. LockInv'
  BY DEF DerivedInv, LockInv, Inside, del, col
<1>4. PhaseInv'
  BY DEF DerivedInv, PhaseInv, NoJournal, del, col
<1>5. CleanInv'
  BY DEF DerivedInv, CleanInv, Inside, Due, RecordsDone, IndexDone, ActivityDone, del, col
<1>6. ReportInv'
  BY DEF DerivedInv, ReportInv, Inside, del, col
<1> QED BY <1>1, <1>2, <1>3, <1>4, <1>5, <1>6 DEF DerivedInv

\* The replacement waits for its lock.
LEMMA RefreshBeginKeeps ==
    ASSUME DerivedInv, RefreshBegin
    PROVE  DerivedInv'
<1> USE DEF RefreshBegin, stored, files, counters, history
<1>1. TypeInv'
  BY DEF DerivedInv, TypeInv
<1>2. CapturedInv'
  BY DEF DerivedInv, CapturedInv
<1>3. LockInv'
  BY DEF DerivedInv, LockInv, Inside, del, col
<1>4. PhaseInv'
  BY DEF DerivedInv, PhaseInv, NoJournal, del, col
<1>5. CleanInv'
  BY DEF DerivedInv, CleanInv, Inside, Due, RecordsDone, IndexDone, ActivityDone, del, col
<1>6. ReportInv'
  BY DEF DerivedInv, ReportInv, Inside, del, col
<1> QED BY <1>1, <1>2, <1>3, <1>4, <1>5, <1>6 DEF DerivedInv

\* The refreshed snapshot holds what the call was given.
LEMMA RefreshEndKeeps ==
    ASSUME DerivedInv, RefreshEnd
    PROVE  DerivedInv'
<1> USE DEF RefreshEnd, stored, files, counters, history, IdleWriter, File
<1>1. TypeInv'
  BY DEF DerivedInv, TypeInv, CapturedInv, Files, Calls, Processes, Places, WriterPlaces,
         Phases
<1>2. CapturedInv'
  BY DEF DerivedInv, CapturedInv
<1>3. LockInv'
  BY DEF DerivedInv, LockInv, Inside, del, col
<1>4. PhaseInv'
  BY DEF DerivedInv, PhaseInv, NoJournal, del, col
<1>5. CleanInv'
  BY DEF DerivedInv, TypeInv, PhaseInv, CleanInv, Inside, Due, RecordsDone, IndexDone,
         ActivityDone, del, col, Processes, Calls, Files
<1>6. ReportInv'
  BY DEF DerivedInv, ReportInv, Inside, del, col
<1> QED BY <1>1, <1>2, <1>3, <1>4, <1>5, <1>6 DEF DerivedInv

\* A save that raises leaves the old file or the new one.
LEMMA SaveRaisesEffect ==
    ASSUME NEW name \in TempNames, NEW old, NEW new, NEW save \in SaveRaises(name, old, new),
           temps \subseteq TempNames
    PROVE  save.temps \subseteq TempNames /\ save.file \in {old, new}
BY DEF SaveRaises

\* A failing call gives its locks back and leaves the journal where it is; a
\* snapshot is the old one, or the one it was about to write.
LEMMA ProcessFailsKeeps ==
    ASSUME DerivedInv, NEW p \in Processes, ProcessFails(p)
    PROVE  DerivedInv'
<1>1. /\ proc' = [proc EXCEPT ![p] = Idle]
      /\ indexLock' = Released(indexLock, p)
      /\ surviveLock' = Released(surviveLock, p)
      /\ reconcileLock' = Released(reconcileLock, p)
      /\ UNCHANGED <<calls, stored, checkpoint, journal, callers, history>>
  BY DEF ProcessFails
<1>2. /\ index' \in {index, File(index.ids \ proc[p].ids)}
      /\ activity' \in {activity, File(proc[p].keep)}
      /\ activity' # activity => proc[p].at = "replacing"
      /\ temps' \subseteq TempNames
  <2>1. temps \subseteq TempNames
    BY DEF DerivedInv, TypeInv
  <2>2. CASE proc[p].at = "removing"
    <3>1. PICK save \in SaveRaises("active", index, File(index.ids \ proc[p].ids)) :
            temps' = save.temps /\ index' = save.file /\ UNCHANGED activity
      BY <2>2 DEF ProcessFails
    <3>2. "active" \in TempNames
      BY DEF TempNames
    <3> QED BY <2>1, <3>1, <3>2, SaveRaisesEffect
  <2>3. CASE proc[p].at = "replacing"
    <3>1. PICK save \in SaveRaises("activity", activity, File(proc[p].keep)) :
            temps' = save.temps /\ activity' = save.file /\ UNCHANGED index
      BY <2>3 DEF ProcessFails
    <3>2. "activity" \in TempNames
      BY DEF TempNames
    <3> QED BY <2>1, <2>3, <3>1, <3>2, SaveRaisesEffect
  <2>4. CASE proc[p].at \notin {"removing", "replacing"}
    BY <2>1, <2>4 DEF ProcessFails
  <2> QED BY <2>2, <2>3, <2>4
<1> USE <1>1, <1>2 DEF stored, callers, history, Released, Idle
<1>3. TypeInv'
  <2>1. proc[p] \in Calls /\ index \in Files /\ activity \in Files
    BY DEF DerivedInv, TypeInv
  <2>2. File(index.ids \ proc[p].ids) \in Files /\ File(proc[p].keep) \in Files
    BY <2>1 DEF Calls, File, Files
  <2>3. Idle \in Calls
    BY DEF Calls, Places
  <2>4. proc' \in [Processes -> Calls]
    BY <2>3 DEF DerivedInv, TypeInv
  <2> QED BY <2>1, <2>2, <2>4 DEF DerivedInv, TypeInv
<1>4. CapturedInv'
  BY DEF DerivedInv, CapturedInv, Processes, File
<1>5. LockInv'
  BY DEF DerivedInv, TypeInv, LockInv, Inside, del, col, Processes
<1>6. PhaseInv'
  BY DEF DerivedInv, PhaseInv, NoJournal, del, col, Processes
<1>7. CleanInv'
  BY DEF DerivedInv, CleanInv, Inside, Due, RecordsDone, IndexDone, ActivityDone, del, col,
         Processes, File
<1>8. ReportInv'
  BY DEF DerivedInv, ReportInv, Inside, del, col, Processes, File
<1> QED BY <1>3, <1>4, <1>5, <1>6, <1>7, <1>8 DEF DerivedInv

\* A failing call gives its lock back; what it wrote are documents it was given.
LEMMA WriterFailsKeeps ==
    ASSUME DerivedInv, WriterFails
    PROVE  DerivedInv'
<1>1. /\ writer' = IdleWriter
      /\ indexLock' = Released(indexLock, "writer")
      /\ UNCHANGED <<calls, stored, activity, surviveLock, reconcileLock, journal, proc, refresher,
                     history>>
  BY DEF WriterFails
<1>2. /\ index' \in {index, File(index.ids \cup writer.docs), File(writer.done)}
      /\ checkpoint' \in {checkpoint, File(writer.done \cup {Min(writer.docs \ writer.done)})}
      /\ checkpoint' # checkpoint => writer.at = "batch"
      /\ temps' \subseteq TempNames
  <2>1. temps \subseteq TempNames
    BY DEF DerivedInv, TypeInv
  <2>2. CASE writer.at \in {"adding", "publishing"}
    <3> DEFINE new == IF writer.at = "adding" THEN File(index.ids \cup writer.docs)
                                              ELSE File(writer.done)
    <3>1. PICK save \in SaveRaises("active", index, new) :
            temps' = save.temps /\ index' = save.file /\ UNCHANGED checkpoint
      BY <2>2 DEF WriterFails
    <3>2. "active" \in TempNames /\ new \in {File(index.ids \cup writer.docs), File(writer.done)}
      BY DEF TempNames
    <3> HIDE DEF new
    <3> QED BY <2>1, <3>1, <3>2, SaveRaisesEffect
  <2>3. CASE writer.at = "batch"
    <3> DEFINE new == File(writer.done \cup {Min(writer.docs \ writer.done)})
    <3>1. PICK save \in SaveRaises("checkpoint", checkpoint, new) :
            temps' = save.temps /\ checkpoint' = save.file /\ UNCHANGED index
      BY <2>3 DEF WriterFails
    <3>2. "checkpoint" \in TempNames
      BY DEF TempNames
    <3> QED BY <2>1, <2>3, <3>1, <3>2, SaveRaisesEffect
  <2>4. CASE writer.at \notin {"adding", "publishing", "batch"}
    BY <2>1, <2>4 DEF WriterFails
  <2> QED BY <2>2, <2>3, <2>4
<1>3. checkpoint' # checkpoint => checkpoint' \in Files /\ checkpoint'.ids \subseteq writer.docs
  <2>1. writer.docs \subseteq Records /\ writer.done \subseteq writer.docs
    BY DEF DerivedInv, TypeInv, CapturedInv
  <2>2. writer.at = "batch" => writer.docs \ writer.done # {}
    BY DEF DerivedInv, CapturedInv
  <2>3. writer.at = "batch" => Min(writer.docs \ writer.done) \in writer.docs
    BY <2>1, <2>2, MinIsMember
  <2> DEFINE next == Min(writer.docs \ writer.done)
  <2> HIDE DEF next
  <2>4. SUFFICES ASSUME checkpoint' # checkpoint
                 PROVE  checkpoint' \in Files /\ checkpoint'.ids \subseteq writer.docs
    OBVIOUS
  <2>5. checkpoint' = File(writer.done \cup {next}) /\ next \in writer.docs
    BY <1>2, <2>3, <2>4 DEF next
  <2>6. writer.done \cup {next} \in SUBSET Records /\ writer.done \cup {next} \subseteq writer.docs
    BY <2>1, <2>5
  <2> QED BY <2>5, <2>6 DEF File, Files
<1> USE <1>1 DEF stored, history, Released, IdleWriter
<1>4. TypeInv'
  <2>1. /\ index \in Files /\ writer.docs \in SUBSET Records /\ writer.done \in SUBSET Records
        /\ checkpoint \in Files
    BY DEF DerivedInv, TypeInv
  <2>2. File(index.ids \cup writer.docs) \in Files /\ File(writer.done) \in Files
    BY <2>1 DEF File, Files
  <2>3. index' \in Files /\ checkpoint' \in Files
    BY <1>2, <1>3, <2>1, <2>2
  <2> QED BY <1>2, <2>3 DEF DerivedInv, TypeInv, WriterPlaces
<1>5. CapturedInv'
  BY <1>2, <1>3 DEF DerivedInv, TypeInv, CapturedInv, File, Files
<1>6. LockInv'
  BY DEF DerivedInv, LockInv, Inside, del, col
<1>7. PhaseInv'
  BY DEF DerivedInv, PhaseInv, NoJournal, del, col
<1>8. index'.ids \subseteq index.ids \cup writer.docs
  BY <1>2 DEF DerivedInv, CapturedInv, File
<1>9. CleanInv'
  <2>1. IndexDone => RecordsDone
    BY DEF DerivedInv, PhaseInv, IndexDone, RecordsDone
  <2> QED BY <1>8, <2>1 DEF DerivedInv, CleanInv, Inside, Due, RecordsDone, IndexDone,
                            ActivityDone, del, col
<1>10. ReportInv'
  BY <1>8 DEF DerivedInv, ReportInv, Inside, del, col
<1> QED BY <1>4, <1>5, <1>6, <1>7, <1>9, <1>10 DEF DerivedInv

\* A failing refresh leaves the old snapshot or the one it was given.
LEMMA RefresherFailsKeeps ==
    ASSUME DerivedInv, RefresherFails
    PROVE  DerivedInv'
<1>1. activity' \in {activity, File(refresher.docs)} /\ temps' \subseteq TempNames
  <2>1. PICK save \in SaveRaises("activity", activity, File(refresher.docs)) :
          temps' = save.temps /\ activity' = save.file
    BY DEF RefresherFails
  <2>2. temps \subseteq TempNames /\ "activity" \in TempNames
    BY DEF DerivedInv, TypeInv, TempNames
  <2> QED BY <2>1, <2>2, SaveRaisesEffect
<1>2. /\ refresher.at = "replacing" /\ refresher' = IdleWriter /\ reconcileLock' = "free"
      /\ UNCHANGED <<calls, stored, index, checkpoint, indexLock, surviveLock, journal, proc, writer,
                     history>>
  BY DEF RefresherFails
<1> USE <1>2 DEF stored, history, IdleWriter
<1>3. TypeInv'
  <2>1. activity \in Files /\ refresher.docs \in SUBSET Records
    BY DEF DerivedInv, TypeInv
  <2>2. ASSUME NEW docs \in SUBSET Records PROVE File(docs) \in Files
    BY <2>2 DEF File, Files
  <2>3. activity' \in Files
    BY <1>1, <2>1, <2>2
  <2> QED BY <1>1, <2>3 DEF DerivedInv, TypeInv
<1>4. CapturedInv'
  BY <1>1 DEF DerivedInv, CapturedInv, File
<1>5. LockInv'
  BY DEF DerivedInv, LockInv, Inside, del, col
<1>6. PhaseInv'
  BY DEF DerivedInv, PhaseInv, NoJournal, del, col
<1>7. CleanInv'
  BY <1>1 DEF DerivedInv, TypeInv, PhaseInv, CleanInv, Inside, Due, RecordsDone, IndexDone,
              ActivityDone, del, col, Processes, Calls, File, Files
<1>8. ReportInv'
  BY <1>1 DEF DerivedInv, ReportInv, Inside, del, col, File
<1> QED BY <1>3, <1>4, <1>5, <1>6, <1>7, <1>8 DEF DerivedInv

\* A crash ends every call and keeps every file.
LEMMA CrashKeeps ==
    ASSUME DerivedInv, Crash
    PROVE  DerivedInv'
<1> USE DEF Crash, stored, files, history, Idle, IdleWriter
<1>1. TypeInv'
  BY DEF DerivedInv, TypeInv, CapturedInv, Files, Calls, Processes, Places, WriterPlaces,
         Phases
<1>2. CapturedInv'
  BY DEF DerivedInv, CapturedInv, Processes
<1>3. LockInv'
  BY DEF DerivedInv, LockInv, Inside, del, col, Processes
<1>4. PhaseInv'
  BY DEF DerivedInv, PhaseInv, NoJournal, del, col, Processes
<1>5. CleanInv'
  BY DEF DerivedInv, CleanInv, Inside, Due, RecordsDone, IndexDone, ActivityDone, del, col,
         Processes
<1>6. ReportInv'
  BY DEF DerivedInv, ReportInv, Inside, del, col, Processes
<1> QED BY <1>1, <1>2, <1>3, <1>4, <1>5, <1>6 DEF DerivedInv

-----------------------------------------------------------------------------
(* The theorem.                                                            *)

\* Nothing is deleted or derived yet.
LEMMA InitDerivedInv == Init => DerivedInv
<1> SUFFICES ASSUME Init PROVE DerivedInv
  OBVIOUS
<1> USE DEF Init, NoFile, NoJournal, Idle, IdleWriter, Processes
<1>1. TypeInv
  BY DEF TypeInv, Files, Calls, Places, WriterPlaces, Phases
<1>2. CapturedInv /\ LockInv /\ PhaseInv
  BY DEF CapturedInv, LockInv, PhaseInv, Inside, del, col
<1>3. CleanInv /\ ReportInv
  BY DEF CleanInv, ReportInv, RecordsDone, IndexDone, ActivityDone, Inside, del, col
<1> QED BY <1>1, <1>2, <1>3 DEF DerivedInv

\* Every step keeps the invariant.
LEMMA NextDerivedInv == DerivedInv /\ [Next]_vars => DerivedInv'
<1> SUFFICES ASSUME DerivedInv, [Next]_vars PROVE DerivedInv'
  OBVIOUS
<1>1. ASSUME NEW r \in Records, Put(r) \/ SweepDelete(r) PROVE DerivedInv'
  BY <1>1, PutKeeps, SweepDeleteKeeps
<1>2. ASSUME NEW request \in Requests, NEW ids \in (SUBSET (Records \ fresh)) \ {{}},
             Delete(request, ids)
      PROVE  DerivedInv'
  BY <1>2, DeleteKeeps
<1>3. CASE Deletion
  BY <1>3, RecoverKeeps, DeleteRecordKeeps, RecordsDeletedKeeps, DerivedReconciledKeeps,
     ClearJournalKeeps DEF Deletion
<1>4. CASE Collector
  BY <1>4, CollectBeginKeeps, CollectIndexKeeps, CollectMembersKeeps DEF Collector
<1>5. ASSUME NEW p \in Processes, Derived(p) \/ ProcessFails(p) PROVE DerivedInv'
  BY <1>5, RemoveWithoutSaveKeeps, RemoveBeginKeeps, RemoveEndKeeps, ReconcileBeginKeeps,
     ReconcileDayKeeps, ReconcileLoadKeeps, ReconcileSurvivorsKeeps, ReconcileEndKeeps,
     RebuildRaisesKeeps, ProcessFailsKeeps DEF Derived
<1>6. ASSUME NEW op \in {"add", "rebuild"}, WriterCall(op) PROVE DerivedInv'
  BY <1>6, WriterCallKeeps
<1>7. CASE Writer \/ WriterFails
  BY <1>7, WriterRefusedKeeps, AddBeginKeeps, AddEndKeeps, RebuildBeginKeeps, RebuildBatchKeeps,
     RebuildPublishKeeps, WriterFailsKeeps DEF Writer
<1>8. CASE RefreshCall \/ Refresher \/ RefresherFails \/ Crash
  BY <1>8, RefreshCallKeeps, RefreshBeginKeeps, RefreshEndKeeps, RefresherFailsKeeps, CrashKeeps
     DEF Refresher
<1>9. CASE UNCHANGED vars
  <2> USE <1>9 DEF vars, stored, files, locks, callers, history
  <2>1. TypeInv' /\ CapturedInv' /\ LockInv' /\ PhaseInv'
    BY DEF DerivedInv, TypeInv, CapturedInv, LockInv, PhaseInv, del, col
  <2>2. CleanInv' /\ ReportInv'
    BY DEF DerivedInv, CleanInv, ReportInv, Due, RecordsDone, IndexDone, ActivityDone, del, col
  <2> QED BY <2>1, <2>2 DEF DerivedInv
<1> QED BY <1>1, <1>2, <1>3, <1>4, <1>5, <1>6, <1>7, <1>8, <1>9 DEF Next

\* The invariant of stored and derived data under deletions, collections,
\* sweeps, rebuilds, refreshes, failures and crashes.
THEOREM DerivedInvariance == Spec => []DerivedInv
BY InitDerivedInv, NextDerivedInv, PTL DEF Spec

\* What DeletionCoordinator tells its journal and its callers is true: a phase
\* that says records are deleted means that storage exposes none of them, and a
\* record reported as deleted is in storage, index and activity snapshot no
\* more and never comes back.
THEOREM DeletionsTruthful == Spec => []DeletionTruthful
<1>1. DerivedInv => DeletionTruthful
  <2> SUFFICES ASSUME DerivedInv PROVE DeletionTruthful
    OBVIOUS
  <2>1. DerivedTypeOK
    <3>1. /\ ready \subseteq Records \ fresh
          /\ index.ids \cup checkpoint.ids \cup activity.ids \subseteq Records \ fresh
          /\ temps \subseteq TempNames
          /\ journal.phase \in Phases
      BY DEF DerivedInv, TypeInv, CapturedInv, Files
    <3> QED BY <3>1 DEF DerivedInv, LockInv, DerivedTypeOK, Processes, Phases, Inside, TempNames,
                          del, col
  <2>2. JournalTruthful
    BY DEF DerivedInv, CleanInv, RecordsDone, JournalTruthful
  <2>3. DeletedEverywhere
    BY DEF DerivedInv, ReportInv, DeletedEverywhere
  <2> QED BY <2>1, <2>2, <2>3 DEF DeletionTruthful
<1> QED BY <1>1, DerivedInvariance, PTL

=============================================================================
