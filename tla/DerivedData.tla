----------------------------- MODULE DerivedData -----------------------------
(***************************************************************************)
(* Deletion over stored and derived data: the journalled transaction of     *)
(* DeletionCoordinator (timeline/deletion.py), the retention sweep and the  *)
(* garbage collector (retention/), the semantic index with its rebuild      *)
(* checkpoint (index/semantic.py) and the activity snapshot with its two    *)
(* reconcilers (activity/reconcile.py, timeline/activity_rebuild.py).       *)
(*                                                                         *)
(* Each of them runs on its own and holds only the locks of the object it   *)
(* calls.  Storage is what module Storage promises: delete is atomic and    *)
(* final.  A snapshot stands for the records in it.  A crash ends the       *)
(* process; the files stay, a half-written temporary file too.              *)
(* `deletion' and `collector' share remove and reconcile_deleted, so both   *)
(* are processes of `proc'.                                                 *)
(***************************************************************************)
EXTENDS Integers, FiniteSets, FiniteSetsExt

CONSTANTS
    Records,        \* record identifiers, in the order documents are listed in
    Days,           \* the records of each day, days in the same order
    Requests,       \* request identifiers of the clients that delete
    ScopeLimit,     \* 10,000: records one deletion or rebuild may name
    DayLimit,       \* _DAY_QUERY_LIMIT: this many candidates of a day are too many
    CandidateLimit, \* candidate_limit: survivors a rebuild may collect
    FeatureLimit,   \* _MAX_RECORDS of ActivityFeatureExtractor
    MaxCalls,       \* bound on calls of add, rebuild and reconcile
    MaxFailures     \* bound on crashes and failing calls

ASSUME RecordsAssumption == IsFiniteSet(Records) /\ Records \subseteq Nat
ASSUME DaysAssumption == Days \subseteq SUBSET Records /\ UNION Days = Records /\ {} \notin Days
ASSUME BoundsAssumption == MaxCalls \in Nat /\ MaxFailures \in Nat
ASSUME LimitsAssumption ==
    {ScopeLimit, DayLimit, CandidateLimit, FeatureLimit} \subseteq Nat \ {0}

VARIABLES
    fresh, ready,         \* records not captured yet; records storage exposes
    index, checkpoint,    \* active snapshot of the index, checkpoint of a rebuild
    temps,                \* the temporary names that exist and are in the way
    activity,             \* activity snapshot
    indexLock,            \* EncryptedSemanticIndex._operation_lock
    surviveLock,          \* SurvivingRecordActivityReconciler._lock
    reconcileLock,        \* ActivityReconciler._lock
    journal,              \* deletion journal
    proc,                 \* DeletionCoordinator and GarbageCollector
    writer,               \* a call of add or rebuild
    refresher,            \* a call of ActivityReconciler.reconcile
    calls, failures,      \* counters for the bounds
    carried,              \* history: of the deleted, those a call under way was given
    reported              \* history: deleted, reported, and not carried

stored == <<fresh, ready>>
files == <<index, checkpoint, temps>>
locks == <<indexLock, surviveLock, reconcileLock>>
callers == <<writer, refresher>>
counters == <<calls, failures>>
history == <<carried, reported>>
vars == <<stored, files, activity, locks, journal, proc, callers, counters, history>>

Processes == {"deletion", "collector"}
NoFile == [exists |-> FALSE, ids |-> {}]
File(S) == [exists |-> TRUE, ids |-> S]
NoJournal == [phase |-> "none", request |-> "none", ids |-> {}]
Idle == [at |-> "idle", ids |-> {}, days |-> {}, todo |-> {}, keep |-> {}]
IdleWriter == [at |-> "idle", docs |-> {}, done |-> {}]

Init ==
    /\ fresh = Records
    /\ ready = {}
    /\ index = NoFile
    /\ checkpoint = NoFile
    /\ temps = {}
    /\ activity = NoFile
    /\ indexLock = "free" /\ surviveLock = "free" /\ reconcileLock = "free"
    /\ journal = NoJournal
    /\ proc = [p \in Processes |-> Idle]
    /\ writer = IdleWriter
    /\ refresher = IdleWriter
    /\ calls = 0
    /\ failures = 0
    /\ carried = {}
    /\ reported = {}

Enter(p, at) == proc' = [proc EXCEPT ![p].at = at]

-----------------------------------------------------------------------------
(* Storage, and the retention sweep.                                       *)

Put(r) ==
    /\ r \in fresh
    /\ fresh' = fresh \ {r}
    /\ ready' = ready \cup {r}
    /\ UNCHANGED <<files, activity, locks, journal, proc, callers, counters, history>>

\* RetentionEngine.sweep deletes what the planner selected record by record; any
\* record may be selected, and one that is gone already makes no difference.
SweepDelete(r) ==
    /\ r \in ready
    /\ ready' = ready \ {r}
    /\ UNCHANGED <<fresh, files, activity, locks, journal, proc, callers, counters, history>>

-----------------------------------------------------------------------------
(* EncryptedSemanticIndex.remove, for the deletion and the collector.      *)

AfterRemove(p) == IF p = "deletion" THEN "reconcile" ELSE "members"

\* Mutant of RemoveWithoutSave: without a snapshot remove raises, as add does.
RemoveNeedsSnapshot(p) ==
    /\ proc[p].at = "remove"
    /\ indexLock = "free"
    /\ ~index.exists \/ "active" \in temps
    /\ proc' = [proc EXCEPT ![p] = Idle]
    /\ UNCHANGED <<stored, files, activity, locks, journal, callers, counters, history>>

\* There is no snapshot to remove from, or the temporary file of an interrupted
\* save is in the way (O_EXCL) and the call raises.
RemoveWithoutSave(p) ==
    /\ proc[p].at = "remove"
    /\ indexLock = "free"
    /\ \/ ~index.exists /\ Enter(p, AfterRemove(p))
       \/ index.exists /\ "active" \in temps /\ proc' = [proc EXCEPT ![p] = Idle]
    /\ UNCHANGED <<stored, files, activity, locks, journal, callers, counters, history>>

\* _atomic_write: the temporary file ...
RemoveBegin(p) ==
    /\ proc[p].at = "remove"
    /\ indexLock = "free"
    /\ index.exists /\ "active" \notin temps
    /\ indexLock' = p
    /\ temps' = temps \cup {"active"}
    /\ Enter(p, "removing")
    /\ UNCHANGED <<stored, index, checkpoint, activity, surviveLock, reconcileLock, journal,
                   callers, counters, history>>

\* ... which replaces the snapshot.
RemoveEnd(p) ==
    /\ proc[p].at = "removing"
    /\ index' = File(index.ids \ proc[p].ids)
    /\ temps' = temps \ {"active"}
    /\ indexLock' = "free"
    /\ Enter(p, AfterRemove(p))
    /\ UNCHANGED <<stored, checkpoint, activity, surviveLock, reconcileLock, journal, callers,
                   counters, history>>

-----------------------------------------------------------------------------
(* SurvivingRecordActivityReconciler.reconcile_deleted, for both as well.  *)

AfterReconcile(p) == IF p = "deletion" THEN "reconciled" ELSE "idle"

\* The days from the first to the last capture of the snapshot.
WindowDays(members) ==
    {D \in Days : \/ D \cap members # {}
                 \/ \E r, s \in members, d \in D : r < d /\ d < s}

\* Days are asked for in their order.
FirstDay(days) == CHOOSE D \in days : \A E \in days : Min(D) <= Min(E)

\* Mutant of ReconcileBegin: nothing serialises two rebuilds.
ReconcileBeginUnlocked(p) ==
    /\ proc[p].at = "reconcile"
    /\ Cardinality(proc[p].ids) <= ScopeLimit
    /\ \/ /\ activity.ids = {}
          /\ Enter(p, AfterReconcile(p))
       \/ /\ activity.ids # {}
          /\ proc' = [proc EXCEPT ![p].at = "loading", ![p].days = WindowDays(activity.ids),
                                  ![p].todo = {}, ![p].keep = {}]
    /\ UNCHANGED <<stored, files, activity, locks, journal, callers, counters, history>>

\* Without a snapshot there is nothing to do; otherwise the days it spans are gone
\* through.
ReconcileBegin(p) ==
    /\ proc[p].at = "reconcile"
    /\ Cardinality(proc[p].ids) <= ScopeLimit
    /\ surviveLock = "free"
    /\ \/ /\ activity.ids = {}
          /\ Enter(p, AfterReconcile(p))
          /\ UNCHANGED surviveLock
       \/ /\ activity.ids # {}
          /\ surviveLock' = p
          /\ proc' = [proc EXCEPT ![p].at = "loading", ![p].days = WindowDays(activity.ids),
                                  ![p].todo = {}, ![p].keep = {}]
    /\ UNCHANGED <<stored, files, activity, indexLock, reconcileLock, journal, callers, counters,
                   history>>

\* list_candidates of a day.
ReconcileDay(p) ==
    /\ proc[p].at = "loading"
    /\ proc[p].todo = {} /\ proc[p].days # {}
    /\ LET day == FirstDay(proc[p].days) IN
       /\ Cardinality(ready \cap day) < DayLimit
       /\ proc' = [proc EXCEPT ![p].days = @ \ {day}, ![p].todo = ready \cap day]
    /\ UNCHANGED <<stored, files, activity, locks, journal, callers, counters, history>>

\* _load_survivor: a record of the scope, and one that was deleted in the meantime,
\* is skipped.
ReconcileLoad(p, r) ==
    /\ proc[p].at = "loading"
    /\ r \in proc[p].todo
    /\ Cardinality(proc[p].keep) < CandidateLimit
    /\ proc' = [proc EXCEPT ![p].todo = @ \ {r},
                            ![p].keep = @ \cup ({r} \cap (ready \ proc[p].ids))]
    /\ UNCHANGED <<stored, files, activity, locks, journal, callers, counters, history>>

\* ActivityReconciler.reconcile of the survivors: clusters and summaries ...
ReconcileSurvivors(p) ==
    /\ proc[p].at = "loading"
    /\ proc[p].days = {} /\ proc[p].todo = {}
    /\ reconcileLock = "free"
    /\ reconcileLock' = p
    /\ Enter(p, "replacing")
    /\ UNCHANGED <<stored, files, activity, indexLock, surviveLock, journal, callers, counters,
                   history>>

\* The features of so many records are computed, and no temporary file of this
\* process is in the way (O_EXCL).
Replaceable(docs) == Cardinality(docs) <= FeatureLimit /\ "activity" \notin temps

\* ... and EncryptedActivityStore.replace.
ReconcileEnd(p) ==
    /\ proc[p].at = "replacing"
    /\ Replaceable(proc[p].keep)
    /\ activity' = File(proc[p].keep)
    /\ surviveLock' = IF surviveLock = p THEN "free" ELSE surviveLock
    /\ reconcileLock' = "free"
    /\ Enter(p, AfterReconcile(p))
    /\ UNCHANGED <<stored, files, indexLock, journal, callers, counters, history>>

Released(lock, holder) == IF lock = holder THEN "free" ELSE lock

\* A rebuild that is too large, or cannot be written, raises; the same one raises
\* again as long as the records stay.
RebuildRaises(p) ==
    /\ \/ proc[p].at = "reconcile" /\ Cardinality(proc[p].ids) > ScopeLimit
       \/ /\ proc[p].at = "loading" /\ proc[p].todo = {} /\ proc[p].days # {}
          /\ Cardinality(ready \cap FirstDay(proc[p].days)) >= DayLimit
       \/ /\ proc[p].at = "loading" /\ proc[p].todo # {}
          /\ Cardinality(proc[p].keep) >= CandidateLimit
       \/ proc[p].at = "replacing" /\ ~Replaceable(proc[p].keep)
    /\ proc' = [proc EXCEPT ![p] = Idle]
    /\ surviveLock' = Released(surviveLock, p)
    /\ reconcileLock' = Released(reconcileLock, p)
    /\ UNCHANGED <<stored, files, activity, indexLock, journal, callers, counters, history>>

-----------------------------------------------------------------------------
(* DeletionCoordinator.                                                    *)

\* Where _resume goes on.
ResumeAt(phase) ==
    CASE phase = "planned"            -> "records"
      [] phase = "records-deleted"    -> "remove"
      [] phase = "derived-reconciled" -> "clear"

\* Records that a call which has not ended was given.
Carried == writer.docs \cup refresher.docs

\* _resume, of the journal as this step leaves it.
ResumeJournal ==
    /\ carried' = IF journal'.phase = "records-deleted" THEN journal'.ids \cap Carried ELSE carried
    /\ proc' = [proc EXCEPT !["deletion"] =
                    [at |-> ResumeAt(journal'.phase), ids |-> journal'.ids, days |-> {},
                     todo |-> journal'.ids, keep |-> {}]]

\* delete: a new transaction is journalled, the one under way is taken up again;
\* any other request is refused while the journal is there, and one that names too
\* many records always.
Delete(request, ids) ==
    /\ proc["deletion"].at = "idle"
    /\ Cardinality(ids) <= ScopeLimit
    /\ \/ journal = NoJournal
       \/ journal.request = request /\ journal.ids = ids
    /\ journal' = IF journal = NoJournal
                  THEN [phase |-> "planned", request |-> request, ids |-> ids]
                  ELSE journal
    /\ ResumeJournal
    /\ UNCHANGED <<stored, files, activity, locks, callers, counters, reported>>

Recover ==
    /\ proc["deletion"].at = "idle"
    /\ journal # NoJournal
    /\ UNCHANGED journal
    /\ ResumeJournal
    /\ UNCHANGED <<stored, files, activity, locks, callers, counters, reported>>

DeleteRecord(r) ==
    /\ proc["deletion"].at = "records"
    /\ r \in proc["deletion"].todo
    /\ ready' = ready \ {r}
    /\ proc' = [proc EXCEPT !["deletion"].todo = @ \ {r}]
    /\ UNCHANGED <<fresh, files, activity, locks, journal, callers, counters, history>>

\* Mutant of RecordsDeleted: the phase is written before the deletions.
RecordsDeletedEarly ==
    /\ proc["deletion"].at = "records"
    /\ journal' = [journal EXCEPT !.phase = "records-deleted"]
    /\ carried' = journal.ids \cap Carried
    /\ IF proc["deletion"].todo = {} THEN Enter("deletion", "remove") ELSE UNCHANGED proc
    /\ UNCHANGED <<stored, files, activity, locks, callers, counters, reported>>

RecordsDeleted ==
    /\ proc["deletion"].at = "records"
    /\ proc["deletion"].todo = {}
    /\ journal' = [journal EXCEPT !.phase = "records-deleted"]
    /\ carried' = journal.ids \cap Carried
    /\ Enter("deletion", "remove")
    /\ UNCHANGED <<stored, files, activity, locks, callers, counters, reported>>

DerivedReconciled ==
    /\ proc["deletion"].at = "reconciled"
    /\ journal' = [journal EXCEPT !.phase = "derived-reconciled"]
    /\ Enter("deletion", "clear")
    /\ UNCHANGED <<stored, files, activity, locks, callers, counters, history>>

ClearJournal ==
    /\ proc["deletion"].at = "clear"
    /\ journal' = NoJournal
    /\ proc' = [proc EXCEPT !["deletion"] = Idle]
    /\ reported' = reported \cup (journal.ids \ carried)
    /\ carried' = {}
    /\ UNCHANGED <<stored, files, activity, locks, callers, counters>>

-----------------------------------------------------------------------------
(* GarbageCollector.collect.                                               *)

\* The ready records are listed; `keep' holds them until members are compared.
CollectBegin ==
    /\ proc["collector"].at = "idle"
    /\ proc' = [proc EXCEPT !["collector"] = [Idle EXCEPT !.at = "listed", !.keep = ready]]
    /\ UNCHANGED <<stored, files, activity, locks, journal, callers, counters, history>>

\* _prune_index: record_ids, then remove if an entry is stale.
CollectIndex ==
    /\ proc["collector"].at = "listed"
    /\ indexLock = "free"
    /\ LET stale == index.ids \ proc["collector"].keep IN
       proc' = [proc EXCEPT !["collector"].at = IF stale = {} THEN "members" ELSE "remove",
                            !["collector"].ids = stale]
    /\ UNCHANGED <<stored, files, activity, locks, journal, callers, counters, history>>

\* Mutant of CollectMembers: stale members of the activity snapshot are missed.
CollectMembersNever ==
    /\ proc["collector"].at = "members"
    /\ proc' = [proc EXCEPT !["collector"] = Idle]
    /\ UNCHANGED <<stored, files, activity, locks, journal, callers, counters, history>>

\* _rebuild_activity.
CollectMembers ==
    /\ proc["collector"].at = "members"
    /\ LET stale == activity.ids \ proc["collector"].keep IN
       proc' = [proc EXCEPT !["collector"] =
                    IF stale = {} THEN Idle ELSE [Idle EXCEPT !.at = "reconcile", !.ids = stale]]
    /\ UNCHANGED <<stored, files, activity, locks, journal, callers, counters, history>>

-----------------------------------------------------------------------------
(* EncryptedSemanticIndex.add and rebuild; ActivityReconciler.reconcile.   *)

\* The caller passes records it read from storage, then waits for the lock.
WriterCall(op) ==
    /\ writer.at = "idle"
    /\ calls < MaxCalls
    /\ calls' = calls + 1
    /\ \E docs \in SUBSET ready :
         docs # {} /\ writer' = [at |-> op, docs |-> docs, done |-> {}]
    /\ UNCHANGED <<stored, files, activity, locks, journal, proc, refresher, failures,
                   history>>

\* add before the first rebuild, or a temporary file in the way: the call raises.
WriterRefused ==
    /\ \/ writer.at = "add" /\ indexLock = "free" /\ (~index.exists \/ "active" \in temps)
       \/ writer.at = "batches" /\ writer.docs \ writer.done # {} /\ "checkpoint" \in temps
       \/ writer.at = "batches" /\ writer.docs \ writer.done = {} /\ "active" \in temps
    /\ writer' = IdleWriter
    /\ indexLock' = "free"
    /\ UNCHANGED <<stored, files, activity, surviveLock, reconcileLock, journal, proc, refresher,
                   counters, history>>

AddBegin ==
    /\ writer.at = "add"
    /\ indexLock = "free"
    /\ index.exists /\ "active" \notin temps
    /\ indexLock' = "writer"
    /\ temps' = temps \cup {"active"}
    /\ writer' = [writer EXCEPT !.at = "adding"]
    /\ UNCHANGED <<stored, index, checkpoint, activity, surviveLock, reconcileLock, journal, proc,
                   refresher, counters, history>>

AddEnd ==
    /\ writer.at = "adding"
    /\ index' = File(index.ids \cup writer.docs)
    /\ temps' = temps \ {"active"}
    /\ indexLock' = "free"
    /\ writer' = IdleWriter
    /\ UNCHANGED <<stored, checkpoint, activity, surviveLock, reconcileLock, journal, proc,
                   refresher, counters, history>>

\* Mutant of MatchesPrefix: any checkpoint that is not larger is resumed.
MatchesAnything(entries, docs) == Cardinality(entries) <= Cardinality(docs)

\* _matches_prefix: the checkpoint holds the first of the documents.
MatchesPrefix(entries, docs) ==
    entries \subseteq docs /\ \A r \in entries, s \in docs \ entries : r < s

RebuildBegin ==
    /\ writer.at = "rebuild"
    /\ indexLock = "free"
    /\ indexLock' = "writer"
    /\ writer' = [writer EXCEPT !.at = "batches",
                                !.done = IF checkpoint.exists
                                              /\ MatchesPrefix(checkpoint.ids, writer.docs)
                                         THEN checkpoint.ids ELSE {}]
    /\ UNCHANGED <<stored, files, activity, surviveLock, reconcileLock, journal, proc, refresher,
                   counters, history>>

\* A batch of one document is embedded and the checkpoint saved.
RebuildBatch ==
    /\ writer.docs \ writer.done # {}
    /\ \/ /\ writer.at = "batches"
          /\ "checkpoint" \notin temps
          /\ temps' = temps \cup {"checkpoint"}
          /\ writer' = [writer EXCEPT !.at = "batch"]
          /\ UNCHANGED checkpoint
       \/ /\ writer.at = "batch"
          /\ temps' = temps \ {"checkpoint"}
          /\ writer' = [writer EXCEPT !.at = "batches",
                                      !.done = @ \cup {Min(writer.docs \ writer.done)}]
          /\ checkpoint' = File(writer'.done)
    /\ UNCHANGED <<stored, index, activity, locks, journal, proc, refresher, counters,
                   history>>

\* All batches are done: the snapshot is replaced, then the checkpoint unlinked.
RebuildPublish ==
    /\ writer.docs \ writer.done = {}
    /\ \/ /\ writer.at = "batches"
          /\ "active" \notin temps
          /\ temps' = temps \cup {"active"}
          /\ writer' = [writer EXCEPT !.at = "publishing"]
          /\ UNCHANGED <<index, checkpoint, indexLock>>
       \/ /\ writer.at = "publishing"
          /\ temps' = temps \ {"active"}
          /\ index' = File(writer.done)
          /\ writer' = [writer EXCEPT !.at = "published"]
          /\ UNCHANGED <<checkpoint, indexLock>>
       \/ /\ writer.at = "published"
          /\ checkpoint' = NoFile
          /\ indexLock' = "free"
          /\ writer' = IdleWriter
          /\ UNCHANGED <<index, temps>>
    /\ UNCHANGED <<stored, activity, surviveLock, reconcileLock, journal, proc, refresher,
                   counters, history>>

RefreshCall ==
    /\ refresher.at = "idle"
    /\ calls < MaxCalls
    /\ calls' = calls + 1
    /\ \E docs \in SUBSET ready : refresher' = [at |-> "waiting", docs |-> docs, done |-> {}]
    /\ UNCHANGED <<stored, files, activity, locks, journal, proc, writer, failures,
                   history>>

RefreshBegin ==
    /\ refresher.at = "waiting"
    /\ reconcileLock = "free"
    /\ reconcileLock' = "refresher"
    /\ refresher' = [refresher EXCEPT !.at = "replacing"]
    /\ UNCHANGED <<stored, files, activity, indexLock, surviveLock, journal, proc, writer,
                   counters, history>>

RefreshEnd ==
    /\ refresher.at = "replacing"
    /\ activity' = IF Replaceable(refresher.docs) THEN File(refresher.docs) ELSE activity
    /\ reconcileLock' = "free"
    /\ refresher' = IdleWriter
    /\ UNCHANGED <<stored, files, indexLock, surviveLock, journal, proc, writer, counters,
                   history>>

-----------------------------------------------------------------------------
(* Failures.                                                               *)

\* _atomic_write raises: the file could not be written and the temporary one is
\* taken away, or os.replace failed and it stays, or the directory could not be
\* synced and the new file is in place.
SaveRaises(name, old, new) ==
    {[temps |-> temps \ {name}, file |-> old], [temps |-> temps \cup {name}, file |-> old],
     [temps |-> temps \ {name}, file |-> new]}

\* A call of the deletion or the collector raises.
ProcessFails(p) ==
    /\ proc[p].at # "idle"
    /\ failures < MaxFailures
    /\ failures' = failures + 1
    /\ proc' = [proc EXCEPT ![p] = Idle]
    /\ indexLock' = Released(indexLock, p)
    /\ surviveLock' = Released(surviveLock, p)
    /\ reconcileLock' = Released(reconcileLock, p)
    /\ \/ /\ proc[p].at = "removing"
          /\ \E save \in SaveRaises("active", index, File(index.ids \ proc[p].ids)) :
               temps' = save.temps /\ index' = save.file
          /\ UNCHANGED activity
       \/ /\ proc[p].at = "replacing" /\ Replaceable(proc[p].keep)
          /\ \E save \in SaveRaises("activity", activity, File(proc[p].keep)) :
               temps' = save.temps /\ activity' = save.file
          /\ UNCHANGED index
       \/ /\ proc[p].at \notin {"removing", "replacing"}
          /\ UNCHANGED <<temps, index, activity>>
    /\ UNCHANGED <<calls, stored, checkpoint, journal, callers, history>>

\* A call of add or rebuild raises.
WriterFails ==
    /\ writer.at # "idle"
    /\ failures < MaxFailures
    /\ failures' = failures + 1
    /\ writer' = IdleWriter
    /\ indexLock' = Released(indexLock, "writer")
    /\ \/ /\ writer.at \in {"adding", "publishing"}
          /\ \E save \in SaveRaises("active", index,
                                    IF writer.at = "adding" THEN File(index.ids \cup writer.docs)
                                                            ELSE File(writer.done)) :
               temps' = save.temps /\ index' = save.file
          /\ UNCHANGED checkpoint
       \/ /\ writer.at = "batch"
          /\ \E save \in SaveRaises("checkpoint", checkpoint,
                             File(writer.done \cup {Min(writer.docs \ writer.done)})) :
               temps' = save.temps /\ checkpoint' = save.file
          /\ UNCHANGED index
       \/ /\ writer.at \notin {"adding", "publishing", "batch"}
          /\ UNCHANGED <<temps, index, checkpoint>>
    /\ UNCHANGED <<calls, stored, activity, surviveLock, reconcileLock, journal, proc, refresher,
                   history>>

\* A call of ActivityReconciler.reconcile raises; before it writes nothing changed.
RefresherFails ==
    /\ refresher.at = "replacing" /\ Replaceable(refresher.docs)
    /\ failures < MaxFailures
    /\ failures' = failures + 1
    /\ refresher' = IdleWriter
    /\ reconcileLock' = "free"
    /\ \E save \in SaveRaises("activity", activity, File(refresher.docs)) :
         temps' = save.temps /\ activity' = save.file
    /\ UNCHANGED <<calls, stored, index, checkpoint, indexLock, surviveLock, journal, proc, writer,
                   history>>

\* The process ends where it is.  The temporary file of the activity snapshot has
\* the process in its name and is in nobody's way afterwards.
Crash ==
    /\ failures < MaxFailures
    /\ failures' = failures + 1
    /\ proc' = [p \in Processes |-> Idle]
    /\ writer' = IdleWriter
    /\ refresher' = IdleWriter
    /\ indexLock' = "free" /\ surviveLock' = "free" /\ reconcileLock' = "free"
    /\ temps' = temps \ {"activity"}
    /\ UNCHANGED <<calls, stored, index, checkpoint, activity, journal, history>>

-----------------------------------------------------------------------------

Derived(p) ==
    \/ RemoveWithoutSave(p)
    \/ RemoveBegin(p)
    \/ RemoveEnd(p)
    \/ ReconcileBegin(p)
    \/ ReconcileDay(p)
    \/ \E r \in Records : ReconcileLoad(p, r)
    \/ ReconcileSurvivors(p)
    \/ ReconcileEnd(p)
    \/ RebuildRaises(p)

Deletion ==
    \/ Recover
    \/ \E r \in Records : DeleteRecord(r)
    \/ RecordsDeleted
    \/ DerivedReconciled
    \/ ClearJournal

Collector == CollectBegin \/ CollectIndex \/ CollectMembers

Writer == WriterRefused \/ AddBegin \/ AddEnd \/ RebuildBegin \/ RebuildBatch \/ RebuildPublish

Refresher == RefreshBegin \/ RefreshEnd

Next ==
    \/ \E r \in Records : Put(r) \/ SweepDelete(r)
    \/ \E request \in Requests, ids \in (SUBSET (Records \ fresh)) \ {{}} : Delete(request, ids)
    \/ Deletion
    \/ Collector
    \/ \E p \in Processes : Derived(p) \/ ProcessFails(p)
    \/ \E op \in {"add", "rebuild"} : WriterCall(op)
    \/ Writer
    \/ WriterFails
    \/ RefreshCall
    \/ Refresher
    \/ RefresherFails
    \/ Crash

Spec == Init /\ [][Next]_vars

\* A call that was made goes on; the locks are asyncio locks and serve waiting
\* callers in their order, so a caller that waits again and again gets them.
\* Two assumptions are on the program that embeds these classes, which is not in
\* the package: it calls recover for a deletion that was interrupted
\* (docs/timeline.md) and runs the collector on a schedule (docs/retention.md).
FairSpec ==
    /\ Spec
    /\ SF_vars(Deletion \/ Derived("deletion"))
    /\ SF_vars(Collector \/ Derived("collector"))
    /\ SF_vars(Writer)
    /\ SF_vars(Refresher)

-----------------------------------------------------------------------------
(* Properties.                                                             *)

\* Types; a lock is held exactly by the call that is inside it.
DerivedTypeOK ==
    /\ ready \subseteq Records \ fresh
    /\ index.ids \cup checkpoint.ids \cup activity.ids \subseteq Records \ fresh
    /\ temps \subseteq {"active", "checkpoint", "activity"}
    /\ journal.phase \in {"none", "planned", "records-deleted", "derived-reconciled"}
    /\ \A p \in Processes :
         /\ indexLock = p <=> proc[p].at = "removing"
         /\ surviveLock = p <=> proc[p].at \in {"loading", "replacing"}
         /\ reconcileLock = p <=> proc[p].at = "replacing"
    /\ indexLock = "writer" <=> writer.at \notin {"idle", "add", "rebuild"}

\* The journal tells the truth: once it says that records are deleted, storage
\* exposes none of them, whichever crashes and retries led there.
JournalTruthful ==
    journal.phase \in {"records-deleted", "derived-reconciled"} => journal.ids \cap ready = {}

\* A record whose deletion was reported is in no place a reader looks at:
\* storage, index or activity snapshot.  Collections, sweeps, rebuilds that
\* resume a checkpoint, failures and crashes do not bring it back.  Excepted are
\* records that a call of add, rebuild or reconcile had been given before the
\* report: these the collector removes later.
DeletedEverywhere ==
    reported \cap (ready \cup index.ids \cup activity.ids) = {}

\* What DeletionCoordinator tells its journal and its callers is true of storage, index and
\* activity snapshot, and each object's lock is held by exactly the call inside it.
DeletionTruthful == DerivedTypeOK /\ JournalTruthful /\ DeletedEverywhere

\* A temporary file that nobody is writing: every save of the index fails on it for
\* good, every save of the activity snapshot until the process ends.
IndexStuck == "active" \in temps /\ indexLock = "free"
ActivityStuck == "activity" \in temps

\* The activity snapshot spans more records than a rebuild takes, or holds more stale
\* ones than a collection may name: every rebuild raises while this lasts.
Overloaded ==
    LET days == WindowDays(activity.ids)
        candidates == Cardinality(ready \cap UNION days)
    IN \/ \E D \in days : Cardinality(ready \cap D) >= DayLimit
       \/ candidates > CandidateLimit \/ candidates > FeatureLimit
       \/ Cardinality(activity.ids \ ready) > ScopeLimit

\* Derived data of records that storage no longer has disappears, all of it.  From the
\* index it does unless an interrupted save blocked the index, and however large the activity
\* snapshot has grown, since the collector prunes the index first; from the activity
\* snapshot it does if that is not blocked either and a rebuild is within its limits
\* from some time on.
StaleVanishes ==
    /\ index.ids \ ready # {} ~> (index.ids \subseteq ready \/ IndexStuck)
    /\ <>[]~Overloaded =>
          (activity.ids \ ready # {}
             ~> (activity.ids \subseteq ready \/ IndexStuck \/ ActivityStuck))

\* An interrupted deletion is completed, unless an interrupted save blocked a snapshot;
\* a rebuild that is too large holds it up no longer than it is.
DeletionCompletes ==
    <>[]~Overloaded =>
        (journal # NoJournal ~> (journal = NoJournal \/ IndexStuck \/ ActivityStuck))

=============================================================================
