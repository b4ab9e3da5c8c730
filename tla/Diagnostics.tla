---------------------------- MODULE Diagnostics ----------------------------
(***************************************************************************)
(* Health reports, the privacy gates that read them, and safe repair.  The *)
(* checks of a report run concurrently, each against a dependency that may *)
(* change, raise or hang meanwhile; the report is judged later by          *)
(* ensure_capture_allowed and ensure_persistence_allowed.                  *)
(***************************************************************************)
EXTENDS Integers, FiniteSets, Options

CONSTANTS Watched,           \* the checks HealthService is built with
          MinFreeBytes,
          Raised,            \* the answer of a port that raises
          RepairCommands,    \* the repair commands in use
          RepairPorts,       \* those whose port is configured
          Repairers,         \* the callers of SafeRepairService.run, which takes no lock
          MaxChanges         \* bound: changes of dependencies and repairs

VARIABLES world,       \* what each dependency would answer now
          results,     \* the verdicts of the report being assembled
          manifest,    \* what the index check has read of the index
          phase,       \* "idle", "checking", "reported"
          failing,     \* history: dependencies down ever since the report began
          troubled,    \* history: dependencies down or late at some time since
          repair,      \* the repair each caller has under way
          ledger,      \* RepairLedger: the last outcome of each command
          repairLog,   \* the REPAIR_OPERATION events of the audit
          repairsDone,     \* history: commands whose operation really ran
          changes

diagnosticsVars == <<world, results, manifest, phase, failing, troubled,
                     repair, ledger, repairLog, repairsDone, changes>>
reportVars == <<results, manifest, phase, failing, troubled>>
repairVars == <<repair, ledger, repairLog, repairsDone>>

CheckIds == {"lifecycle", "capture-backend", "metadata-sources", "ocr",
             "encryption-keys", "redaction", "storage-integrity", "indexes",
             "model-providers", "disk-quota", "daemon-ipc"}
HealthStates == {"healthy", "degraded", "capture-blocking"}
OptionalChecks == {"metadata-sources", "ocr", "indexes", "model-providers", "daemon-ipc"}

ASSUME DiagnosticsAssumption ==
  /\ Watched \subseteq CheckIds
  /\ RepairPorts \subseteq RepairCommands
  /\ MinFreeBytes \in Nat \ {0}

----------------------------------------------------------------------------
(* The checks: what each makes of the answer of its port.                  *)

OrBlocking(good) == IF good THEN "healthy" ELSE "capture-blocking"
OrDegraded(good) == IF good THEN "healthy" ELSE "degraded"

LifecycleCheck(s) ==
  CASE s.dependencies -> "healthy"
    [] ~s.dependencies /\ s.faulted -> "capture-blocking"
    [] OTHER -> "degraded"
CaptureBackendCheck(available) == OrBlocking(available)
MetadataSourcesCheck(sources) == OrDegraded(FALSE \notin sources)
OcrCheck(available) == OrDegraded(available)
RedactionCheck(functional) == OrBlocking(functional)
EncryptionKeysCheck(status) == OrBlocking(status = "ready")
StorageIntegrityCheck(s) ==
  CASE ~s.available -> "capture-blocking"
    [] s.available /\ s.quarantined > 0 -> "degraded"
    [] OTHER -> "healthy"
IndexCheck(read, stored) == OrDegraded(read # None /\ read = stored.records)
ModelProvidersCheck(providers) == OrDegraded(FALSE \notin providers)
DiskQuotaCheck(usage) == OrBlocking(usage.free >= MinFreeBytes)
DaemonIpcCheck(responsive) == OrDegraded(responsive)

InvalidUsage(usage) == usage.total <= 0 \/ usage.free > usage.total

Statuses == {"ready", "locked", "unavailable", "invalid", "revoked"}

\* What the ports may answer; Raised stands for an exception of the port.
Answers(c) ==
  {Raised} \union
  (CASE c = "lifecycle" -> [dependencies : {TRUE}, faulted : {FALSE}]
                              \union [dependencies : {FALSE}, faulted : BOOLEAN]
     [] c \in {"metadata-sources", "model-providers"} -> SUBSET BOOLEAN
     [] c = "encryption-keys" -> Statuses
     [] c = "storage-integrity" -> [available : BOOLEAN, quarantined : 0..1, records : 0..1]
     [] c = "indexes" -> {None} \union (0..1)
     [] c = "disk-quota" -> [free : 0..(MinFreeBytes + 1), total : {MinFreeBytes}]
     [] OTHER -> BOOLEAN)

Raises(c, a) == a = Raised \/ (c = "disk-quota" /\ InvalidUsage(a))

Verdict(c, a) ==
  CASE c = "lifecycle"         -> LifecycleCheck(a)
    [] c = "capture-backend"   -> CaptureBackendCheck(a)
    [] c = "metadata-sources"  -> MetadataSourcesCheck(a)
    [] c = "ocr"               -> OcrCheck(a)
    [] c = "redaction"         -> RedactionCheck(a)
    [] c = "encryption-keys"   -> EncryptionKeysCheck(a)
    [] c = "storage-integrity" -> StorageIntegrityCheck(a)
    [] c = "model-providers"   -> ModelProvidersCheck(a)
    [] c = "disk-quota"        -> DiskQuotaCheck(a)
    [] c = "daemon-ipc"        -> DaemonIpcCheck(a)

\* Mutant: whatever fails to answer only degrades.
FailureStateLenient(c) == "degraded"
\* _failure_state: what a check that raised or ran out of time reports.
FailureState(c) == IF c \in OptionalChecks THEN "degraded" ELSE "capture-blocking"

CaptureBlocked(report) == \E c \in DOMAIN report : report[c] = "capture-blocking"

Overall(report) ==
  CASE CaptureBlocked(report) -> "capture-blocking"
    [] ~CaptureBlocked(report) /\ (\E c \in DOMAIN report : report[c] = "degraded") -> "degraded"
    [] OTHER -> "healthy"

PersistenceChecks == {"encryption-keys", "redaction", "storage-integrity"}
PersistenceAllowed(report) ==
  \A c \in PersistenceChecks \intersect DOMAIN report : report[c] # "capture-blocking"

----------------------------------------------------------------------------
(* The report.                                                             *)

\* A dependency is down when its port raises or answers what must block.
Down(c, a) ==
  \/ Raises(c, a)
  \/ c = "lifecycle" /\ a.faulted
  \/ c \in {"capture-backend", "redaction"} /\ ~a
  \/ c = "encryption-keys" /\ a # "ready"
  \/ c = "storage-integrity" /\ ~a.available
  \/ c = "disk-quota" /\ a.free < MinFreeBytes

Good(c) == CASE c = "lifecycle" -> [dependencies |-> TRUE, faulted |-> FALSE]
             [] c \in {"metadata-sources", "model-providers"} -> {TRUE}
             [] c = "encryption-keys" -> "ready"
             [] c = "storage-integrity" -> [available |-> TRUE, quarantined |-> 0, records |-> 0]
             [] c = "indexes" -> 0
             [] c = "disk-quota" -> [free |-> MinFreeBytes, total |-> MinFreeBytes]
             [] OTHER -> TRUE

NoRepair == [command |-> None, status |-> None]

DiagnosticsInit ==
  /\ world = [c \in Watched |-> Good(c)]
  /\ results = [c \in {} |-> None]
  /\ manifest = None
  /\ phase = "idle"
  /\ failing = {} /\ troubled = {}
  /\ repair = [p \in Repairers |-> NoRepair]
  /\ ledger = [c \in RepairCommands |-> None]
  /\ repairLog = {} /\ repairsDone = {}
  /\ changes = 0

Counted == changes < MaxChanges /\ changes' = changes + 1

\* A dependency changes, whatever is under way.
DependencyChanges(c) ==
  /\ Counted
  /\ \E a \in Answers(c) \ {world[c]} :
       /\ world' = [world EXCEPT ![c] = a]
       /\ failing' = IF Down(c, a) THEN failing ELSE failing \ {c}
       /\ troubled' = IF Down(c, a) THEN troubled \union {c} ELSE troubled
  /\ UNCHANGED <<results, manifest, phase, repairVars>>

ReportBegin ==
  /\ phase # "checking"
  /\ phase' = "checking"
  /\ results' = [c \in {} |-> None]
  /\ manifest' = None
  /\ failing' = {c \in Watched : Down(c, world[c])}
  /\ troubled' = failing'
  /\ UNCHANGED <<world, repairVars, changes>>

Reports(c, state) ==
  /\ results' = [d \in DOMAIN results \union {c} |-> IF d = c THEN state ELSE results[d]]
  /\ UNCHANGED <<world, phase, failing, repairVars, changes>>

Unfinished(c) == phase = "checking" /\ c \notin DOMAIN results

CheckAnswers(c) ==
  /\ Unfinished(c) /\ c # "indexes"
  /\ ~Raises(c, world[c])
  /\ Reports(c, Verdict(c, world[c]))
  /\ UNCHANGED <<manifest, troubled>>

\* The index check asks the index and then the storage.
IndexReadsManifest ==
  /\ Unfinished("indexes") /\ manifest = None
  /\ world["indexes"] # Raised
  /\ IF world["indexes"] = None
       THEN Reports("indexes", "degraded") /\ UNCHANGED <<manifest, troubled>>
       ELSE /\ manifest' = world["indexes"]
            /\ UNCHANGED <<world, results, phase, failing, troubled, repairVars, changes>>

IndexReadsStorage ==
  /\ Unfinished("indexes") /\ manifest # None
  /\ world["storage-integrity"] # Raised
  /\ Reports("indexes", IndexCheck(manifest, world["storage-integrity"]))
  /\ UNCHANGED <<manifest, troubled>>

\* The check raises, or per_check_timeout_seconds pass before it answers.
CheckFails(c) ==
  /\ Unfinished(c)
  /\ Reports(c, FailureState(c))
  /\ troubled' = troubled \union {c}
  /\ UNCHANGED manifest

\* asyncio.gather has every result; the guards judge this report from now on.
ReportAssembled ==
  /\ phase = "checking"
  /\ DOMAIN results = Watched
  /\ phase' = "reported"
  /\ UNCHANGED <<world, results, manifest, failing, troubled, repairVars, changes>>

----------------------------------------------------------------------------
(* SafeRepairService.run                                                   *)

Outcome(command, status) == [command |-> command, status |-> status]

\* A rebuilt index holds what the storage holds.
Repaired(command) ==
  IF command = "index-rebuild" /\ {"indexes", "storage-integrity"} \subseteq Watched
       /\ world["storage-integrity"] # Raised
    THEN [world EXCEPT !["indexes"] = world["storage-integrity"].records]
    ELSE world

\* The caller's outcome waits for _finalize while other callers run.
RepairEnds(p, command, status) ==
  /\ repair[p] = NoRepair /\ Counted
  /\ repair' = [repair EXCEPT ![p] = Outcome(command, status)]
  /\ UNCHANGED <<reportVars, ledger, repairLog>>

RepairExecutes(p, command) ==
  IF command \in RepairPorts
    THEN /\ RepairEnds(p, command, "completed")
         /\ repairsDone' = repairsDone \union {command}
         /\ world' = Repaired(command)
    ELSE RepairEnds(p, command, "unavailable") /\ UNCHANGED <<repairsDone, world>>

RepairRaises(p, command) ==
  /\ command \in RepairPorts
  /\ RepairEnds(p, command, "failed")
  /\ UNCHANGED <<world, repairsDone>>

RepairReturns(p) == repair[p] # NoRepair /\ repair' = [repair EXCEPT ![p] = NoRepair]

\* Mutant: the outcome is journaled before it is audited.
RepairFinalizedBlind(p) ==
  /\ RepairReturns(p)
  /\ ledger' = [ledger EXCEPT ![repair[p].command] = repair[p].status]
  /\ UNCHANGED <<world, reportVars, repairLog, repairsDone, changes>>
\* _finalize, without an await: the audit event, then the ledger.
RepairFinalized(p) ==
  /\ RepairReturns(p)
  /\ repairLog' = repairLog \union {repair[p]}
  /\ ledger' = [ledger EXCEPT ![repair[p].command] = repair[p].status]
  /\ UNCHANGED <<world, reportVars, repairsDone, changes>>

\* The audit sink raised: the operation ran and the caller gets an exception.
RepairAuditFails(p) ==
  /\ RepairReturns(p)
  /\ UNCHANGED <<world, reportVars, ledger, repairLog, repairsDone, changes>>

\* The daemon ends: the ledger is in memory, the audit is not.
DiagnosticsRestart ==
  /\ repair' = [p \in Repairers |-> NoRepair]
  /\ ledger' = [c \in RepairCommands |-> None]
  /\ phase' = "idle" /\ results' = [c \in {} |-> None] /\ manifest' = None
  /\ failing' = {} /\ troubled' = {}
  /\ UNCHANGED <<world, repairLog, repairsDone, changes>>

DiagnosticsNext ==
  \/ \E c \in Watched : DependencyChanges(c) \/ CheckAnswers(c) \/ CheckFails(c)
  \/ ReportBegin
  \/ "indexes" \in Watched /\ (IndexReadsManifest \/ IndexReadsStorage)
  \/ ReportAssembled
  \/ \E p \in Repairers, r \in RepairCommands : RepairExecutes(p, r) \/ RepairRaises(p, r)
  \/ \E p \in Repairers : RepairFinalized(p) \/ RepairAuditFails(p)
  \/ DiagnosticsRestart

DiagnosticsSpec == DiagnosticsInit /\ [][DiagnosticsNext]_diagnosticsVars

----------------------------------------------------------------------------
(* Properties.                                                             *)

DiagnosticsTypeOK ==
  /\ DOMAIN world = Watched /\ \A c \in Watched : world[c] \in Answers(c)
  /\ DOMAIN results \subseteq Watched
  /\ \A c \in DOMAIN results : results[c] \in HealthStates
  /\ manifest \in {None} \union (0..1)
  /\ failing \subseteq troubled /\ troubled \subseteq Watched
  /\ \A p \in Repairers : repair[p] = NoRepair \/ repair[p].command \in RepairCommands

\* A report blocks for the right reason and never misses one, although its
\* checks look at different times: a dependency of a privacy-critical check
\* that was down from the beginning of the report to its end blocks capture,
\* and persistence when it is the keys, the redaction or the storage; and a
\* report blocks capture only when such a dependency was down or late at some
\* time, so optional ones never stop anything (HealthService.report with
\* ensure_capture_allowed and ensure_persistence_allowed).
BlockingIsExact ==
  phase = "reported" =>
    LET critical == CheckIds \ OptionalChecks
    IN /\ failing \intersect critical # {} => CaptureBlocked(results)
       /\ failing \intersect PersistenceChecks # {} => ~PersistenceAllowed(results)
       /\ CaptureBlocked(results) => troubled \intersect critical # {}
       /\ ~PersistenceAllowed(results) => troubled \intersect PersistenceChecks # {}
       /\ Overall(results) = "capture-blocking" <=> CaptureBlocked(results)

\* The ledger never claims what did not happen: an outcome in it has its audit
\* event, and a completed one belongs to an operation that ran, whatever
\* repairs of other callers ran meanwhile, failed, raised or went unaudited
\* (SafeRepairService.run and _finalize).
LedgerTruthful ==
  \A c \in RepairCommands :
    ledger[c] # None =>
      /\ Outcome(c, ledger[c]) \in repairLog
      /\ ledger[c] = "completed" => c \in repairsDone

\* What health reports and what the repair ledger remembers is what happened.
DiagnosticsTruthful == DiagnosticsTypeOK /\ BlockingIsExact /\ LedgerTruthful

=============================================================================
