-------------------------------- MODULE Audit --------------------------------
(***************************************************************************)
(* The audit log (audit/): the events AuditRecorder builds and what        *)
(* AuditEvent accepts (recorder.py, models.py), OwnerOnlyAuditFileSink     *)
(* with its rotation and pruning (file_sink.py), and the decorators that   *)
(* audit an operation after its effect (decorators.py).                    *)
(***************************************************************************)
EXTENDS Integers, Sequences, SequencesExt, FiniteSetsExt, Options

CONSTANTS
    AuditRecords,   \* records whose deletion is audited
    EventBytes,     \* size of an encoded event
    MaxFileBytes,   \* max_file_bytes
    MaxFiles        \* max_files

ASSUME AuditAssumption ==
    /\ EventBytes \in Nat \ {0} /\ MaxFileBytes \in Nat /\ EventBytes <= MaxFileBytes
    /\ MaxFiles \in Nat \ {0} /\ IsFiniteSet(AuditRecords)

-----------------------------------------------------------------------------
(* AuditRecorder.  `fields' holds the optional fields of an event, None    *)
(* where it has none; `names' are its attributes, `on' those that are True *)
(* and `counts' those that count.  `ok' stands for the success,            *)
(* authorisation or health the caller reports, `given' for the values it   *)
(* hands over: a UUID is its version number and a provider identifier is   *)
(* "safe" when _safe_identifier accepts it.  The event's own identifier    *)
(* and its time are made by the recorder, digests by _digest.              *)

CategoryOf(action) ==
    CASE action = "lifecycle_transition" -> "lifecycle"
      [] action = "capture_decision" -> "capture"
      [] action = "policy_decision" -> "policy"
      [] action = "provider_selection" -> "provider"
      [] action \in {"record_rejected", "record_deleted", "deletion_request"} -> "record"
      [] action \in {"export_decision", "restore_decision"} -> "export"
      [] action = "key_operation" -> "key"
      [] action \in {"ipc_request", "visual_context_request"} -> "ipc"
      [] OTHER -> "system"

AuditActions ==
    {"lifecycle_transition", "capture_decision", "policy_decision", "provider_selection",
     "record_rejected", "record_deleted", "deletion_request", "export_decision",
     "restore_decision", "key_operation", "system_hardening", "retention_sweep",
     "purge_all", "garbage_collection", "ipc_request", "health_check",
     "repair_operation", "visual_context_request"}

Capabilities == {"control", "query", "diagnostic", "delete"}
ScopeFlags == {"records", "cluster", "application", "time_range"}

\* Mutant of CapabilityOn: the flag of a capability is set only for admitted requests,
\* and that of deletion requests is forgotten.
CapabilityOnNarrow(capability) == {capability} \cap {"control", "query", "diagnostic"}

CapabilityOn(capability) == {capability} \cap Capabilities

CountNames == {"count", "bytes", "queue_depth"}

\* Attributes of these names, of which `on' are True; the numbers come from the caller.
Attributes(names, on, given) ==
    [names |-> names, on |-> on, counts |-> [n \in names \cap CountNames |-> given.count]]

Reported(names, ok, flag, given) ==
    Attributes(names, IF ok THEN names \cap {flag} ELSE {}, given)

\* ipc_request's attributes.
IpcAttributes(ok, capability, urgent, given) ==
    Attributes(Capabilities \cup {"authorized", "urgent"},
               CapabilityOn(capability) \cup (IF ok THEN {"authorized"} ELSE {})
                   \cup (IF urgent THEN {"urgent"} ELSE {}), given)

\* deletion_request's attributes.
DeletionAttributes(ok, scope, given) ==
    Attributes(ScopeFlags \cup {"success", "count"},
               {scope} \cup (IF ok THEN {"success"} ELSE {}), given)

Uncorrelated == {"health_check", "repair_operation", "visual_context_request"}

\* The optional fields that each method passes on.
Carried(action) ==
    (CASE action = "lifecycle_transition" -> {"generation", "states"}
       [] action \in {"capture_decision", "policy_decision", "record_rejected"} ->
             {"generation", "record"}
       [] action = "record_deleted" -> {"record"}
       [] action = "key_operation" -> {"provider", "version", "key"}
       [] action = "provider_selection" -> {"provider"}
       [] OTHER -> {})
    \cup (IF action \in Uncorrelated THEN {} ELSE {"correlation"})

\* Decisions about records and providers.
DecisionAttributes(action, ok, given) ==
    CASE action = "provider_selection" ->
            Reported({"remote", "authorized"}, ok, "authorized", given)
      [] action = "record_deleted" ->
            Reported({"deleted", "cryptographic_material_destroyed"}, ok, "deleted", given)
      [] action = "capture_decision" -> Reported({"queue_depth"}, ok, None, given)

\* Retention, purge-all and garbage collection.
MaintenanceAttributes(action, ok, given) ==
    CASE action = "retention_sweep" ->
            Reported({"count", "bytes", "success", "dry_run"}, ok, "success", given)
      [] action = "garbage_collection" -> Reported({"count", "success"}, ok, "success", given)
      [] action = "purge_all" ->
            Reported({"count", "success", "key_destroyed"}, ok, "success", given)

\* Restores, exports, key operations and hardening; the last two report by outcome alone.
ArchiveAttributes(action, ok, given) ==
    CASE action = "restore_decision" -> Reported({"count", "success"}, ok, "success", given)
      [] action = "export_decision" -> Reported({"count"}, ok, None, given)

\* Health checks and visual context report by outcome alone; a repair by its flags, once
\* its command is one of the known ones.
RepairAttributes(ok, given) ==
    Reported({"count", "success", "restartable"}, ok, "success", given)

Fields == {"record", "generation", "provider", "version", "key", "states", "correlation"}

\* _emit fills in a fresh UUIDv4 where no correlation identifier was given.
FieldOf(action, field, given) ==
    LET passed == IF field \in Carried(action) THEN given[field] ELSE None
    IN  IF field = "correlation" /\ passed = None THEN 4 ELSE passed

\* The event one recorder method hands to _emit.
Recorded(action, ok, capability, scope, urgent, given) ==
    [action   |-> action,
     category |-> CategoryOf(action),
     fields   |-> [f \in Fields |-> FieldOf(action, f, given)],
     attributes |->
        CASE action = "ipc_request" -> IpcAttributes(ok, capability, urgent, given)
          [] action = "deletion_request" -> DeletionAttributes(ok, scope, given)
          [] action \in {"provider_selection", "record_deleted", "capture_decision"} ->
                DecisionAttributes(action, ok, given)
          [] action \in {"retention_sweep", "garbage_collection", "purge_all"} ->
                MaintenanceAttributes(action, ok, given)
          [] action \in {"restore_decision", "export_decision"} ->
                ArchiveAttributes(action, ok, given)
          [] action = "repair_operation" -> RepairAttributes(ok, given)
          [] OTHER -> Reported({}, ok, None, given)]

\* AuditEvent.__post_init__: what it wants of the fields an event has ...
Proper(field, value) ==
    CASE field \in {"record", "correlation"} -> value = 4
      [] field \in {"generation", "version"} -> value > 0
      [] field = "provider" -> value = "safe"
      [] OTHER -> TRUE

AllowedAttributes ==
    {"remote", "authorized", "privacy_mode", "deleted", "cryptographic_material_destroyed",
     "count", "bytes", "attempt", "queue_depth", "quarantined", "control", "query",
     "diagnostic", "urgent", "delete", "records", "cluster", "application", "time_range",
     "success", "dry_run", "key_destroyed", "restartable"}

\* ... and _validate_action_fields: what it wants of an action.
RequiredFields(action) ==
    CASE action = "lifecycle_transition" -> {"states", "generation"}
      [] action \in {"capture_decision", "policy_decision"} -> {"generation"}
      [] action = "record_rejected" -> {"generation", "record"}
      [] action = "record_deleted" -> {"record"}
      [] action = "key_operation" -> {"provider", "version", "key"}
      [] OTHER -> {}

ExactAttributes(action) ==
    CASE action = "retention_sweep" -> {"count", "bytes", "success", "dry_run"}
      [] action \in {"restore_decision", "garbage_collection"} -> {"count", "success"}
      [] action = "purge_all" -> {"count", "success", "key_destroyed"}
      [] action = "deletion_request" -> ScopeFlags \cup {"success", "count"}
      [] action = "provider_selection" -> {"remote", "authorized"}
      [] action = "ipc_request" -> Capabilities \cup {"authorized", "urgent"}
      [] action = "repair_operation" -> {"count", "success", "restartable"}
      [] action \in {"health_check", "visual_context_request"} -> {}
      [] OTHER -> None

Valid(e) ==
    LET on == e.attributes.on
    IN  /\ e.category = CategoryOf(e.action)
        /\ \A f \in Fields : e.fields[f] = None \/ Proper(f, e.fields[f])
        /\ e.attributes.names \subseteq AllowedAttributes
        /\ \A n \in DOMAIN e.attributes.counts : e.attributes.counts[n] >= 0
        /\ \A f \in RequiredFields(e.action) : e.fields[f] # None
        /\ e.fields["states"] # None => e.action = "lifecycle_transition"
        /\ ExactAttributes(e.action) # None => e.attributes.names = ExactAttributes(e.action)
        /\ e.action = "deletion_request" => Cardinality(on \cap ScopeFlags) = 1
        /\ e.action = "ipc_request" =>
              Cardinality(on \cap Capabilities) \in (IF "authorized" \in on THEN {1} ELSE {0, 1})

Counting ==
    {"capture_decision", "deletion_request", "retention_sweep", "garbage_collection",
     "purge_all", "restore_decision", "export_decision", "repair_operation"}

\* The values a caller owes a method: none where the field is optional, and otherwise a
\* UUIDv4, a positive number, a safe name or a count that is not negative.
Owed(action, given) ==
    /\ \A f \in Carried(action) :
          IF given[f] = None THEN f \notin RequiredFields(action) ELSE Proper(f, given[f])
    /\ action \in Counting => given.count >= 0

\* The recorder raises for the values it is handed and for nothing else: the event that a
\* method builds is refused exactly when a record, correlation or provider identifier, a
\* generation, key version or count of its caller is not what AuditEvent wants.  So the
\* deletion of a record whose identifier is not a UUIDv4 is carried out and reported as
\* failed, and no other deletion is, unless its event cannot be written.
RecorderEventsValid(capability, given) ==
    \A action \in AuditActions, ok, urgent \in BOOLEAN, scope \in ScopeFlags :
        (action = "ipc_request" /\ ok => capability # None)
            => (Valid(Recorded(action, ok, capability, scope, urgent, given)) <=> Owed(action, given))

-----------------------------------------------------------------------------
VARIABLES
    sink,       \* "open", "rotating" once the log is renamed, or "closed"
    log,        \* the pieces of audit.jsonl: [of, whole]
    rotated,    \* the rotated files, newest first
    present,    \* records in the audited storage
    calls,      \* record -> "idle", "effect", "missing" or "raising" (the event is to be
                \* emitted), or the answer "deleted", "absent" or "failed"
    acked,      \* history: records whose event was acknowledged
    shared,     \* history: those whose event was appended to a fragment
    torn,       \* history: writes that left a fragment, up to the number of records
    pruned      \* history: records whose event a pruned file held

auditVars == <<sink, log, rotated, present, calls, acked, shared, torn, pruned>>
sinkVars == <<sink, log, rotated, acked, shared, torn, pruned>>

AuditInit ==
    /\ sink = "open" /\ log = << >> /\ rotated = << >>
    /\ present = AuditRecords /\ calls = [r \in AuditRecords |-> "idle"]
    /\ acked = {} /\ shared = {} /\ torn = 0 /\ pruned = {}

WholeLines(file) == {i \in DOMAIN file : file[i].whole}
TornLines(file) == {i \in DOMAIN file : ~file[i].whole}

\* A torn line is shorter than an event.
Size(file) == EventBytes * Cardinality(WholeLines(file)) + Cardinality(TornLines(file))

\* A fragment has no newline: what is written next goes on in its line, which then is not
\* the JSON of an event.
EndsTorn(file) == file # << >> /\ ~file[Len(file)].whole
Readable(file) == {i \in WholeLines(file) : i = 1 \/ i - 1 \in WholeLines(file)}
Held(files) == UNION {{files[i][k].of : k \in Readable(files[i])} : i \in DOMAIN files}

\* AuditedStorageBackend.delete: the effect comes first, and the storage may raise before
\* or after it.
DeleteEffect(r) ==
    /\ calls[r] \in {"idle", "failed"}
    /\ \/ /\ present' = present \ {r}
          /\ calls' = [calls EXCEPT ![r] = IF r \in present THEN "effect" ELSE "missing"]
       \/ /\ present' \in {present, present \ {r}}
          /\ calls' = [calls EXCEPT ![r] = "raising"]
    /\ UNCHANGED sinkVars

Emitting(r) == calls[r] \in {"effect", "missing", "raising"}

\* What the caller is told once the event is written.
AnswerTo(call) ==
    CASE call = "effect" -> "deleted"
      [] call = "missing" -> "absent"
      [] OTHER -> "failed"

\* The line of a deletion names its record; that of a missing record or of a storage that
\* raised proves nothing.
Line(r, whole) == [of |-> IF calls[r] = "effect" THEN r ELSE None, whole |-> whole]

\* Mutant of Overflows: the size is checked before the event is added to it.
OverflowsLate(file) == Size(file) > MaxFileBytes

\* emit rotates first when the event does not fit in a file that is not empty.
Overflows(file) == file # << >> /\ Size(file) + EventBytes > MaxFileBytes

\* emit succeeds: written and synchronised.
EmitOk(r) ==
    /\ Emitting(r) /\ sink = "open" /\ ~Overflows(log)
    /\ log' = Append(log, Line(r, TRUE))
    /\ acked' = IF calls[r] = "effect" THEN acked \cup {r} ELSE acked
    /\ shared' = IF calls[r] = "effect" /\ EndsTorn(log) THEN shared \cup {r} ELSE shared
    /\ calls' = [calls EXCEPT ![r] = AnswerTo(calls[r])]
    /\ UNCHANGED <<sink, rotated, present, torn, pruned>>

\* emit fails, or the event is refused: nothing, a part or all of the line was written; the
\* caller is told that the deletion failed.
EmitFails(r) ==
    /\ Emitting(r)
    /\ \/ sink \in {"open", "closed"} /\ UNCHANGED <<log, torn>>
       \/ /\ sink = "open" /\ ~Overflows(log)
          /\ log' = Append(log, Line(r, TRUE)) /\ UNCHANGED torn
       \/ /\ sink = "open" /\ ~Overflows(log)
          /\ log' = Append(log, Line(r, FALSE))
          /\ torn' = IF torn < Cardinality(AuditRecords) THEN torn + 1 ELSE torn
    /\ calls' = [calls EXCEPT ![r] = "failed"]
    /\ UNCHANGED <<sink, rotated, present, acked, shared, pruned>>

\* Mutant of RotateRename: the log is opened anew before it was renamed.
RotateTruncates ==
    /\ sink = "open" /\ Overflows(log) /\ \E r \in AuditRecords : Emitting(r)
    /\ log' = << >> /\ sink' = "rotating"
    /\ UNCHANGED <<rotated, present, calls, acked, shared, torn, pruned>>

\* _rotate_locked up to the rename; a failure closes the sink for good.
RotateRename ==
    /\ sink = "open" /\ Overflows(log) /\ \E r \in AuditRecords : Emitting(r)
    /\ \/ rotated' = <<log>> \o rotated /\ log' = << >> /\ sink' \in {"rotating", "closed"}
       \/ sink' = "closed" /\ UNCHANGED <<log, rotated>>
    /\ UNCHANGED <<present, calls, acked, shared, torn, pruned>>

\* _prune_locked keeps the newest files, fewer when they are over the age limit.
Keep == MaxFiles

Prune(n) ==
    /\ rotated' = SubSeq(rotated, 1, n)
    /\ pruned' = pruned \cup Held(SubSeq(rotated, n + 1, Len(rotated)))

Retained == {n \in 0..Len(rotated) : n <= Keep}

RotateReopen ==
    /\ sink = "rotating"
    /\ \E n \in Retained : Prune(n)
    /\ sink' = "open"
    /\ UNCHANGED <<log, present, calls, acked, shared, torn>>

\* The daemon ends at any point and the sink is built anew: prune, then open.
RestartSink ==
    /\ calls' = [r \in AuditRecords |-> IF Emitting(r) THEN "failed" ELSE calls[r]]
    /\ \E n \in Retained : Prune(n)
    /\ sink' = "open"
    /\ UNCHANGED <<log, present, acked, shared, torn>>

AuditNext ==
    \/ \E r \in AuditRecords : DeleteEffect(r) \/ EmitOk(r) \/ EmitFails(r)
    \/ RotateRename \/ RotateReopen \/ RestartSink

AuditSpec == AuditInit /\ [][AuditNext]_auditVars

CallStates == {"idle", "effect", "missing", "raising", "deleted", "absent", "failed"}

AuditTypeOK ==
    /\ sink \in {"open", "rotating", "closed"} /\ present \subseteq AuditRecords
    /\ calls \in [AuditRecords -> CallStates]
    /\ shared \subseteq acked /\ torn \in 0 .. Cardinality(AuditRecords)
    /\ acked \subseteq AuditRecords /\ pruned \subseteq AuditRecords \cup {None}

\* docs/audit.md, "rotation and retention stay bounded": no file grows past its limit,
\* torn lines included, and an open sink keeps at most max_files rotated files, also
\* after a rotation that failed or died half-way.
AuditBounded ==
    /\ Size(log) <= MaxFileBytes /\ \A i \in DOMAIN rotated : Size(rotated[i]) <= MaxFileBytes
    /\ Len(rotated) <= MaxFiles + 1
    /\ sink = "open" => Len(rotated) <= MaxFiles

\* An event that was acknowledged can be read in the log or a rotated file until a full or
\* aged log pushes its file out, except where it was appended to the fragment of a write
\* that failed; a failed write costs no more than one acknowledged event; and whoever is
\* told that a record is deleted can count on it.
AcknowledgedKept ==
    /\ acked \ shared \subseteq Held(<<log>>) \cup Held(rotated) \cup pruned
    /\ Cardinality(shared) <= torn
    /\ \A r \in AuditRecords : calls[r] = "deleted" => r \in acked /\ r \notin present

\* The audit trail is bounded, and whatever was acknowledged can still be read in it unless
\* it was rotated away or shares the line of a torn write, one event for one such write.
TrailKept == AuditTypeOK /\ AuditBounded /\ AcknowledgedKept
=============================================================================
