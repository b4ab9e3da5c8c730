# Local Recall: verification project

TLA+ models of the parts of Local Recall whose correctness depends on the order
in which threads, messages, crashes and failures happen; the TLC configurations
that check them on small instances; and TLAPS proofs, for every instance, of
the safety properties of all state machines. `PROJECT.json` lists components, runs, hazards,
theorems, and the source lines each definition stands for. Paths below are
relative to `src/local_recall/` of the repository.

## The system

Local Recall is one daemon process made of Pykka actors (one thread and one
inbox each), plain locked objects shared between them, and files.

| Component | State | Operations | Talks to |
| --- | --- | --- | --- |
| Capture gate, `lifecycle/gate.py` | state, active generation, epoch, cancel events, in-flight counts, two locks | begin_start, mark_recording, pause, resume, invalidate_and_pause, begin_stopping, finish_off, fault; run_capture, run_persistence, run_preflight | called by the lifecycle actor (transitions) and by worker threads (operations) |
| Lifecycle actor, `lifecycle/actor.py` | manual pause, automatic block, the handler it is in | start, pause, resume, stop, fault, automatic block and release, preflight completion, shutdown | gate, audit sink, work coordinator (the pipeline), private preflight actor |
| Session safety, `session/safety.py` | last lock and idle observation, resume latches, the block it believes applied | apply_lock, apply_idle, refresh, acknowledge, replace settings; preflight check | asks the lifecycle actor with a timeout; sets the policy engine's session lock |
| Pipeline, `pipeline/` | credits per edge, ZeroMQ sockets, coalescing slot, stage actors, cancellation registry | submit, flush, receive, process, send, persist, drain | runs inside the gate; drained by the lifecycle actor; tells it faults |
| Storage, `storage/` | SQLite catalog and write intents, blob, temporary and quarantined files | put, get, delete, recover | the pipeline's last stage, retrieval, retention, deletion |
| Policy engine, guard and boundary, `policy/` | compiled rules, privacy mode, session lock, temporary markers, generation | evaluate, authorise, mark, reload, act | pipeline, session safety |
| Session and idle detection, `session/` | logind session path, last observation | probe, resolve, merge, query, signal | feeds session safety |
| Adaptive capture, `capture/adaptive.py` | cadence, pending change, dedup span, back-off | poll, start, classify, overload, success, reset | pipeline ingress |
| Redaction and OCR, `redaction/` | none beyond one stage item | recognise, detect, mask, redact | pipeline stages |
| Crypto and keys, `crypto/`; backup, `backup/`; purge | key versions and active pointer in the OS keyring; archive | create, wrap, unwrap, rotate, destroy; export, restore; purge | storage envelopes |
| Semantic index, `index/`; activity store, `activity/` | snapshot files and rebuild checkpoint | upsert, remove, clear, rebuild | derived from storage |
| Selective deletion, `timeline/deletion.py` | journal with phases | plan, execute, resume | storage, index, activity store |
| Timeline, `timeline/scope.py`, `inspection.py` | none | resolve a scope, list, preview | storage, activity store, IPC |
| Retention, `retention/` | plans | plan, sweep, collect, purge | storage, derived data |
| Audit, `audit/` | append-only file with rotation | record | everybody |
| IPC and its contract, `ipc*.py`, `cli_contract.py` | session token, two lanes, pending requests, deadlines | start, request, serve, reply, close | clients, the actors |
| Retrieval, answering, routing, providers | the question under way | authorise, search, read, route, send, retry, cite | storage, index, policy, remote services |
| Health and repair, `health/` | repair ledger | report, guard, repair | every component |
| Configuration, vision, capture backends, metadata, command line, indicator, UI | none that outlives a request | | |

What is hard in it, and where a unit test hardly reaches:

* the generation fence: operations of an old generation run on while the state
  changes, and a commit must not slip behind a stop, a fault or a lock;
* handlers that leave the actor's own code half-way (audit sink, drain with a
  deadline) while workers go on;
* a request that timed out at the asker and is served later all the same;
* credits, cancellation and emptying of sockets that race with one another
  while a pipeline is drained;
* a crash, a power loss or a failing system call between any two steps of a
  put, a delete or a recovery;
* a deletion that goes through storage, index and activity snapshot while a
  collection, a rebuild or a refresh works from what it listed before;
* decisions taken before an await and used after it: a policy authorisation, a
  record decision on the way to a remote provider, a health report, a lock query;
* a client and a server that restart, time out and lose messages independently.

What makes each modelled component correct: *gate and lifecycle* - only the
active generation commits, invalidated work sees its cancellation, a drain is a
barrier, pauses and blocks hold, every command is answered; *session safety* -
a session that should be blocked always meets the latch or the policy lock;
*pipeline* - credits are exact, a drain is complete, a record is in one place
and is stored only while current; *storage* - a put that reported success
survives, a finished delete stays, an interrupted one is completed; *derived
data* - a reported deletion reaches every copy a reader sees, and copies that
outlive it vanish; *policy* - an action is covered by the policy in force when
it begins; *keys* - a destroyed key opens nothing, every other key opens what it
sealed; *IPC* - a client is told nothing that is untrue, urgent commands pass
hanging ones; *audit* - acknowledged events stay until they are pruned;
*retrieval* - only judged evidence is cited or leaves; *deletion scopes and
retention* - exactly the selected records go; *redaction* - what was found is
gone from text and picture.

## Modules

| Module | Models |
| --- | --- |
| `Lifecycle` | gate, lifecycle actor, preflight actor, worker threads |
| `GenerationFence` | the abstract promise of the gate: one open generation, never reopened |
| `LifecycleProofs` | theorems about `Lifecycle` |
| `MCLifecycle` | sets of workers and revisions for TLC |
| `SessionSafety` | EXTENDS `Lifecycle`: controller, its asks in the actor's inbox, safety preflight, policy lock |
| `SessionSafetyProofs` | theorems about `SessionSafety`, over those about `Lifecycle` |
| `MCSessionSafety` | settings for TLC |
| `Pipeline` | ingress, slot, ledgers, sockets, stage actors, drain; of the gate what the pipeline sees |
| `PipelineProofs` | theorems about `Pipeline` |
| `Storage`, `MCStorage` | catalog, files, operations, recovery, failures; instances |
| `StorageProofs` | theorems about `Storage` |
| `DerivedData` | deletion journal and coordinator, semantic index, activity snapshot, sweep, garbage collector |
| `DerivedDataProofs` | theorems about `DerivedData` |
| `Policy` | rule evaluation, engine state, authorisations, boundary and guard |
| `AdaptiveCapture` | when frames are captured and which are coalesced; the difference hash's samples |
| `SessionDetection` | strategy resolution, metadata composition, idle merging, logind queries and signals |
| `Redaction` | OCR rows, findings, redacted text and pixels (operators only) |
| `Vault` | key versions, envelopes, fallback provider, purge, export and restore |
| `Audit` | audit file with rotation, recorder's events, audited deletion |
| `CliContract` | requests, responses, both codecs (operators only) |
| `DeletionScopes` | EXTENDS `CliContract`: scopes, their resolution, listings (operators only) |
| `Ipc` | EXTENDS `DeletionScopes`: server, lanes, tokens, clients, handlers |
| `Retrieval` | a question through planning, retrieval, routing, egress, retries and citation |
| `Retention` | retention plan (operators only) |
| `Diagnostics` | health report, guards, repair, ledger |
| `PrivacyProofs` | theorems about `Policy`, `SessionDetection`, `AdaptiveCapture` and `Retrieval` |
| `CustodyProofs` | theorems about `Vault`, `Diagnostics` and `Audit` |
| `Options` | the value `None` |
| `MCServices` | the services side by side, and the inputs of the pure algorithms |
| `ServiceProofs` | theorems about `Ipc`, `CliContract`, `DeletionScopes` and the decisions of `MCServices` |
| `MCProgress` | liveness of `DerivedData` and `Ipc` side by side |

**Lifecycle.** The variables `state` to `inFlight` are the fields of
`CaptureGate`; a generation is its epoch, and 0 stands for None. A cancel event
has two faces: `events` are the keys of the dictionary, `cancelled` the set
events, because a permit keeps its event after the key is gone. A handler of
`LifecycleActor` is one step when nothing can run in between, and otherwise is
cut at the commit lock (`phase = "lock"`), at the audit sink (`"emit"`) and at
the drain (`"drain"`); `then` is what is left of it. `begin_stopping`,
`invalidate_and_pause` and `fault` take the commit lock without a deadline
(`gate.py:191`, `213`, `247`) while `run_persistence` holds it for the whole
operation: `AwaitCommitLock` is the handler that waits there, `LockTaken` what
it does once `CommitLockFree`, and a handler that waits for ever is a behaviour
of the model. `EmitFails`, `DrainFails` and `ActorFails` are the error paths that end in `_enter_fault`.
A worker captures under one permit, holds the frame, and persists or discards
it; its persistence checks the generation behind the commit lock.

**SessionSafety.** `ctl` is the controller's state under its lock; an operation
either finishes in a step or goes to `"asking"` with its request appended to
the actor's inbox. `AskFails` is a rejection, a timeout or a dead actor; in the
last two the request stays in `requests` and `ServeRequest` serves it later,
without the controller learning of it. The steps of the lifecycle are those of
`Lifecycle`. The safety preflight samples the session, then writes the policy
lock, then returns: three steps, so that observations can come in between.
Observations are the session's present state or UNKNOWN (a failed or stale
probe); `environment` fixes the settings and what a behaviour may observe. Nothing in the package constructs the controller outside its tests;
the model takes the wiring of the tests.

**Pipeline.** Edge s is the input of stage s. A submission runs inside
`run_capture` in separate steps: check of the cancellation, offer (credit and
encoding), leave. A stage receives, processes, sends, and releases its credit;
the last one persists inside the gate. The drain is `_drain_generation` with
`BoundedCapturePipeline` as its coordinator, one step per wait; a wait may run
into its deadline. `DrainStage` messages are asked in turn, and one that timed
out is served later. `leaked` records the credits that a refused encoding never
gives back, so that `CreditsExact` can say that nothing else is lost. The
lifecycle actor is assumed to outlive the pipeline.

**Storage.** One lock serialises operations, so `op` is the one under way.
`blob` is what processes see, `durable` what survives a power loss; the two
meet at `fsync_directory`. SQLite commits are durable (WAL, synchronous FULL).
An envelope stands for its encoding and digest; the quota counts blobs.
`put` on a row that exists answers by its digest alone, whatever its state:
`PutRepeated` is the success, `PutRefused` the refusals (another digest, the
quota, an intent that is there); `written` takes both kinds of success, and
`vouched` and `indexed` remember rows that were not ready, or that recovery
inserted, when it was given.
`faults`, one of `Environments`, says what may happen in a behaviour: power
loss, unlink that fails, read that fails, damaged blob. A process crash, a failing call of put, delete or
recover, and recovery on request are always possible. A shard directory is
taken as durable with its first synchronised entry.

**DerivedData.** Storage is reduced to what `Storage` promises (a delete is
atomic and final); an index, checkpoint or activity snapshot stands for the
records in it, and documents are listed in one order. Each class runs on its
own and holds only the locks of the object it calls: `indexLock`,
`surviveLock`, `reconcileLock`. `proc` holds the coordinator and the collector,
which share `remove` and `reconcile_deleted`; `writer` is a call of `add` or
`rebuild`, `refresher` one of `ActivityReconciler.reconcile`. A save is two
steps. A crash can leave the index's temporary file, whose name is fixed
(`temps`), and a save that raises (`SaveRaises`) has removed it, left it (a
failing `os.replace`) or replaced the file after all; the activity store's
temporary file carries the process identifier and is in the way until that
process ends. A rebuild of the activity snapshot lists the days it spans one
after the other and raises (`RebuildRaises`) at the day limit, the candidate
limit, the feature limit of 512 records and the limit of its scope, each a
constant. A crash ends all calls and keeps the files. Batches hold one document.
A sweep is any deletion of a ready record.

**Policy.** `Evaluate` is `PolicyEngine._evaluate` over a snapshot of the engine:
all selectors of a rule (application, title, workspace, domain, full screen,
source of the metadata, time window) match, miss or cannot be judged, priorities
and effects decide, markers and modes override. Every lock region of the engine is one step; a job
(`jobs`) evaluates, is approved and acts in separate steps, so that privacy
mode, locks, reloads and markers come in between.

**AdaptiveCapture.** The fields of `AdaptiveCaptureController`; `flow` is a call
of `capture_if_due` that awaits its frame, during which resets and overloads
happen. A fingerprint is a set of bits, time is counted in debounce units.

**SessionDetection.** Resolution, composition, the readings of the two idle
sources and idle merging are operators. xprintidle answers in milliseconds and
ActivityWatch in seconds; both become thousandths of a second here, beyond seven
days they are malformed, and the merging compares them with a threshold in
seconds.
The logind source is a state machine: `hint` is the truth, `query` a call under
way, `signals` what waits in the monitor's pipe, `seen` the last observation.

**Redaction.** A character is its place; what the patterns find is a set of
intervals, what Tesseract reads a list of rows. The operators follow the stage
codec, the policy and the processors with all their refusals.

**Vault.** `material` and `pointer` are the entries of the keyring. Key material
is a number drawn once, an envelope carries the handle it names and the material
that really wrapped it; `Opens` compares the two. Encryption stage, rotation,
destruction, purge, export and restore interleave between two keyring calls,
and each may fail between two writes. A rewrap is its three keyring calls
(`Unwrap`, then `ChooseKey` with `create_if_missing` and `Wrap`, which it shares
with encryption) and the replacement of the envelope by its caller; nothing in
the package calls `rewrap_data_key`, and the model's caller replaces only what
is still stored. `misused` becomes true when a stale handle
is rotated or the active version destroyed.

**Audit.** `emit` writes, may tear, and rotates in separate steps. A log is its
pieces, whole lines and fragments; nothing separates a fragment from what
follows, so an event written after one is on its line and `Readable` leaves it
out (`shared` counts such events, `torn` the fragments). The deletion decorator
audits after the effect, and also an inner delete that raised, before it raises
again. The recorder's events are compared with what `AuditEvent` accepts: kinds
of fields, versions of identifiers, signs of numbers, allowed attributes and
what each action wants.

**CliContract, DeletionScopes, Ipc.** The first two are the operators that the
third uses: what can be built, encoded and decoded, and what a delete request
selects. `Ipc` has one request per client; every look at the clock is a choice;
messages are lost with a socket or when a reply cannot be routed; the server
starts and closes, each time with a new token. A client's call ends with the
answer, a timeout or a failing socket (`ClientSocketFails`), before or after
the request was sent; what was sent may still be served. A cluster is resolved
to the records its snapshot names, if they are a valid scope (`ValidRecordIds`,
`MaxScopeRecords`).

**Retrieval.** One action for each await of a question, interleaved with
deletions and changes of the policy's revision. `outbox` is what left the
process, retries included. The egress event is written where the client was
constructed with an audit (`audit` of a provider; the parameter is optional and
nothing in the package passes one), before the body; any await may raise
(`RetrievalRaises`). A record's text, workspace and metadata are compared with
the query as sets of terms. Orders are stated, not computed: a candidate list, a
ranking or an evidence table is any list of its set that follows the order, of
which there is one because the sort keys end in the record's id.

**Retention, Diagnostics.** `Swept` is the planner as an operator: one override
for each context field at most, so that a record may match two, the decryption
budget, a window that cannot be judged without a key (`PlanFails`), and an
eviction that does not credit what expires. A health report reads its checks one
after the other while dependencies change (`world`); repairs of several callers
(`Repairers`) run, are audited and recorded in separate steps, because
`SafeRepairService.run` holds no lock.

## Runs

| Run | Bounds | Shows |
| --- | --- | --- |
| `lifecycle` | 2 workers (symmetric), 1 revision, 6 epochs | all safety properties of the lifecycle and the refinement of the fence |
| `lifecycle_live` | 1 worker, 5 epochs | `ActorResponds`, `StartSettles` |
| `lifecycle_verified` (violated) | 1 worker, 4 epochs | a lock and unlock during STARTING lead to recording without a successful preflight |
| `session` | 2 requests; locking with idle pausing off, 4 epochs; or idling with a grace period, up to the end of its first block (`EpochBound`) | `FailsClosed` for locks and idling, `IdleStopsRecording` |
| `session_lock` (violated) | locking only | a release that timed out is served after a new lock, which the controller takes for applied |
| `pipeline` | 2 stages, capacity 1 on each edge, coalescing, 2 records, 4 epochs | credits, drains, uniqueness, currency, and that drains and messages come to their end |
| `storage` | 2 records, 2 contents (symmetric), quota 3, 3 leftover files; power loss, failing unlink and damage, or failing unlinks, or failing reads and damage | `WrittenIsDurable`, `DeletedStaysDeleted`, `QuotaHolds`, `RestartCompletesDelete` |
| `storage_power` (violated) | same; power loss only | recovery's own deletion is undone by a power loss |
| `derived` | 2 records on 2 days, 2 calls of add, rebuild or reconcile, 1 crash or failing call; a day of 2, a rebuild of 2 survivors are too many | `DeletionTruthful` |
| `progress` | derived data with 2 records of one day, one of them deleted, above the rebuild's limits as long as both are there; a stop beside a hanging deletion | `StaleVanishes`, `DeletionCompletes`, `UrgentProgress` |
| `services` | any 2 of 3 clients and 2 starts of the server; 4 policy generations; 3 ticks; 3 key versions; 2 audited records and 1 rotated file; 3 records and 2 revisions of a question; 2 signals; 2 changes of health and 2 callers that repair | the eleven properties of the services and their algorithms |
| `deletion_window` (violated) | as `services` | a deletion by application leaves its time bounds |

Why the bounds are enough. Two workers make counts above one, and a capture of
one generation beside a commit of the next. A block needs an epoch and leaves
room for the fault that may follow it, so six epochs allow a start, two blocks,
a stop or fault and a second start; four allow start, block, release, block. Two
requests put a late release in front of a new block. Capacity 1 makes every
edge full at once, two records fill the slot and an edge together, and the
first of two stages is an interior stage (it receives and sends) while the
second is the last. Two records and two contents allow a put of a record with
another content after a delete, beside a second record that must not suffer;
quota 3 is reached with two blobs and one leftover file, and two leftover files
beside a blob. Two records and two
calls allow a rebuild that is interrupted after its first batch, a deletion of
that batch's record and a second rebuild; deletions, sweeps and collections are
not counted, and a deletion may be retried without end. In the services: two
urgent requests overflow their lane of one and two starts make a token stale;
three key versions allow a rotation with a handle that two rotations made stale;
a file that holds one event, and one rotated file, make every second event
rotate and prune; three ticks and a debounce of one let a change be seen, lost
and seen again; a catalogue of three records on two days meets the candidate
limit of two and goes past it; three records oldest first meet and pass every
retention limit. In `Storage` and `Pipeline` behaviours may stop at the bounds
(no further room), but never with an operation half-way: deadlock is checked.
In the services deadlock is not checked, because a question is answered, a
decision taken and a monitor ended once, and the bounds end the rest.

`MCServices` puts independent services side by side rather than into one state
space: a behaviour belongs to one part and the variables of the others keep
their initial values.

Fairness. `ActorFairSpec` assumes only that the actor's thread goes on with the
handler it is in: the sink is called synchronously and the drain has a
deadline. The two properties name what else they need. `StartSettles`: checks
return, which the code does not enforce (the deadline is looked at afterwards).
`ActorResponds`: a persistence operation returns, which the code does not
enforce either, and the commit lock is granted to a thread that keeps waiting
while others take it and give it back; captures and preflight checks may hang.
Without the first, a stop, a block or a fault waits in its handler for ever,
and the actor answers nothing any more.
`Pipeline!FairSpec` assumes that stage threads keep polling and processors
return, that the capture thread finishes the call it is in, and that drains go
on - each wait has a deadline. `MCProgress` assumes, for derived data, that calls go on and
that asyncio locks, which serve waiters in order, are not withheld for ever, and
two things of the program that embeds the classes, because the package has no
caller for them: it calls `recover` after an interruption
(`docs/timeline.md:17`) and runs the collector on a schedule
(`docs/retention.md:47`); for IPC, that the service loop and the threads of the
urgent lane run and that the loop, which polls the socket every round, receives
a request that keeps waiting there - nothing about normal handlers, which may
hang for ever. Commands, faults, crashes and failures are never assumed to
happen.

## Properties

* `PersistenceBarrier`, `RefinesFence`: a commit runs only for the active,
  uncancelled generation; seen through the fence, a passed generation never
  commits again.
* `StaleWorkCancelled`, `InFlightExact`, `BarrierDrained`: work of an
  invalidated generation holds a set cancel event; the count the drain waits on
  is exact; a drain without a fault leaves no operation inside.
* `EventsSound` (`ActiveAdmitsWork`, `NoEventLeak`), `LegalTransitions`: the gate
  is never left half-changed and never grows events it cannot reclaim once off.
* `BlocksHold` (`ManualPauseHolds`, `SafetyBlockHolds`): neither is overridden by
  unlocks, activity, preflight completions or the user's resume.
* `FailsClosed` (`SafetyTypeOK`, `TwoLayers`), `IdleStopsRecording`: session
  safety fails closed. The exception that `TwoLayers` names is real: a preflight
  that sampled the session before the controller did may unlock the policy after
  it.
* `CreditsExact`, `DrainComplete`, `ItemOnce`, `StoredCurrent`, `PipelineSettles`
  (`DrainAnswers`, `SocketsEmpty`): the pipeline.
* `WrittenIsDurable` (without failing reads), `DeletedStaysDeleted`, `QuotaHolds`
  and `RestartCompletesDelete` (without power losses and failing unlinks):
  storage. The two exceptions of `WrittenIsDurable` are successes that promise
  less, see below.
* `DeletionTruthful` (`DerivedTypeOK`, `JournalTruthful`, `DeletedEverywhere`),
  `StaleVanishes`, `DeletionCompletes`: derived data. `DeletedEverywhere` excepts
  records that a call of add, rebuild or reconcile had been given before they
  were deleted: such a call writes them after the deletion was reported, and
  `StaleVanishes` says that the collector takes them out again. The two
  liveness properties except a snapshot that an interrupted save blocked
  (`IndexStuck`, `ActivityStuck`) and ask that the activity rebuild is within its
  limits from some time on (not `Overloaded`); the collector prunes the index
  also while it is not. The exceptions are real, see below.
* `IpcTruthful` (`AnswerTruthful`, `OnlyCurrentSession`), `UrgentProgress`: a
  client that is told success has it, one that is told refusal, or that the
  daemon is unavailable before it sent anything, has changed nothing; a handler runs only for the token of the running server; a stop
  passes hanging handlers.
* `PolicyGoverns` (`ActsOnCurrentPolicy`): when an action begins, the policy in
  force allows it, markers, modes and reloads since the authorisation included.
* `CaptureFaithful` (`DebounceHolds`, `CoalescedIsCovered`): a change is captured
  only after it lasted, and a coalesced frame lies within the threshold of the
  frame that was really kept.
* `VaultSound` (`RevokedNeverOpens`, `EnvelopeOpens`, `StoredNeverRolledBack`):
  as above; only a rewrap under way replaces a stored envelope, not by one of an
  older key version (unless `misused`), and a restore never does.
* `TrailKept` (`AuditBounded`, `AcknowledgedKept`): files stay within their size
  and number; an acknowledged event can be read in the files or was pruned, except
  for one event after each torn write, and a deletion that was reported is done
  and audited.
* `AnswersJudged` (`NothingLeavesUnasked`, `CitesJudgedEvidence`): nothing leaves
  without the owner's authorisation, the egress event where the client audits
  and a decision on each record, all under one revision; every citation points to judged evidence.
* `DetectionSound` (`UnlockedIsProven`): an unlocked session is reported only
  after the hint was false since the query began, never on an Unlock signal.
* `DiagnosticsTruthful` (`BlockingIsExact`, `LedgerTruthful`): what was down
  throughout a report blocks, what blocks was down or late at some time; the
  ledger names only audited and completed repairs, whoever repairs beside it.
* `ClientTruthful` (`AnswersReadable`, `ExitZeroProves`): every response the
  daemon builds is read as it was built, and exit code 0 is proof of it.
* `DecisionsSound` (deletion scopes, listings, time windows, metadata composition,
  idling, difference hash, audit events, weekdays) and `SelectionsExact`
  (retention sweeps, rule order, strategies, redaction): the algorithms against
  their references, over every input of the sets in `MCServices`. Of audit
  events: the recorder's are refused exactly for what their callers pass. Of
  retention: expiry is exact, caps and watermark hold afterwards, and eviction is
  oldest first and minimal if what expires is not credited. The second
  group folds or filters sequences, and only TLC checks it.

Every property of a passing run has mutants in `PROJECT.json`, one for each of
its parts: a plausible slip in one definition that makes TLC find the property
violated.

## Where the code differs from its documents

Shown by a violated run:

1. `docs/lifecycle.md:32` wants a successful preflight before recording. A lock
   in STARTING pauses the start with a new generation; its preflight result
   then is stale and ignored, and the unlock resumes to RECORDING.
2. `docs/session-safety.md:44` wants a locked session blocked. After a release
   that timed out the controller records a lock block it never applied; when
   the release is served late, the next lock finds "the same block" and asks for
   nothing. The policy engine is still locked (`TwoLayers`), so frames are
   refused there, but the lifecycle records.
3. `docs/storage.md:62` says a restart completes interrupted deletions.
   Recovery unlinks without synchronising the directory and drops the row; a
   power loss brings the blob back and the next recovery indexes it.
4. `docs/timeline.md:27` gives a deletion by application "mandatory explicit time
   bounds". `_resolve_application` uses them only to choose days: records of the
   application before the start or after the end, on the same days, are deleted
   too (`_resolve_time_range` compares the capture time).

Met while modelling, and left to the modules' comments and the hazards list:

* a stop in FAULTED reaches OFF without the barrier (`docs/lifecycle.md:76`);
* a user's pause keeps its generation (`docs/architecture.md`, the list of what
  invalidates one);
* the latch that a start's safety preflight sets is unknown to the controller,
  which therefore never releases it (`docs/session-safety.md:47`);
* a frame that `encode_item` refuses keeps its credit (`docs/pipeline.md:29`);
* a submission past its cancellation check can fill the slot after a stop
  cleared it (`docs/pipeline.md:55`); the drain then reports a fault, which is
  why `DrainComplete` still holds;
* an older coalesced frame may be flushed after a newer accepted one
  (`docs/pipeline.md:43`);
* any read error quarantines a record, also a passing one
  (`docs/storage.md:58`);
* a crash between the temporary file and its rename in `index/semantic.py`
  leaves a file that every later save fails on (O_EXCL, fixed name), so that the
  journalled deletion cannot resume and no other is accepted
  (`docs/timeline.md:17`, "A crash at any phase resumes forward on recovery.");
  `IndexStuck` names these states, and `ActivityStuck` those in which a failing
  `os.replace` left the activity store's temporary file (until the process ends);
* the activity rebuild raises for 1,000 records of a day, above its candidate
  limit and above 512 records (`timeline/activity_rebuild.py:83`,
  `activity/features.py:36`): as long as the snapshot spans that many, a
  journalled deletion cannot complete and no other is accepted;
* `put` of a record that is being deleted or is quarantined reports success
  without storing anything (`storage/operations.py:67`), and success on a row
  that recovery inserted does not outlive a power loss, because nobody has
  synchronised its blob's directory; the exceptions of `WrittenIsDurable`;
* recovery runs in the constructor, and a row or file on which it raises keeps
  the daemon from starting each time;
* a stop, block or fault waits without a deadline for a persistence operation
  (`lifecycle/gate.py:191`, `213`, `247`);
* a rotation with a stale handle overwrites the newer master key
  (`crypto/keyring.py:158`), and destroying the active version makes the next
  initial key overwrite version 1; both are why `EnvelopeOpens` excepts `misused`
  (`docs/encryption.md:41`);
* `restore` decrypts the archive object in place, also when it is refused
  afterwards, and a conflicting record ends a restore half-way;
* a failed rotation closes the audit sink for good, and a deletion whose audit
  fails is reported as failed although it took effect, which it always is when
  the record's identifier is not a UUIDv4 (`audit/models.py:195`);
* after a write that failed part-way, the next acknowledged event is appended to
  the fragment and cannot be parsed (`docs/audit.md:35`, "canonical JSON Lines");
* records that expire are counted as usage when the eviction is planned, so as
  many others are evicted although the caps would hold without it
  (`docs/retention.md:12`, "until usage reaches `low_watermark_bytes`");
* the egress audit of a remote client is optional, and nothing in the package
  passes one (`providers/remote_client.py:52`);
* a client whose socket fails after its request was sent reports an unavailable
  daemon, although the request may be carried out (`ipc_transport.py:461`);
* a repair whose audit fails is missing from the ledger, which is kept in memory
  only;
* a logind query that read "unlocked" before a lock may be delivered after the
  Lock signal, with the later time; signals are dropped while the session path is
  unknown;
* an expired request is answered "invalid" when the codec sees it first;
* a second temporary marker of the same scope replaces the first
  (`policy/engine.py:233`);
* an admitted frame that the pipeline drops keeps its fingerprint, so repetitions
  of it are coalesced with a record that was never stored;
* a listing keeps the oldest entries up to its limit and its handler does not say
  that it was truncated; a day with as many records as the day limit ends it;
* "last monday" is planned as "monday" (`docs/retrieval.md:16`);
* a policy change after the last record decision, or a deletion after the second
  read, does not reach an answer under way;
* a scope of more than some 1,600 records exceeds the journal's 64 KiB
  (`timeline/deletion.py:153`);
* the checkpoint of an interrupted rebuild keeps the (encrypted) vectors of
  records deleted since, until the next rebuild ends.

## Proofs

Every safety invariant and every action property that a passing run checks,
`SelectionsExact` excepted, is also a theorem of its specification, for every
value of the constants that the named assumptions of its module allow. The assumptions say no more than
that bounds, limits and capacities are natural numbers (not zero where the code
refuses zero), that sets which are counted or listed are finite, and that null
values differ from real ones; beyond that, `Ipc` takes `max_pending >= 2` and
`max_workers <= max_pending`, `Audit` an event that fits into a file,
`AdaptiveCapture` a back-off limit that is a power of two up to 64, as the
constructors enforce, and a hash grid of two rows and columns or more (the code
has 8 and 9).

| Module | Theorems |
| --- | --- |
| `LifecycleProofs` | `TypeCorrect`, `CommitsBehindBarrier`, `InvalidationReachesWork`, `EventsFollow`, `PausesHold`, `CountsExact`, `TransitionsLegal`, `DrainIsBarrier`, `GateIsFence` |
| `SessionSafetyProofs` | `SafetyImplementsLifecycle`, `SafetyFailsClosed`, `IdleSessionsNotRecorded` |
| `PipelineProofs` | `PipelineTypes`, `LedgersExact`, `RecordsInOnePlace`, `OnlyCurrentStored`, `DrainsComplete` |
| `StorageProofs` | `StorageTypes`, `WrittenRecordsDurable`, `DeletedRecordsStayDeleted`, `InterruptedDeletesComplete`, `FilesWithinQuota` |
| `DerivedDataProofs` | `DerivedInvariance`, `DeletionsTruthful` |
| `ServiceProofs` | `AnswersTruthful`, `ClientNeverMisled`, `DecisionsAlwaysSound`, and what the last two rest on: `EveryAnswerReadable`, `ExitZeroProof`, `ScopeIsExact`, `ListingIsExact`, `WindowGoesRound`, `CompositionIsStable`, `IdleWins`, `EventsAreValid`, `WeekdayLatest`, `HashStaysInside` |
| `PrivacyProofs` | `GuardActsOnPolicy`, `LockReportsProven`, `CapturesFaithful`, `EvidenceJudged` |
| `CustodyProofs` | `KeysGovernRecords`, `ReportsTruthful`, `AuditTrailKept` |

None of the properties is inductive alone. Each proof finds what a step relies
on, shows with one lemma per action that it is kept, and combines the lemmas.

**Lifecycle.** That a commit's generation is still active rests on which
transitions wait for the commit lock; that stale work is cancelled rests on the
active generation having an unset event and on no event lying above the epoch;
that a pause holds rests on where in a handler the actor can be, and a block
that waits for the commit lock holds from the moment it has it
(`BlockAwaitsCommit`). `IInv` is
`TypeOK`, `GateInv` (`ActiveAdmitsWork`, `StaleWorkCancelled` and
`EventsCancelled`: events lie at or below the epoch and all but the active
one's are set), `ControlState` (what state the gate has at each place of a
handler), and the three properties that depend on it. The lemmas on the gate
show that each gate operation keeps `GateInv` whoever calls it. `InFlightExact`
is proved on top with the cardinality theorems for finite sets.
`TransitionsLegal` and `GateIsFence` follow from one lemma that classifies
every step by what it does to the gate (`EveryStepIsGateStep`).

**SessionSafety.** Every step of the composition is a step of `Lifecycle` or
leaves its variables alone, so the lifecycle's theorems carry over
(`SafetyImplementsLifecycle`). `SafetyInv` follows the last request the
controller made: whatever timed out, the actor's latch ends up where that
request puts it, and until then the policy is locked.

**Pipeline.** `BaseInv` has the types, what each place of ingress, stage and drain
says of the item it holds, and the gate's state during a drain. On it rest, one
after the other, the exact ledgers, the capacity of the edges (a message is on
an edge only with a credit, so `Capacity` bounds the socket), and what a drain
has emptied by each of its phases and who could still fill it again.
`ItemOnce` has an invariant of its own: every place of an item is counted with
the cardinality theorems, and a step moves an item between two places.

**Storage.** `IInv` says, for every place of put, delete and recover, what row,
intent, visible and durable blob agree on; `WrittenInv`, `GoneInv` and
`MarkedInv` tie the histories to them under the faults each property excepts;
a repeated put adds to `written` what the row it found already guarantees.
The count of files is proved on top: recovery moves files to the quarantine
without changing their number (`QuarantineKeepsCount`), and a put counts its
temporary file before it makes it.

**DerivedData.** `DerivedInv` says how far the deletion has come (`PhaseInv`),
what it has cleaned by then and why no call under way can bring it back
(`CleanInv`: storage has no copy left to read, calls under way hold none but the
excepted ones, and a collector that writes the snapshot listed the records
after they went),
and that a reported record is nowhere it could return from (`ReportInv`).

**Ipc.** `IpcInv` follows one request: before it is received nothing was done for
it, in a lane it carries the token it was accepted with, and an outcome,
wherever it is between future, reply and client, agrees with what the handler
did.

**The contract and the decisions.** The theorems about a pure algorithm are stated
of all its inputs, not of the ones a run enumerates: every response of the types of
`cli_contract.py` over any texts, every catalogue with distinct identifiers and
every window and limit, a day of any length, observations of any number and order,
pictures of every size. `ClientNeverMisled` and `DecisionsAlwaysSound` then carry
them to the specification: `InputInv` says that what a decision was handed is an
input of its kind, and each input of `MCServices` is shown to satisfy what the
theorem of its kind assumes. None needs induction:

* the codecs are undone field by field, and `None` is told from every time, payload
  and reason (`NoneApart`, which TLC evaluates on the instance);
* a record is on a page when fewer than `limit` records come before it. The number
  of records before a record is a one-to-one numbering of them, so a truncated page
  is full, and a page that is not truncated has them all (`ListingIsExact`);
* the days that a half-open window touches are those of its first and last instant
  and all between, by lemmas on quotients and remainders (`ScopeIsExact`);
* the least index of a winner and the last column left of an edge exist by
  well-foundedness of the natural numbers (`LeastOf`).

**Policy.** `PolicyInv` says that as long as an authorisation's generation is the
engine's, the engine still answers as it did when the authorisation was given:
every change moves the generation (`ChangedKeeps`), and so does a snapshot that
drops markers which ran out (`SnapshotEffect`).

**SessionDetection, AdaptiveCapture.** `DetectionInv` ties the hint and a query's
answer to the history since the query began. `AdaptiveInv` adds to
`DebounceHolds` that the pending change was seen by every poll since it was
noted, and that the span and the frame really kept are the same.

**Retrieval.** `AnswerInv` follows a question through its phases: the candidate
being judged matches and was not judged before; every passage has its grant
under the question's revision, for remote use too while the question is
eligible, and was stored when looked at again; the batch holds passages only;
what the route, the gate and the builder checked (`Sendable`) still holds at
every attempt, and all attempts carry the same request.

**Vault.** `VaultInv` follows envelopes wherever they are: stored, between wrap
and put, or in the archive, each is `Governed`, that is, its version's material
is the one that wrapped it or was revoked. Material is drawn once, so versions
never share it. `RewrapInv` says that the envelope a rewrap has wrapped carries
no older version than the stored one it came from, as long as nothing was
`misused`.

**Diagnostics, Audit.** `DiagnosticsInv` ties each result to what its component
was during the report (`VerdictInv`) and the place of every caller's repair to
the log (`RepairInv`). `TrailInv` bounds each file by what is checked before an
event is written, says which piece of a file follows a fragment, and says at which step of a deletion its effect, its event and its
acknowledgement are there.

Only model-checked:

* liveness (`ActorResponds`, `StartSettles`, `PipelineSettles` and the properties
  of `progress`): fairness and ENABLED are beyond the prover;
* `SelectionsExact`: retention sweeps, rule order, strategy resolution and
  redaction are folds and filters of sequences, and what those compute for every
  input needs induction over the data.

## Not modelled

* Capture backends and metadata providers: request/response I/O with the display
  server, window managers and ActivityWatch. Their results are inputs of
  `AdaptiveCapture` and `SessionDetection`.
* Configuration: parsing and validation of TOML. Its revision is an input of
  `Lifecycle`, a compiled policy one of `Policy`.
* Visual context, command line, indicator and UI: requests in, renderings out,
  no state in between.
* Inside the modelled components: cryptography, the regular expressions and the
  OCR process, clustering and vector arithmetic, schema migrations, start and
  close of the pipeline runtime, file permissions and process hardening, the
  diagnostic bundle, and the formats of archive and HTTP bodies.
* Composition: purge over `DerivedData`, `AdaptiveCapture` in front of
  `Pipeline`, and `SessionDetection` in front of `SessionSafety` are separate
  modules that meet only in their inputs.

## Plan

1. Done: lifecycle with fence; session safety over it; pipeline; storage; derived
   data; the services around them with their algorithms; and the safety theorems
   of all of them.
2. An abstract specification of deletion (a scope is deleted everywhere or still
   journalled) that `DerivedData` implements, and purge over it; likewise an
   abstract store that `Storage` implements where no fault is allowed.
3. Done: the pure algorithms that need no induction, proved for all inputs.
4. Composition of `SessionDetection` with `SessionSafety`, so that "unlocked only
   when proven" reaches the lifecycle.
