------------------------------ MODULE Lifecycle ------------------------------
(***************************************************************************)
(* The capture lifecycle of local-recall: CaptureGate (lifecycle/gate.py), *)
(* the LifecycleActor that is its only owner and the private preflight     *)
(* actor (lifecycle/actor.py), together with the worker threads that run   *)
(* capture and persistence operations through the gate.                    *)
(*                                                                         *)
(* A handler of LifecycleActor is one or more steps.  A step ends where    *)
(* the handler leaves the actor thread's own code and other threads can    *)
(* run in between: where a transition waits for the commit lock (phase     *)
(* "lock"), at the audit sink (phase "emit") and inside _drain_generation  *)
(* (phase "drain").  While `phase' is not "idle" the actor takes no other  *)
(* message from its inbox.  `then' is what is left of the handler.         *)
(*                                                                         *)
(* Generations are the positive epochs; 0 stands for None.  MaxEpoch caps  *)
(* the epoch counter: a command is taken only if the epochs its handler    *)
(* may still need (Room) are available.                                    *)
(***************************************************************************)
EXTENDS Integers, Sequences, FiniteSets

CONSTANTS
    Workers,     \* the threads that run capture and persistence operations
    Revisions,   \* configuration revisions
    MaxEpoch     \* bound on the generation epoch

NoRevision == "no-revision"

ASSUME WorkersAssumption == IsFiniteSet(Workers)
ASSUME RevisionsAssumption == NoRevision \notin Revisions
ASSUME MaxEpochAssumption == MaxEpoch \in Nat \ {0}

VARIABLES
    \* CaptureGate
    state, active, draining, epoch, revision, healthy,
    events,       \* keys of _cancel_events
    cancelled,    \* generations whose cancel event is set (a permit keeps it)
    inFlight,     \* _in_flight, 0 where the key is absent
    \* LifecycleActor
    manualPause, autoReason, phase, then, drainGen, reply, dying,
    \* _LifecyclePreflightActor and the completions it told the lifecycle actor
    pfQueue, pfRunning, completions,
    \* worker threads
    work,
    \* history: preflight succeeded since begin_start; generation of last commit
    verified, lastCommit

gateVars == <<state, active, draining, epoch, revision, healthy, events,
              cancelled, inFlight>>
actorVars == <<manualPause, autoReason, phase, then, drainGen, reply, dying>>
preflightVars == <<pfQueue, pfRunning, completions>>
history == <<verified, lastCommit>>
vars == <<gateVars, actorVars, preflightVars, work, history>>

None == "none"
NoGeneration == 0
Generations == 1..MaxEpoch
States == {"OFF", "STARTING", "RECORDING", "PAUSED", "STOPPING", "FAULTED"}
BlockReasons == {"SESSION_LOCKED", "IDLE"}
ReleaseReasons == {"SESSION_UNLOCKED", "ACTIVE"}
PreflightResults == {"ready", "failed"} \cup BlockReasons

\* _ALLOWED_TRANSITIONS without PRIVACY, which nothing enters.
AllowedTransitions ==
    [ s \in States |->
        CASE s = "OFF"       -> {"STARTING", "FAULTED"}
          [] s = "STARTING"  -> {"RECORDING", "PAUSED", "STOPPING", "OFF", "FAULTED"}
          [] s = "RECORDING" -> {"PAUSED", "STOPPING", "FAULTED"}
          [] s = "PAUSED"    -> {"RECORDING", "PAUSED", "STOPPING", "FAULTED"}
          [] s = "STOPPING"  -> {"OFF", "FAULTED"}
          [] s = "FAULTED"   -> {"OFF"} ]

Init ==
    /\ state = "OFF"
    /\ active = NoGeneration
    /\ draining = NoGeneration
    /\ epoch = 0
    /\ revision = NoRevision
    /\ healthy = TRUE
    /\ events = {}
    /\ cancelled = {}
    /\ inFlight = [g \in Generations |-> 0]
    /\ manualPause = FALSE
    /\ autoReason = None
    /\ phase = "idle"
    /\ then = "reply"
    /\ drainGen = NoGeneration
    /\ reply = None
    /\ dying = FALSE
    /\ pfQueue = << >>
    /\ pfRunning = NoGeneration
    /\ completions = << >>
    /\ work = [w \in Workers |-> [at |-> "idle", gen |-> NoGeneration]]
    /\ verified = FALSE
    /\ lastCommit = NoGeneration

-----------------------------------------------------------------------------
(* CaptureGate: transitions, called by the lifecycle actor only.           *)

\* run_persistence holds the commit lock for as long as its operation runs.
CommitLockFree == \A w \in Workers : work[w].at # "persisting"

Room(n) == epoch + n <= MaxEpoch

\* Mutant of CancelActive: the event of an invalidated generation is not set.
CancelNothing == UNCHANGED cancelled

\* The cancel event of the active generation, if it has one, is set.
CancelActive == cancelled' = cancelled \cup ({active} \cap events)

BeginStart(rev) ==
    /\ state = "OFF"
    /\ state' = "STARTING"
    /\ epoch' = epoch + 1
    /\ active' = epoch + 1
    /\ draining' = NoGeneration
    /\ revision' = rev
    /\ healthy' = TRUE
    /\ events' = events \cup {epoch + 1}
    /\ UNCHANGED <<cancelled, inFlight>>

MarkRecording(g) ==
    /\ state = "STARTING"
    /\ active = g
    /\ state' = "RECORDING"
    /\ UNCHANGED <<active, draining, epoch, revision, healthy, events, cancelled,
                   inFlight>>

\* Mutant of GatePause: the reserved privacy state is entered.
GatePauseAsPrivacy ==
    /\ state = "RECORDING"
    /\ active # NoGeneration
    /\ state' = "PRIVACY"
    /\ UNCHANGED <<active, draining, epoch, revision, healthy, events, cancelled,
                   inFlight>>

GatePause ==
    /\ state = "RECORDING"
    /\ active # NoGeneration
    /\ state' = "PAUSED"
    /\ UNCHANGED <<active, draining, epoch, revision, healthy, events, cancelled,
                   inFlight>>

GateResume ==
    /\ state = "PAUSED"
    /\ active # NoGeneration
    /\ state' = "RECORDING"
    /\ UNCHANGED <<active, draining, epoch, revision, healthy, events, cancelled,
                   inFlight>>

InvalidateAndPauseUnlocked ==
    /\ state \in {"STARTING", "RECORDING", "PAUSED"}
    /\ Room(1)
    /\ CancelActive
    /\ epoch' = epoch + 1
    /\ active' = epoch + 1
    /\ draining' = active
    /\ events' = events \cup {epoch + 1}
    /\ state' = "PAUSED"
    /\ UNCHANGED <<revision, healthy, inFlight>>

\* Mutant of InvalidateAndPause: the paused generation gets no cancel event.
InvalidateWithoutEvent ==
    /\ CommitLockFree
    /\ state \in {"STARTING", "RECORDING", "PAUSED"}
    /\ Room(1)
    /\ CancelActive
    /\ epoch' = epoch + 1
    /\ active' = epoch + 1
    /\ draining' = active
    /\ state' = "PAUSED"
    /\ UNCHANGED <<revision, healthy, events, inFlight>>

InvalidateAndPause == CommitLockFree /\ InvalidateAndPauseUnlocked

BeginStoppingUnlocked ==
    /\ Room(1)
    /\ CancelActive
    /\ draining' = IF active # NoGeneration THEN active ELSE draining
    /\ epoch' = epoch + 1
    /\ active' = NoGeneration
    /\ state' = "STOPPING"
    /\ UNCHANGED <<revision, healthy, events, inFlight>>

BeginStopping == CommitLockFree /\ BeginStoppingUnlocked

\* Mutant of FinishOff: the events of finished generations are not swept.
FinishOffWithoutSweep ==
    /\ state' = "OFF"
    /\ active' = NoGeneration
    /\ draining' = NoGeneration
    /\ revision' = NoRevision
    /\ healthy' = TRUE
    /\ UNCHANGED <<epoch, events, cancelled, inFlight>>

FinishOff ==
    /\ state' = "OFF"
    /\ active' = NoGeneration
    /\ draining' = NoGeneration
    /\ revision' = NoRevision
    /\ healthy' = TRUE
    /\ events' = {g \in events : ~(g \in cancelled /\ inFlight[g] = 0)}
    /\ UNCHANGED <<epoch, cancelled, inFlight>>

GateFault ==
    /\ CommitLockFree
    /\ Room(1)
    /\ CancelActive
    /\ draining' = IF active # NoGeneration THEN active ELSE draining
    /\ epoch' = epoch + 1
    /\ active' = NoGeneration
    /\ healthy' = FALSE
    /\ state' = "FAULTED"
    /\ UNCHANGED <<revision, events, inFlight>>

-----------------------------------------------------------------------------
(* CaptureGate: operations of the workers and of the preflight actor.      *)

Register(g) ==
    /\ g \in events
    /\ g \notin cancelled
    /\ revision # NoRevision
    /\ inFlight' = [inFlight EXCEPT ![g] = @ + 1]

\* Mutant of Release: the count of the generation is dropped by the first
\* operation that leaves.
ReleaseAll(g) ==
    /\ inFlight' = [inFlight EXCEPT ![g] = 0]
    /\ events' = IF active # g THEN events \ {g} ELSE events

Release(g) ==
    /\ inFlight' = [inFlight EXCEPT ![g] = IF @ <= 1 THEN 0 ELSE @ - 1]
    /\ events' = IF inFlight[g] <= 1 /\ active # g THEN events \ {g} ELSE events

-----------------------------------------------------------------------------
(* LifecycleActor: the pieces its handlers are made of.                    *)

\* The next message can be taken from the inbox.
Ready == phase = "idle" /\ ~dying

Answer(accepted) ==
    /\ phase' = "idle"
    /\ then' = "reply"
    /\ drainGen' = NoGeneration
    /\ reply' = IF accepted THEN "accepted" ELSE "rejected"

\* _emit_transition is called; k is what the handler does if it succeeds.
Emit(k, g) ==
    /\ phase' = "emit"
    /\ then' = k
    /\ drainGen' = g
    /\ reply' = None

\* What a handler may want the commit lock for.
FaultTransitions == {"fault", "fault-undrained"}
LockedTransitions == BlockReasons \cup {"stop"} \cup FaultTransitions

\* invalidate_and_pause, begin_stopping or fault is called.  Each begins by
\* waiting for the commit lock, and the wait has no deadline.
AwaitCommitLock(k) ==
    /\ Room(1)
    /\ phase' = "lock"
    /\ then' = k
    /\ drainGen' = NoGeneration
    /\ reply' = None
    /\ UNCHANGED gateVars

FaultTransition(drainGeneration) ==
    IF drainGeneration THEN "fault" ELSE "fault-undrained"

\* Mutant of EnterFault: a fault in FAULTED is taken once more.
EnterFaultAgain(drainGeneration) == AwaitCommitLock(FaultTransition(drainGeneration))

\* _enter_fault, up to the gate's fault().
EnterFault(drainGeneration) ==
    IF state = "FAULTED"
      THEN Answer(FALSE) /\ UNCHANGED gateVars
      ELSE AwaitCommitLock(FaultTransition(drainGeneration))

\* Mutant of GateQuiescent: the drain does not wait for gate operations.
AssumedQuiescent(g) == TRUE

\* What _drain_generation waits for in the gate.
GateQuiescent(g) == g = NoGeneration \/ inFlight[g] = 0

-----------------------------------------------------------------------------
(* LifecycleActor: command handlers.                                       *)

StartRefused ==
    /\ Ready
    /\ \/ state \in {"RECORDING", "STARTING"} /\ Answer(TRUE)
       \/ state \notin {"RECORDING", "STARTING"} /\ Answer(FALSE)
    /\ UNCHANGED <<gateVars, manualPause, autoReason, dying, preflightVars, work, history>>

\* The configuration source raises, at a start or in on_start.
StartWithoutConfiguration ==
    /\ Ready
    /\ state = "OFF"
    /\ EnterFault(TRUE)
    /\ UNCHANGED <<manualPause, autoReason, dying, preflightVars, work, history>>

Start(rev) ==
    /\ Ready
    /\ Room(3)
    /\ BeginStart(rev)
    /\ Emit("starting", NoGeneration)
    /\ verified' = FALSE
    /\ UNCHANGED <<manualPause, autoReason, dying, preflightVars, work, lastCommit>>

\* The handler of CompleteLifecyclePreflight.
PreflightComplete ==
    /\ Ready
    /\ completions # << >>
    /\ completions' = Tail(completions)
    /\ LET m == Head(completions)
           reason == IF m.result \in BlockReasons THEN m.result ELSE autoReason
       IN  \/ /\ state # "STARTING" \/ active # m.gen
              /\ Answer(FALSE)
              /\ UNCHANGED <<gateVars, autoReason, verified>>
           \/ /\ state = "STARTING" /\ active = m.gen
              /\ m.result = "failed"
              /\ EnterFault(TRUE)
              /\ UNCHANGED <<autoReason, verified>>
           \/ /\ state = "STARTING" /\ active = m.gen
              /\ m.result # "failed"
              /\ reason # None
              /\ AwaitCommitLock(reason)
              /\ verified' = TRUE
              /\ UNCHANGED autoReason
           \/ /\ m.result # "failed"
              /\ reason = None
              /\ MarkRecording(m.gen)
              /\ Emit("reply", NoGeneration)
              /\ verified' = TRUE
              /\ UNCHANGED autoReason
    /\ UNCHANGED <<manualPause, dying, pfQueue, pfRunning, work, lastCommit>>

Pause ==
    /\ Ready
    /\ \/ /\ state = "PAUSED"
          /\ manualPause' = TRUE
          /\ Answer(TRUE)
          /\ UNCHANGED gateVars
       \/ /\ state \notin {"PAUSED", "RECORDING"}
          /\ Answer(FALSE)
          /\ UNCHANGED <<gateVars, manualPause>>
       \/ /\ Room(1)
          /\ manualPause' = TRUE
          /\ GatePause
          /\ Emit("reply", NoGeneration)
    /\ UNCHANGED <<autoReason, dying, preflightVars, work, history>>

\* Mutant of Resume: the user's resume overrides a session-safety block.
ResumeOverBlock ==
    /\ Ready
    /\ Room(1)
    /\ GateResume
    /\ manualPause' = FALSE
    /\ Emit("reply", NoGeneration)
    /\ UNCHANGED <<autoReason, dying, preflightVars, work, history>>

Resume ==
    /\ Ready
    /\ \/ /\ autoReason # None
          /\ Answer(FALSE)
          /\ UNCHANGED <<gateVars, manualPause>>
       \/ /\ autoReason = None
          /\ state = "RECORDING"
          /\ manualPause' = FALSE
          /\ Answer(TRUE)
          /\ UNCHANGED gateVars
       \/ /\ autoReason = None
          /\ state \notin {"RECORDING", "PAUSED"}
          /\ Answer(FALSE)
          /\ UNCHANGED <<gateVars, manualPause>>
       \/ /\ autoReason = None
          /\ Room(1)
          /\ GateResume
          /\ manualPause' = FALSE
          /\ Emit("reply", NoGeneration)
    /\ UNCHANGED <<autoReason, dying, preflightVars, work, history>>

\* SetAutomaticCaptureBlock(blocked=True): there is nothing to do.
BlockIsRedundant(reason) ==
    \/ autoReason = "SESSION_LOCKED" /\ reason = "IDLE"
    \/ autoReason = reason /\ state = "PAUSED"

Block(reason) ==
    /\ Ready
    /\ \/ /\ BlockIsRedundant(reason)
          /\ Answer(TRUE)
          /\ UNCHANGED <<gateVars, autoReason>>
       \/ /\ ~BlockIsRedundant(reason)
          /\ state \in {"OFF", "STOPPING", "FAULTED"}
          /\ autoReason' = reason
          /\ Answer(TRUE)
          /\ UNCHANGED gateVars
       \/ /\ ~BlockIsRedundant(reason)
          /\ state \in {"STARTING", "RECORDING", "PAUSED"}
          /\ Room(2)
          /\ autoReason' = reason
          /\ AwaitCommitLock(reason)
    /\ UNCHANGED <<manualPause, dying, preflightVars, work, history>>

ExpectedRelease ==
    IF autoReason = "SESSION_LOCKED" THEN "SESSION_UNLOCKED" ELSE "ACTIVE"

\* Mutant of Unblock: the release forgets that the user paused.
UnblockOverPause(reason) ==
    /\ Ready
    /\ reason = ExpectedRelease
    /\ Room(1)
    /\ autoReason' = None
    /\ GateResume
    /\ Emit("reply", NoGeneration)
    /\ UNCHANGED <<manualPause, dying, preflightVars, work, history>>

Unblock(reason) ==
    /\ Ready
    /\ \/ /\ autoReason = None
          /\ Answer(TRUE)
          /\ UNCHANGED <<gateVars, autoReason>>
       \/ /\ autoReason # None
          /\ reason # ExpectedRelease
          /\ Answer(FALSE)
          /\ UNCHANGED <<gateVars, autoReason>>
       \/ /\ autoReason # None
          /\ reason = ExpectedRelease
          /\ state # "PAUSED" \/ manualPause
          /\ autoReason' = None
          /\ Answer(TRUE)
          /\ UNCHANGED gateVars
       \/ /\ autoReason # None
          /\ reason = ExpectedRelease
          /\ ~manualPause
          /\ Room(1)
          /\ autoReason' = None
          /\ GateResume
          /\ Emit("reply", NoGeneration)
    /\ UNCHANGED <<manualPause, dying, preflightVars, work, history>>

\* _handle_stop, for StopCapture and for on_stop.
HandleStop ==
    /\ manualPause' = FALSE
    /\ \/ /\ state = "OFF"
          /\ Answer(TRUE)
          /\ UNCHANGED gateVars
       \/ /\ state = "FAULTED"          \* the buffers could not be cleared
          /\ Answer(FALSE)
          /\ UNCHANGED gateVars
       \/ /\ state = "FAULTED"
          /\ Room(1)
          /\ FinishOff
          /\ Emit("reply", NoGeneration)
       \/ /\ state \notin {"OFF", "FAULTED"}
          /\ Room(2)
          /\ AwaitCommitLock("stop")
    /\ UNCHANGED <<autoReason, preflightVars, work, history>>

Stop == Ready /\ HandleStop /\ UNCHANGED dying

\* FaultCapture, told by the pipeline, or a message of an unknown type.
Fault ==
    /\ Ready
    /\ \/ state = "FAULTED" /\ Answer(TRUE) /\ UNCHANGED gateVars
       \/ EnterFault(TRUE)
    /\ UNCHANGED <<manualPause, autoReason, dying, preflightVars, work, history>>

\* The actor is stopped: on_stop.
Shutdown ==
    /\ Ready
    /\ dying' = TRUE
    /\ \/ /\ state = "OFF"
          /\ UNCHANGED <<gateVars, manualPause, autoReason, phase, then, drainGen, reply,
                         preflightVars, work, history>>
       \/ state # "OFF" /\ HandleStop

\* A told message raised: on_failure.
ActorFails ==
    /\ Ready
    /\ dying' = TRUE
    /\ EnterFault(TRUE)
    /\ UNCHANGED <<manualPause, autoReason, preflightVars, work, history>>

\* on_stop or on_failure has run: the preflight actor is stopped and the gate
\* has no owner any more.
Die ==
    /\ phase = "idle" /\ dying
    /\ phase' = "dead"
    /\ UNCHANGED <<gateVars, manualPause, autoReason, then, drainGen, reply, dying,
                   preflightVars, work, history>>

-----------------------------------------------------------------------------
(* LifecycleActor: the rest of a handler.                                  *)

\* The commit lock is free: the handler that waits for it makes its transition.
\* A block calls _emit_transition and so does a stop; _enter_fault ignores the
\* audit sink's failure, so its emit needs no step of its own.
LockTaken ==
    /\ phase = "lock"
    /\ \/ /\ then \in BlockReasons
          /\ InvalidateAndPause
          /\ autoReason' = then
          /\ Emit("pausing", active)
       \/ /\ then = "stop"
          /\ BeginStopping
          /\ Emit("stopping", active)
          /\ UNCHANGED autoReason
       \/ /\ then = "fault"
          /\ GateFault
          /\ phase' = "drain"
          /\ then' = "faulted"
          /\ drainGen' = IF active # NoGeneration THEN active ELSE draining
          /\ reply' = None
          /\ UNCHANGED autoReason
       \/ /\ then = "fault-undrained"
          /\ GateFault
          /\ Answer(FALSE)
          /\ UNCHANGED autoReason
    /\ UNCHANGED <<manualPause, dying, preflightVars, work, history>>

EmitSucceeds ==
    /\ phase = "emit"
    /\ \/ /\ then = "starting"
          /\ pfQueue' = Append(pfQueue, active)
          /\ Answer(TRUE)
       \/ /\ then = "reply"
          /\ Answer(TRUE)
          /\ UNCHANGED pfQueue
       \/ /\ then \in {"pausing", "stopping"}
          /\ phase' = "drain"
          /\ UNCHANGED <<then, drainGen, reply, pfQueue>>
    /\ UNCHANGED <<gateVars, manualPause, autoReason, dying, pfRunning, completions,
                   work, history>>

EmitFails ==
    /\ phase = "emit"
    /\ EnterFault(TRUE)
    /\ UNCHANGED <<manualPause, autoReason, dying, preflightVars, work, history>>

\* Operations of the generation left and the coordinator reported success.
DrainSucceeds ==
    /\ phase = "drain"
    /\ then # "faulted"
    /\ GateQuiescent(drainGen)
    /\ \/ then = "pausing" /\ Answer(TRUE) /\ UNCHANGED gateVars
       \/ then = "stopping" /\ FinishOff /\ Emit("reply", NoGeneration)
    /\ UNCHANGED <<manualPause, autoReason, dying, preflightVars, work, history>>

\* Mutant of DrainFails: the drain has no deadline.
DrainWithoutDeadline == phase = "drain" /\ FALSE /\ UNCHANGED vars

\* A timeout, or the coordinator raised.
DrainFails ==
    /\ phase = "drain"
    /\ then # "faulted"
    /\ EnterFault(FALSE)
    /\ UNCHANGED <<manualPause, autoReason, dying, preflightVars, work, history>>

\* _enter_fault does not look at the outcome of the drain.
FaultDrainEnds ==
    /\ phase = "drain"
    /\ then = "faulted"
    /\ Answer(FALSE)
    /\ UNCHANGED <<gateVars, manualPause, autoReason, dying, preflightVars, work, history>>

-----------------------------------------------------------------------------
(* The preflight actor: one thread, first in first out.                    *)

PreflightPermitted(g) ==
    state = "STARTING" /\ active = g /\ g \in events /\ g \notin cancelled

PreflightBegin ==
    /\ pfRunning = NoGeneration
    /\ pfQueue # << >>
    /\ pfQueue' = Tail(pfQueue)
    /\ \/ /\ PreflightPermitted(Head(pfQueue))
          /\ Register(Head(pfQueue))
          /\ pfRunning' = Head(pfQueue)
       \/ /\ ~PreflightPermitted(Head(pfQueue))
          /\ UNCHANGED <<inFlight, pfRunning>>
    /\ UNCHANGED <<state, active, draining, epoch, revision, healthy, events, cancelled,
                   actorVars, completions, work, history>>

\* Mutant of PreflightEnd: a failed check is not reported.
PreflightEndSilently(result) ==
    /\ pfRunning # NoGeneration
    /\ Release(pfRunning)
    /\ pfRunning' = NoGeneration
    /\ completions' = IF phase = "dead" \/ result = "failed" THEN completions
                      ELSE Append(completions, [gen |-> pfRunning, result |-> result])
    /\ UNCHANGED <<state, active, draining, epoch, revision, healthy, cancelled,
                   actorVars, pfQueue, work, history>>

\* "failed" also stands for a check that raised or returned after its deadline.
PreflightEnd(result) ==
    /\ pfRunning # NoGeneration
    /\ Release(pfRunning)
    /\ pfRunning' = NoGeneration
    /\ completions' = IF phase = "dead" THEN completions
                      ELSE Append(completions, [gen |-> pfRunning, result |-> result])
    /\ UNCHANGED <<state, active, draining, epoch, revision, healthy, cancelled,
                   actorVars, pfQueue, work, history>>

-----------------------------------------------------------------------------
(* Worker threads.  A worker captures an item and later persists or drops  *)
(* it; between the two the item is "held" outside the gate.                *)

CaptureBegin(w) ==
    /\ work[w].at = "idle"
    /\ state = "RECORDING"
    /\ active # NoGeneration
    /\ Register(active)
    /\ work' = [work EXCEPT ![w] = [at |-> "capturing", gen |-> active]]
    /\ UNCHANGED <<state, active, draining, epoch, revision, healthy, events, cancelled,
                   actorVars, preflightVars, history>>

CaptureEnd(w) ==
    /\ work[w].at = "capturing"
    /\ Release(work[w].gen)
    /\ work' = [work EXCEPT ![w].at = "held"]
    /\ UNCHANGED <<state, active, draining, epoch, revision, healthy, cancelled,
                   actorVars, preflightVars, history>>

\* The item is dropped, or its persistence refused by the gate.
Discard(w) ==
    /\ work[w].at = "held"
    /\ work' = [work EXCEPT ![w] = [at |-> "idle", gen |-> NoGeneration]]
    /\ UNCHANGED <<gateVars, actorVars, preflightVars, history>>

\* Mutant of PersistBegin: the generation is not compared under the lock.
PersistBeginUnchecked(w) ==
    /\ work[w].at = "held"
    /\ CommitLockFree
    /\ state \in {"RECORDING", "PAUSED"}
    /\ inFlight' = [inFlight EXCEPT ![work[w].gen] = @ + 1]
    /\ work' = [work EXCEPT ![w].at = "persisting"]
    /\ UNCHANGED <<state, active, draining, epoch, revision, healthy, events, cancelled,
                   actorVars, preflightVars, history>>

\* The commit lock is taken and the generation checked under it.
PersistBegin(w) ==
    /\ work[w].at = "held"
    /\ CommitLockFree
    /\ state \in {"RECORDING", "PAUSED"}
    /\ active = work[w].gen
    /\ Register(work[w].gen)
    /\ work' = [work EXCEPT ![w].at = "persisting"]
    /\ UNCHANGED <<state, active, draining, epoch, revision, healthy, events, cancelled,
                   actorVars, preflightVars, history>>

\* The commit operation returned (stored) or raised.
PersistEnd(w) ==
    /\ work[w].at = "persisting"
    /\ Release(work[w].gen)
    /\ \E stored \in BOOLEAN : lastCommit' = IF stored THEN work[w].gen ELSE lastCommit
    /\ work' = [work EXCEPT ![w] = [at |-> "idle", gen |-> NoGeneration]]
    /\ UNCHANGED <<state, active, draining, epoch, revision, healthy, cancelled,
                   actorVars, preflightVars, verified>>

-----------------------------------------------------------------------------
Command ==
    \/ StartRefused
    \/ StartWithoutConfiguration
    \/ \E rev \in Revisions : Start(rev)
    \/ Pause
    \/ Resume
    \/ \E reason \in BlockReasons : Block(reason)
    \/ \E reason \in ReleaseReasons : Unblock(reason)
    \/ Stop
    \/ Fault
    \/ Shutdown
    \/ ActorFails

ActorStep ==
    \/ PreflightComplete
    \/ LockTaken
    \/ EmitSucceeds
    \/ EmitFails
    \/ DrainSucceeds
    \/ DrainFails
    \/ FaultDrainEnds
    \/ Die

PreflightStep == PreflightBegin \/ \E r \in PreflightResults : PreflightEnd(r)

WorkerEnds(w) == CaptureEnd(w) \/ PersistEnd(w)

WorkerStep(w) == CaptureBegin(w) \/ Discard(w) \/ PersistBegin(w) \/ WorkerEnds(w)

\* The actor is dead; the process may stop.
Terminated == phase = "dead" /\ UNCHANGED vars

Next ==
    \/ Command
    \/ ActorStep
    \/ PreflightStep
    \/ \E w \in Workers : WorkerStep(w)
    \/ Terminated

Spec == Init /\ [][Next]_vars

\* The actor thread goes on with the handler it is in: the audit sink returns,
\* the drain has a deadline and a commit lock that stays free is taken.  Nothing
\* is assumed about commands, preflight checks and workers.
ActorFairSpec == Spec /\ WF_vars(ActorStep)

-----------------------------------------------------------------------------
(* Properties.                                                             *)

GateTypeOK ==
    /\ state \in States
    /\ active \in 0..MaxEpoch
    /\ draining \in 0..MaxEpoch
    /\ epoch \in 0..MaxEpoch
    /\ revision \in Revisions \cup {NoRevision}
    /\ healthy \in BOOLEAN
    /\ events \subseteq Generations
    /\ cancelled \subseteq Generations
    /\ inFlight \in [Generations -> Nat]

ActorTypeOK ==
    /\ manualPause \in BOOLEAN
    /\ autoReason \in BlockReasons \cup {None}
    /\ phase \in {"idle", "lock", "emit", "drain", "dead"}
    /\ then \in {"starting", "reply", "pausing", "stopping", "faulted"} \cup LockedTransitions
    /\ drainGen \in 0..MaxEpoch
    /\ reply \in {None, "accepted", "rejected"}
    /\ dying \in BOOLEAN

PreflightTypeOK ==
    /\ pfQueue \in Seq(Generations)
    /\ pfRunning \in 0..MaxEpoch
    /\ completions \in Seq([gen : Generations, result : PreflightResults])

WorkTypeOK ==
    work \in [Workers -> [at : {"idle"}, gen : {NoGeneration}]
                \cup [at : {"capturing", "held", "persisting"}, gen : Generations]]

HistoryTypeOK == verified \in BOOLEAN /\ lastCommit \in 0..MaxEpoch

\* Types of the gate, the actor, the preflight actor and the workers; the
\* reserved PRIVACY state is never entered, and only real generations are sent
\* to the preflight actor or carried by a worker.
TypeOK ==
    /\ GateTypeOK
    /\ ActorTypeOK
    /\ PreflightTypeOK
    /\ WorkTypeOK
    /\ HistoryTypeOK

\* While a commit runs inside run_persistence its generation is the active
\* one, the gate is recording or paused and the generation is not cancelled:
\* neither a stop, nor a fault, nor a safety block can slip in between the
\* final check and the commit.
PersistenceBarrier ==
    \A w \in Workers :
        work[w].at = "persisting" =>
            /\ work[w].gen = active
            /\ state \in {"RECORDING", "PAUSED"}
            /\ active \notin cancelled

\* An operation that is still registered for a generation that is no longer
\* the active one holds a permit whose cancellation signal is set.
StaleWorkCancelled ==
    \A g \in Generations : inFlight[g] > 0 /\ g # active => g \in cancelled

Registered(g) ==
    {w \in Workers : work[w].at \in {"capturing", "persisting"} /\ work[w].gen = g}

\* _in_flight counts exactly the operations inside run_capture,
\* run_persistence and run_preflight, whatever generation changes happen
\* while they run; the drain waits on this count.
InFlightExact ==
    \A g \in Generations :
        inFlight[g] = Cardinality(Registered(g)) + (IF pfRunning = g THEN 1 ELSE 0)

\* The active generation is the current epoch and admits work: its cancel
\* event exists and is not set and a configuration revision is bound, so the
\* RuntimeError of _register_operation_locked cannot be raised.  The gate has
\* an active generation exactly in the states whose snapshot requires one.
ActiveAdmitsWork ==
    /\ active # NoGeneration <=> state \in {"STARTING", "RECORDING", "PAUSED"}
    /\ active # NoGeneration =>
           /\ active = epoch
           /\ active \in events \ cancelled
           /\ revision # NoRevision

\* An off gate keeps cancel events only for operations that have not left yet.
NoEventLeak ==
    state = "OFF" => \A g \in events : inFlight[g] > 0

\* The dictionary of cancel events of CaptureGate follows the generations: the active one
\* always has an event that is not set, and an off gate has reclaimed all it can.
EventsSound == ActiveAdmitsWork /\ NoEventLeak

\* A manual pause is ended by the user's resume or stop only: no unlock,
\* activity or preflight result starts recording over it.
ManualPauseHolds ==
    manualPause => state \in {"PAUSED", "FAULTED"}

\* The handler of a safety block waits for a commit that is being made.
BlockAwaitsCommit == phase = "lock" /\ then \in BlockReasons

\* While a session-safety block is latched the gate does not record, wherever
\* the block arrived: at rest, during a start or before it.  The one exception
\* is the handler of the block itself, which latches the block and then waits
\* for the commit lock before it can pause the gate.
SafetyBlockHolds ==
    autoReason # None => state # "RECORDING" \/ BlockAwaitsCommit

\* Neither of the two pauses is overridden: an unlock or activity does not resume over the
\* user's pause, and neither the user's resume nor a completed start resumes over a block.
BlocksHold == ManualPauseHolds /\ SafetyBlockHolds

\* Every transition that the gate makes is one CaptureStateTransition accepts,
\* so its ValueError never interrupts a half-made transition.
LegalTransitions ==
    [][(state' # state \/ epoch' # epoch) => state' \in AllowedTransitions[state]]_vars

\* A drain that ends without a fault leaves no operation of the drained
\* generation inside the gate.
BarrierDrained ==
    [][ phase = "drain" /\ phase' \notin {"drain", "lock"} /\ state # "FAULTED"
          => Registered(drainGen) = {} /\ pfRunning # drainGen ]_vars

\* Every command handler returns, however long a preflight check or a capture
\* takes: the drain has a deadline.  The wait for the commit lock has none, so
\* the handlers that block, stop or fault need two things more: a persistence
\* operation returns, and a lock that is given back again and again is granted
\* to the actor at last.  Without the first of them the property is false.
ActorResponds ==
    (SF_vars(LockTaken) /\ \A w \in Workers : WF_vars(PersistEnd(w)))
      => (phase \in {"lock", "emit", "drain"} ~> phase \in {"idle", "dead"})

\* If preflight checks return, a start leaves STARTING, whatever the check
\* answers and whatever commands cross it.
StartSettles == WF_vars(PreflightStep) => (state = "STARTING" ~> state # "STARTING")

\* docs/lifecycle.md: recording is entered only after a preflight succeeded.
RecordingVerified == state = "RECORDING" => verified

-----------------------------------------------------------------------------
(* The gate as a generation fence.                                         *)

Fence == INSTANCE GenerationFence
    WITH live <- IF state \in {"RECORDING", "PAUSED"} THEN active ELSE NoGeneration,
         fence <- epoch

\* Seen from the commits, the gate is a generation fence: a commit belongs to
\* the generation that is open at that moment and a generation, once passed,
\* never commits again.
RefinesFence == Fence!Spec

=============================================================================
