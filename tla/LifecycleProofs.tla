--------------------------- MODULE LifecycleProofs ---------------------------
(***************************************************************************)
(* Proofs about Lifecycle, for every set of workers and every MaxEpoch.    *)
(*                                                                         *)
(* The invariant is proved in layers.  The lemmas on the gate say that     *)
(* each gate operation keeps GateInv, whatever thread runs it; the lemmas  *)
(* on the handlers add the state of the actor, and the counting invariant  *)
(* InFlightExact is proved on top of them with the cardinality theorems.   *)
(***************************************************************************)
EXTENDS Lifecycle, FiniteSetTheorems, TLAPS

\* Cancel events belong to issued generations, and every one except the
\* active generation's is set.
EventsCancelled ==
    /\ \A g \in events \cup cancelled : g <= epoch
    /\ \A g \in events : g # active => g \in cancelled

\* The state of the gate while a handler is under way.
ControlState ==
    /\ phase \in {"idle", "dead"} => state # "STOPPING"
    /\ phase = "lock" => then \in LockedTransitions
    /\ phase = "lock" /\ then \notin FaultTransitions =>
           state \in {"STARTING", "RECORDING", "PAUSED"}
    /\ phase = "lock" => state # "FAULTED"
    /\ phase = "lock" /\ then = "stop" => ~manualPause
    /\ phase = "emit" =>
           state # "FAULTED" /\ then \in {"starting", "reply", "pausing", "stopping"}
    /\ phase = "emit" /\ then = "reply" => state # "STOPPING"
    /\ phase = "emit" /\ then = "starting" => state = "STARTING"
    /\ phase \in {"emit", "drain"} /\ then = "pausing" =>
           state = "PAUSED" /\ drainGen \in Generations
    /\ phase \in {"emit", "drain"} /\ then = "stopping" =>
           state = "STOPPING" /\ drainGen \in Generations
    /\ phase = "drain" /\ then = "faulted" => state = "FAULTED"
    /\ phase = "drain" => then \in {"pausing", "stopping", "faulted"}

\* What the gate's own operations maintain.
GateInv == GateTypeOK /\ ActiveAdmitsWork /\ EventsCancelled /\ StaleWorkCancelled

\* The inductive invariant, apart from the counting of operations.
IInv ==
    /\ TypeOK
    /\ GateInv
    /\ ControlState
    /\ PersistenceBarrier
    /\ ManualPauseHolds
    /\ SafetyBlockHolds
    /\ NoEventLeak

-----------------------------------------------------------------------------
(* The gate.                                                               *)

\* BeginStart issues a generation that is fresh, so its event is not set.
LEMMA BeginStartGate ==
    ASSUME GateInv, Room(1), NEW rev \in Revisions, BeginStart(rev)
    PROVE  GateInv'
<1> USE MaxEpochAssumption, RevisionsAssumption
    DEF GateInv, Generations, States, NoGeneration, Room, BeginStart
<1>1. GateTypeOK'
  BY DEF GateTypeOK
<1>2. ActiveAdmitsWork'
  BY DEF GateTypeOK, ActiveAdmitsWork, EventsCancelled
<1>3. EventsCancelled'
  BY DEF GateTypeOK, ActiveAdmitsWork, EventsCancelled
<1>4. StaleWorkCancelled'
  BY DEF GateTypeOK, ActiveAdmitsWork, StaleWorkCancelled
<1> QED BY <1>1, <1>2, <1>3, <1>4

\* Operations that change the state only.
LEMMA StateOnlyGate ==
    ASSUME GateInv, GatePause \/ GateResume \/ \E g \in Generations : MarkRecording(g)
    PROVE  GateInv'
<1> USE DEF GateInv, Generations, States, NoGeneration, GatePause, GateResume, MarkRecording
<1>1. GateTypeOK'
  BY DEF GateTypeOK
<1>2. ActiveAdmitsWork'
  BY DEF GateTypeOK, ActiveAdmitsWork
<1>3. EventsCancelled' /\ StaleWorkCancelled'
  BY DEF GateTypeOK, EventsCancelled, StaleWorkCancelled
<1> QED BY <1>1, <1>2, <1>3

\* A safety block replaces the active generation by a fresh one.
LEMMA InvalidateGate ==
    ASSUME GateInv, InvalidateAndPause
    PROVE  GateInv'
<1> USE MaxEpochAssumption
    DEF GateInv, Generations, States, NoGeneration, Room, InvalidateAndPause,
        InvalidateAndPauseUnlocked, CancelActive
<1>1. GateTypeOK'
  BY DEF GateTypeOK
<1>2. ActiveAdmitsWork'
  BY DEF GateTypeOK, ActiveAdmitsWork, EventsCancelled
<1>3. EventsCancelled'
  BY DEF GateTypeOK, ActiveAdmitsWork, EventsCancelled
<1>4. StaleWorkCancelled'
  BY DEF GateTypeOK, ActiveAdmitsWork, StaleWorkCancelled
<1> QED BY <1>1, <1>2, <1>3, <1>4

\* Stop and fault leave no active generation.
LEMMA CloseGate ==
    ASSUME GateInv, BeginStopping \/ GateFault
    PROVE  GateInv'
<1> USE MaxEpochAssumption
    DEF GateInv, Generations, States, NoGeneration, Room, BeginStopping,
        BeginStoppingUnlocked, GateFault, CancelActive
<1>1. GateTypeOK'
  <2>1. events' \subseteq Generations /\ cancelled' \subseteq Generations
    BY DEF GateTypeOK
  <2>2. healthy' \in BOOLEAN
    BY DEF GateTypeOK
  <2>3. /\ state' \in States /\ active' \in 0..MaxEpoch /\ epoch' \in 0..MaxEpoch
        /\ draining' \in 0..MaxEpoch /\ revision' \in Revisions \cup {NoRevision}
    BY DEF GateTypeOK
  <2>4. inFlight' \in [Generations -> Nat] /\ cancelled' \subseteq Generations
    BY DEF GateTypeOK
  <2>5. QED BY ONLY <2>1, <2>2, <2>3, <2>4 DEF GateTypeOK
<1>2. ActiveAdmitsWork'
  BY DEF GateTypeOK, ActiveAdmitsWork
<1>3. EventsCancelled'
  <2>1. \A g \in events : g # active => g \in cancelled
    BY DEF EventsCancelled
  <2>2. active' = NoGeneration /\ events' = events /\ epoch' = epoch + 1
    OBVIOUS
  <2>3. cancelled' = cancelled \cup ({active} \cap events)
    OBVIOUS
  <2>4. \A g \in events' : g \in cancelled'
    BY <2>1, <2>2, <2>3
  <2>5. \A g \in events' \cup cancelled' : g <= epoch'
    BY <2>2, <2>3 DEF GateTypeOK, EventsCancelled
  <2> QED BY <2>4, <2>5 DEF EventsCancelled
<1>4. StaleWorkCancelled'
  BY DEF GateTypeOK, ActiveAdmitsWork, StaleWorkCancelled
<1> QED BY <1>1, <1>2, <1>3, <1>4

\* finish_off is called in STOPPING and in FAULTED only, where no generation
\* is active; every event it keeps belongs to an operation.
LEMMA FinishOffGate ==
    ASSUME GateInv, state \in {"STOPPING", "FAULTED"}, FinishOff
    PROVE  GateInv' /\ NoEventLeak'
<1> USE MaxEpochAssumption DEF GateInv, Generations, States, NoGeneration, FinishOff
<1>1. GateTypeOK'
  <2>1. events' \subseteq Generations /\ cancelled' \subseteq Generations
    BY DEF GateTypeOK
  <2>2. healthy' \in BOOLEAN
    BY DEF GateTypeOK
  <2>3. /\ state' \in States /\ active' \in 0..MaxEpoch /\ epoch' \in 0..MaxEpoch
        /\ draining' \in 0..MaxEpoch /\ revision' \in Revisions \cup {NoRevision}
    BY DEF GateTypeOK
  <2>4. inFlight' \in [Generations -> Nat]
    BY DEF GateTypeOK
  <2>5. QED BY ONLY <2>1, <2>2, <2>3, <2>4 DEF GateTypeOK
<1>2. ActiveAdmitsWork'
  BY DEF GateTypeOK, ActiveAdmitsWork
<1>3. EventsCancelled' /\ StaleWorkCancelled'
  BY DEF GateTypeOK, ActiveAdmitsWork, EventsCancelled, StaleWorkCancelled
<1>4. NoEventLeak'
  BY DEF GateTypeOK, ActiveAdmitsWork, EventsCancelled, NoEventLeak
<1> QED BY <1>1, <1>2, <1>3, <1>4

\* Work is registered for the active generation only.
LEMMA RegisterGate ==
    ASSUME GateInv, active \in Generations, Register(active),
           UNCHANGED <<state, active, draining, epoch, revision, healthy, events, cancelled>>
    PROVE  GateInv'
<1> USE DEF GateInv, Generations, NoGeneration, Register
<1>1. GateTypeOK'
  BY DEF GateTypeOK
<1>2. ActiveAdmitsWork' /\ EventsCancelled'
  BY DEF GateTypeOK, ActiveAdmitsWork, EventsCancelled
<1>3. StaleWorkCancelled'
  BY DEF GateTypeOK, StaleWorkCancelled
<1> QED BY <1>1, <1>2, <1>3

\* An operation leaves; with the last one of a past generation its event goes.
LEMMA ReleaseGate ==
    ASSUME GateInv, NoEventLeak, NEW g \in Generations, Release(g),
           UNCHANGED <<state, active, draining, epoch, revision, healthy, cancelled>>
    PROVE  GateInv' /\ NoEventLeak'
<1> USE DEF GateInv, Generations, NoGeneration, Release
<1>1. GateTypeOK'
  BY DEF GateTypeOK
<1>2. ActiveAdmitsWork' /\ EventsCancelled'
  BY DEF GateTypeOK, ActiveAdmitsWork, EventsCancelled
<1>3. StaleWorkCancelled'
  BY DEF GateTypeOK, StaleWorkCancelled
<1>4. NoEventLeak'
  BY DEF GateTypeOK, ActiveAdmitsWork, NoEventLeak
<1> QED BY <1>1, <1>2, <1>3, <1>4

-----------------------------------------------------------------------------
(* Types of the actor: a handler's step ends with Answer, with Emit or     *)
(* with a wait for the commit lock.                                        *)

\* The variables of the lifecycle actor and of the operations stay in their types
\* when a handler assigns them.
LEMMA ActorTypes ==
    ASSUME MaxEpoch \in Nat, manualPause' \in BOOLEAN, dying' \in BOOLEAN,
           autoReason' \in BlockReasons \cup {None},
           \/ \E b \in BOOLEAN : Answer(b)
           \/ \E k \in {"starting", "reply", "pausing", "stopping"}, g \in 0..MaxEpoch :
                 Emit(k, g)
           \/ \E k \in LockedTransitions : AwaitCommitLock(k)
    PROVE  ActorTypeOK'
BY DEF ActorTypeOK, Answer, Emit, AwaitCommitLock, NoGeneration, None

-----------------------------------------------------------------------------
(* Steps that leave the gate and the workers alone.                        *)

\* A step that leaves the gate and the actor alone, or only ends a handler,
\* preserves the invariant.
LEMMA QuietStep ==
    ASSUME IInv, UNCHANGED <<gateVars, work>>,
           ActorTypeOK', PreflightTypeOK', HistoryTypeOK',
           ControlState', ManualPauseHolds', SafetyBlockHolds'
    PROVE  IInv'
<1> USE DEF IInv, TypeOK, GateInv, gateVars
<1>1. GateTypeOK' /\ WorkTypeOK'
  BY DEF GateTypeOK, WorkTypeOK
<1>2. ActiveAdmitsWork' /\ EventsCancelled' /\ StaleWorkCancelled' /\ NoEventLeak'
  BY DEF ActiveAdmitsWork, EventsCancelled, StaleWorkCancelled, NoEventLeak
<1>3. PersistenceBarrier'
  BY DEF PersistenceBarrier
<1> QED BY <1>1, <1>2, <1>3

\* _enter_fault, called from any handler.
LEMMA FaultStep ==
    ASSUME IInv, NEW d \in BOOLEAN, EnterFault(d), phase # "lock",
           UNCHANGED <<manualPause, autoReason, work>>, dying' \in BOOLEAN,
           PreflightTypeOK', HistoryTypeOK'
    PROVE  IInv'
<1>1. CASE state = "FAULTED"
  <2>1. Answer(FALSE) /\ UNCHANGED gateVars
    BY <1>1 DEF EnterFault
  <2>2. ActorTypeOK'
    BY <2>1, MaxEpochAssumption DEF IInv, TypeOK, ActorTypeOK, Answer, NoGeneration, None
  <2>3. ControlState' /\ ManualPauseHolds' /\ SafetyBlockHolds'
    BY <1>1, <2>1
    DEF IInv, ControlState, ManualPauseHolds, SafetyBlockHolds, BlockAwaitsCommit, Answer, gateVars
  <2> QED BY <2>1, <2>2, <2>3, QuietStep
<1>2. CASE state # "FAULTED"
  <2>1. PICK k \in FaultTransitions : AwaitCommitLock(k)
    BY <1>2 DEF EnterFault, FaultTransition, FaultTransitions
  <2>2. UNCHANGED gateVars
    BY <2>1 DEF AwaitCommitLock
  <2>3. ActorTypeOK'
    BY <2>1, ActorTypes, MaxEpochAssumption DEF IInv, TypeOK, ActorTypeOK, LockedTransitions
  <2>4. ControlState'
    BY <1>2, <2>1, <2>2
    DEF AwaitCommitLock, ControlState, LockedTransitions, FaultTransitions, gateVars
  <2>5. ManualPauseHolds'
    BY <2>2 DEF IInv, ManualPauseHolds, gateVars
  <2>6. SafetyBlockHolds'
    BY <2>2 DEF IInv, SafetyBlockHolds, BlockAwaitsCommit, gateVars
  <2> QED BY <2>2, <2>3, <2>4, <2>5, <2>6, QuietStep
<1> QED BY <1>1, <1>2

-----------------------------------------------------------------------------
(* Command handlers.                                                       *)

\* _handle_start refused by the state or by a missing precondition.
LEMMA StartRefusedStep == ASSUME IInv, StartRefused PROVE IInv'
<1> USE DEF IInv, StartRefused, Ready, Answer, preflightVars, history
<1>1. ActorTypeOK'
  BY MaxEpochAssumption DEF TypeOK, ActorTypeOK, NoGeneration, None
<1>2. PreflightTypeOK' /\ HistoryTypeOK'
  BY DEF TypeOK, PreflightTypeOK, HistoryTypeOK
<1>3. ControlState' /\ ManualPauseHolds' /\ SafetyBlockHolds'
  BY DEF ControlState, ManualPauseHolds, SafetyBlockHolds, BlockAwaitsCommit, gateVars
<1> QED BY <1>1, <1>2, <1>3, QuietStep

\* _handle_start: a fresh generation and its preflight.
LEMMA StartStep == ASSUME IInv, NEW rev \in Revisions, Start(rev) PROVE IInv'
<1> USE DEF IInv, Start, BeginStart, Ready, Emit, preflightVars
<1>1. GateInv'
  BY BeginStartGate, MaxEpochAssumption DEF Room, TypeOK, GateTypeOK
<1>2. ActorTypeOK'
  BY MaxEpochAssumption DEF TypeOK, ActorTypeOK, NoGeneration, None
<1>3. PreflightTypeOK' /\ HistoryTypeOK' /\ WorkTypeOK'
  BY DEF TypeOK, PreflightTypeOK, HistoryTypeOK, WorkTypeOK
<1>4. ControlState'
  BY DEF ControlState
<1>5. PersistenceBarrier'
  BY DEF PersistenceBarrier
<1>6. ManualPauseHolds' /\ SafetyBlockHolds' /\ NoEventLeak'
  BY DEF ManualPauseHolds, SafetyBlockHolds, BlockAwaitsCommit, NoEventLeak
<1> QED BY <1>1, <1>2, <1>3, <1>4, <1>5, <1>6 DEF TypeOK, GateInv

\* _handle_pause: the gate pauses and the manual latch is set.
LEMMA PauseStep == ASSUME IInv, Pause PROVE IInv'
<1> USE DEF IInv, Pause, Ready, Emit, Answer, preflightVars, history
<1>1. ActorTypeOK'
  <2>1. manualPause' \in BOOLEAN
    BY DEF TypeOK, ActorTypeOK
  <2>2. dying' \in BOOLEAN /\ autoReason' \in BlockReasons \cup {None}
    BY DEF TypeOK, ActorTypeOK
  <2>3. (\E b \in BOOLEAN : Answer(b)) \/ Emit("reply", 0)
    BY DEF NoGeneration
  <2> QED BY <2>1, <2>2, <2>3, ActorTypes, MaxEpochAssumption
<1>2. PreflightTypeOK' /\ HistoryTypeOK' /\ WorkTypeOK'
  BY DEF TypeOK, PreflightTypeOK, HistoryTypeOK, WorkTypeOK
<1>3. ControlState' /\ ManualPauseHolds' /\ SafetyBlockHolds'
  BY
  DEF ControlState, ManualPauseHolds, SafetyBlockHolds, BlockAwaitsCommit, gateVars, GatePause
<1>4. CASE UNCHANGED gateVars
  BY <1>1, <1>2, <1>3, <1>4, QuietStep
<1>5. CASE GatePause
  <2>1. GateInv'
    BY <1>5, StateOnlyGate
  <2>2. PersistenceBarrier' /\ NoEventLeak'
    BY <1>5 DEF GatePause, PersistenceBarrier, NoEventLeak
  <2> QED BY <1>1, <1>2, <1>3, <2>1, <2>2 DEF TypeOK, GateInv
<1> QED BY <1>4, <1>5

\* _handle_resume: back to recording when no other pause holds.
LEMMA ResumeStep == ASSUME IInv, Resume PROVE IInv'
<1> USE DEF IInv, Resume, Ready, Emit, Answer, preflightVars, history
<1>1. ActorTypeOK'
  <2>1. manualPause' \in BOOLEAN
    BY DEF TypeOK, ActorTypeOK
  <2>2. dying' \in BOOLEAN /\ autoReason' \in BlockReasons \cup {None}
    BY DEF TypeOK, ActorTypeOK
  <2>3. (\E b \in BOOLEAN : Answer(b)) \/ Emit("reply", 0)
    BY DEF NoGeneration
  <2> QED BY <2>1, <2>2, <2>3, ActorTypes, MaxEpochAssumption
<1>2. PreflightTypeOK' /\ HistoryTypeOK' /\ WorkTypeOK'
  BY DEF TypeOK, PreflightTypeOK, HistoryTypeOK, WorkTypeOK
<1>3. ControlState' /\ ManualPauseHolds' /\ SafetyBlockHolds'
  BY
  DEF ControlState, ManualPauseHolds, SafetyBlockHolds, BlockAwaitsCommit, gateVars, GateResume
<1>4. CASE UNCHANGED gateVars
  BY <1>1, <1>2, <1>3, <1>4, QuietStep
<1>5. CASE GateResume
  <2>1. GateInv'
    BY <1>5, StateOnlyGate
  <2>2. PersistenceBarrier' /\ NoEventLeak'
    BY <1>5 DEF GateResume, PersistenceBarrier, NoEventLeak
  <2> QED BY <1>1, <1>2, <1>3, <2>1, <2>2 DEF TypeOK, GateInv
<1> QED BY <1>4, <1>5

\* _handle_automatic_block, blocked: the generation is replaced under the block.
LEMMA BlockStep ==
    ASSUME IInv, NEW reason \in BlockReasons, Block(reason) PROVE IInv'
<1> USE DEF IInv, Block, Ready, preflightVars, history
<1>1. ActorTypeOK'
  <2>1. manualPause' \in BOOLEAN /\ dying' \in BOOLEAN
    BY DEF TypeOK, ActorTypeOK
  <2>2. autoReason' \in BlockReasons \cup {None}
    BY DEF TypeOK, ActorTypeOK
  <2>3. (\E b \in BOOLEAN : Answer(b)) \/ AwaitCommitLock(reason)
    OBVIOUS
  <2> QED BY <2>1, <2>2, <2>3, ActorTypes, MaxEpochAssumption DEF LockedTransitions
<1>2. PreflightTypeOK' /\ HistoryTypeOK' /\ WorkTypeOK'
  BY DEF TypeOK, PreflightTypeOK, HistoryTypeOK, WorkTypeOK
<1>3. UNCHANGED gateVars
  BY DEF AwaitCommitLock
<1>4. ManualPauseHolds'
  BY <1>3 DEF ManualPauseHolds, gateVars
<1>5. CASE Answer(TRUE)
  <2>1. ControlState' /\ SafetyBlockHolds'
    BY <1>3, <1>5
    DEF Answer, AwaitCommitLock, ControlState, SafetyBlockHolds, BlockAwaitsCommit,
                      BlockAwaitsCommit, gateVars
  <2> QED BY <1>1, <1>2, <1>3, <1>4, <2>1, QuietStep
<1>6. CASE state \in {"STARTING", "RECORDING", "PAUSED"} /\ AwaitCommitLock(reason)
  <2>1. ControlState' /\ SafetyBlockHolds'
    BY <1>3, <1>6 DEF AwaitCommitLock, ControlState, SafetyBlockHolds, BlockAwaitsCommit,
                      BlockReasons, LockedTransitions, gateVars
  <2> QED BY <1>1, <1>2, <1>3, <1>4, <2>1, QuietStep
<1> QED BY <1>5, <1>6

\* _handle_automatic_block, released.
LEMMA UnblockStep ==
    ASSUME IInv, NEW reason \in ReleaseReasons, Unblock(reason) PROVE IInv'
<1> USE DEF IInv, Unblock, Ready, preflightVars, history
<1>1. ActorTypeOK'
  <2>1. manualPause' \in BOOLEAN /\ dying' \in BOOLEAN
    BY DEF TypeOK, ActorTypeOK
  <2>2. autoReason' \in BlockReasons \cup {None}
    BY DEF TypeOK, ActorTypeOK
  <2>3. (\E b \in BOOLEAN : Answer(b)) \/ Emit("reply", 0)
    BY DEF NoGeneration
  <2> QED BY <2>1, <2>2, <2>3, ActorTypes, MaxEpochAssumption
<1>2. PreflightTypeOK' /\ HistoryTypeOK' /\ WorkTypeOK'
  BY DEF TypeOK, PreflightTypeOK, HistoryTypeOK, WorkTypeOK
<1>3. CASE (\E b \in BOOLEAN : Answer(b)) /\ UNCHANGED gateVars
  <2>1. ControlState' /\ ManualPauseHolds'
    BY <1>3 DEF Answer, ControlState, ManualPauseHolds, gateVars
  <2>2. SafetyBlockHolds'
    BY <1>3 DEF SafetyBlockHolds, BlockAwaitsCommit, gateVars
  <2> QED BY <1>1, <1>2, <1>3, <2>1, <2>2, QuietStep
<1>4. CASE ~manualPause /\ autoReason' = None /\ GateResume /\ Emit("reply", NoGeneration)
  <2> USE <1>4
  <2>1. GateInv'
    BY StateOnlyGate
  <2>2. ControlState' /\ PersistenceBarrier'
    BY DEF GateResume, Emit, ControlState, PersistenceBarrier
  <2>3. ManualPauseHolds' /\ SafetyBlockHolds' /\ NoEventLeak'
    BY DEF GateResume, ManualPauseHolds, SafetyBlockHolds, BlockAwaitsCommit, NoEventLeak
  <2> QED BY <1>1, <1>2, <2>1, <2>2, <2>3 DEF TypeOK, GateInv
<1> QED BY <1>3, <1>4

\* _handle_stop: the gate closes and the drain begins.
LEMMA HandleStopStep ==
    ASSUME IInv, phase = "idle", HandleStop, dying' \in BOOLEAN PROVE IInv'
<1> USE DEF IInv, HandleStop, preflightVars, history
<1>1. ActorTypeOK'
  <2>1. manualPause' \in BOOLEAN /\ autoReason' \in BlockReasons \cup {None}
    BY DEF TypeOK, ActorTypeOK
  <2>2. (\E b \in BOOLEAN : Answer(b)) \/ Emit("reply", 0) \/ AwaitCommitLock("stop")
    BY DEF NoGeneration
  <2> QED BY <2>1, <2>2, ActorTypes, MaxEpochAssumption DEF LockedTransitions
<1>2. PreflightTypeOK' /\ HistoryTypeOK' /\ WorkTypeOK'
  BY DEF TypeOK, PreflightTypeOK, HistoryTypeOK, WorkTypeOK
<1>3. ManualPauseHolds'
  BY DEF ManualPauseHolds
<1>4. CASE (\E b \in BOOLEAN : Answer(b)) /\ UNCHANGED gateVars
  <2>1. ControlState' /\ SafetyBlockHolds'
    BY <1>4 DEF Answer, ControlState, SafetyBlockHolds, BlockAwaitsCommit, gateVars
  <2> QED BY <1>1, <1>2, <1>3, <1>4, <2>1, QuietStep
<1>5. CASE state = "FAULTED" /\ FinishOff /\ Emit("reply", NoGeneration)
  <2> USE <1>5
  <2>1. GateInv' /\ NoEventLeak' /\ state' = "OFF"
    BY FinishOffGate DEF FinishOff
  <2>2. ControlState' /\ SafetyBlockHolds'
    BY <2>1 DEF Emit, ControlState, SafetyBlockHolds, BlockAwaitsCommit
  <2>3. PersistenceBarrier'
    BY DEF PersistenceBarrier
  <2> QED BY <1>1, <1>2, <1>3, <2>1, <2>2, <2>3 DEF TypeOK, GateInv
<1>6. CASE state \notin {"OFF", "FAULTED"} /\ AwaitCommitLock("stop")
  <2> USE <1>6
  <2>1. UNCHANGED gateVars
    BY DEF AwaitCommitLock
  <2>2. ControlState'
    BY <2>1 DEF AwaitCommitLock, ControlState, LockedTransitions, TypeOK, GateTypeOK, States,
                gateVars
  <2>3. SafetyBlockHolds'
    BY <2>1 DEF SafetyBlockHolds, BlockAwaitsCommit, gateVars
  <2> QED BY <1>1, <1>2, <1>3, <2>1, <2>2, <2>3, QuietStep
<1> QED BY <1>4, <1>5, <1>6

\* The handlers that end in _enter_fault.
LEMMA FaultingSteps ==
    ASSUME IInv,
           \/ StartWithoutConfiguration \/ Fault \/ ActorFails
           \/ EmitFails \/ DrainFails \/ FaultDrainEnds
    PROVE  IInv'
<1> USE DEF IInv, preflightVars, history
<1>1. PreflightTypeOK' /\ HistoryTypeOK' /\ dying' \in BOOLEAN
  BY DEF TypeOK, ActorTypeOK, PreflightTypeOK, HistoryTypeOK, StartWithoutConfiguration,
         Fault, ActorFails, EmitFails, DrainFails, FaultDrainEnds
<1>2. UNCHANGED <<manualPause, autoReason, work>>
  BY DEF StartWithoutConfiguration, Fault, ActorFails, EmitFails, DrainFails, FaultDrainEnds
<1>3. CASE \E d \in BOOLEAN : EnterFault(d)
  <2>1. phase # "lock"
    BY DEF StartWithoutConfiguration, Fault, ActorFails, EmitFails, DrainFails, FaultDrainEnds,
           Ready
  <2> QED BY <1>1, <1>2, <1>3, <2>1, FaultStep
<1>4. CASE state = "FAULTED" /\ UNCHANGED gateVars /\ \E b \in BOOLEAN : Answer(b)
  <2>1. ActorTypeOK'
    BY <1>1, <1>2, <1>4, ActorTypes, MaxEpochAssumption DEF TypeOK, ActorTypeOK
  <2>2. ControlState' /\ ManualPauseHolds' /\ SafetyBlockHolds'
    BY <1>2, <1>4
    DEF Answer, gateVars, ControlState, ManualPauseHolds, SafetyBlockHolds, BlockAwaitsCommit
  <2> QED BY <1>1, <1>2, <1>4, <2>1, <2>2, QuietStep
<1>5. CASE FaultDrainEnds
  BY <1>4, <1>5 DEF FaultDrainEnds, ControlState
<1>6. CASE Fault
  BY <1>3, <1>4, <1>6 DEF Fault
<1>7. CASE StartWithoutConfiguration \/ ActorFails \/ EmitFails \/ DrainFails
  BY <1>3, <1>7 DEF StartWithoutConfiguration, ActorFails, EmitFails, DrainFails
<1> QED BY <1>5, <1>6, <1>7

\* on_stop and the death of the actor.
LEMMA ShutdownSteps == ASSUME IInv, Stop \/ Shutdown \/ Die PROVE IInv'
<1> USE DEF IInv
<1>1. CASE Stop
  BY <1>1, HandleStopStep DEF Stop, Ready, TypeOK, ActorTypeOK
<1>2. CASE Shutdown /\ HandleStop
  BY <1>2, HandleStopStep DEF Shutdown, Ready
<1>3. CASE Shutdown /\ ~HandleStop
  <2>1. UNCHANGED <<gateVars, manualPause, autoReason, phase, then, drainGen, reply,
                    preflightVars, work, history>> /\ dying' = TRUE
    BY <1>3 DEF Shutdown
  <2>2. ActorTypeOK' /\ PreflightTypeOK' /\ HistoryTypeOK'
    BY <2>1 DEF TypeOK, ActorTypeOK, PreflightTypeOK, HistoryTypeOK, preflightVars, history
  <2>3. ControlState' /\ ManualPauseHolds' /\ SafetyBlockHolds'
    BY <2>1 DEF ControlState, ManualPauseHolds, SafetyBlockHolds, BlockAwaitsCommit, gateVars
  <2> QED BY <2>1, <2>2, <2>3, QuietStep
<1>4. CASE Die
  <2>1. ActorTypeOK' /\ PreflightTypeOK' /\ HistoryTypeOK'
    BY <1>4 DEF Die, TypeOK, ActorTypeOK, PreflightTypeOK, HistoryTypeOK, preflightVars, history
  <2>2. ControlState' /\ ManualPauseHolds' /\ SafetyBlockHolds'
    BY <1>4
    DEF Die, ControlState, ManualPauseHolds, SafetyBlockHolds, BlockAwaitsCommit, gateVars
  <2> QED BY <1>4, <2>1, <2>2, QuietStep DEF Die
<1> QED BY <1>1, <1>2, <1>3, <1>4

-----------------------------------------------------------------------------
(* The rest of a handler and the preflight result.                         *)

\* _handle_preflight_complete: verdict of the preflight on its generation.
LEMMA PreflightCompleteStep == ASSUME IInv, PreflightComplete PROVE IInv'
<1> DEFINE m == Head(completions)
           reason == IF m.result \in BlockReasons THEN m.result ELSE autoReason
<1> USE DEF IInv
<1>1. PreflightTypeOK' /\ WorkTypeOK' /\ dying' \in BOOLEAN /\ manualPause' \in BOOLEAN
  BY DEF PreflightComplete, TypeOK, ActorTypeOK, PreflightTypeOK, WorkTypeOK
<1>2. m.gen \in Generations /\ m.result \in PreflightResults
  <2> DEFINE S == [gen : Generations, result : PreflightResults]
  <2>1. completions \in Seq(S) /\ completions # << >>
    BY DEF PreflightComplete, TypeOK, PreflightTypeOK
  <2>2. Head(completions) \in S
    <3> HIDE DEF S, m
    <3> QED BY ONLY <2>1
  <2> QED BY ONLY <2>2
<1>3. HistoryTypeOK'
  BY DEF PreflightComplete, TypeOK, HistoryTypeOK
<1>4. UNCHANGED <<manualPause, work>>
  BY DEF PreflightComplete
<1>5. CASE Answer(FALSE) /\ UNCHANGED <<gateVars, autoReason>>
  <2>1. ActorTypeOK'
    BY <1>1, <1>5, ActorTypes, MaxEpochAssumption DEF TypeOK, ActorTypeOK
  <2>2. ControlState' /\ ManualPauseHolds' /\ SafetyBlockHolds'
    BY <1>4, <1>5 DEF PreflightComplete, Ready, Answer, gateVars, ControlState,
                      ManualPauseHolds, SafetyBlockHolds, BlockAwaitsCommit
  <2> QED BY <1>1, <1>3, <1>4, <1>5, <2>1, <2>2, QuietStep
<1>6. CASE EnterFault(TRUE) /\ UNCHANGED autoReason
  BY <1>1, <1>3, <1>4, <1>6, FaultStep DEF PreflightComplete, Ready
<1>7. CASE /\ reason # None
           /\ state = "STARTING" /\ AwaitCommitLock(reason) /\ UNCHANGED autoReason
  <2> USE <1>7
  <2>1. reason \in BlockReasons
    <3>1. autoReason \in BlockReasons \cup {None}
      BY DEF TypeOK, ActorTypeOK
    <3> QED BY ONLY <1>7, <3>1
  <2>2. UNCHANGED gateVars
    BY DEF AwaitCommitLock
  <2>3. ActorTypeOK'
    BY <1>1, <2>1, ActorTypes, MaxEpochAssumption DEF TypeOK, ActorTypeOK, LockedTransitions
  <2>4. ControlState'
    BY <2>1, <2>2 DEF AwaitCommitLock, ControlState, BlockReasons, LockedTransitions, gateVars
  <2>5. ManualPauseHolds' /\ SafetyBlockHolds'
    BY <1>4, <2>2 DEF ManualPauseHolds, SafetyBlockHolds, BlockAwaitsCommit, gateVars
  <2> QED BY <1>1, <1>3, <1>4, <2>2, <2>3, <2>4, <2>5, QuietStep
<1>8. CASE /\ reason = None
           /\ MarkRecording(m.gen) /\ Emit("reply", NoGeneration) /\ UNCHANGED autoReason
  <2> USE <1>8
  <2>1. GateInv'
    BY <1>2, StateOnlyGate
  <2>2. ActorTypeOK'
    <3>1. Emit("reply", 0)
      BY DEF NoGeneration
    <3>2. autoReason' \in BlockReasons \cup {None}
      BY DEF TypeOK, ActorTypeOK
    <3> QED BY <1>1, <3>1, <3>2, ActorTypes, MaxEpochAssumption
  <2>3. autoReason = None
    BY DEF None, BlockReasons
  <2>4. ControlState' /\ PersistenceBarrier'
    BY <1>4 DEF MarkRecording, Emit, ControlState, PersistenceBarrier
  <2>5. ManualPauseHolds' /\ SafetyBlockHolds' /\ NoEventLeak'
    BY <1>4, <2>3
    DEF MarkRecording, ManualPauseHolds, SafetyBlockHolds, BlockAwaitsCommit, NoEventLeak
  <2> QED BY <1>1, <1>3, <2>1, <2>2, <2>4, <2>5 DEF TypeOK, GateInv
<1> QED BY <1>5, <1>6, <1>7, <1>8 DEF PreflightComplete

\* The commit lock is taken: the gate pauses, stops or faults under it.
LEMMA LockTakenStep == ASSUME IInv, LockTaken PROVE IInv'
<1> USE DEF IInv, LockTaken, preflightVars, history
<1>1. PreflightTypeOK' /\ HistoryTypeOK' /\ WorkTypeOK'
  BY DEF TypeOK, PreflightTypeOK, HistoryTypeOK, WorkTypeOK
<1>2. manualPause' = manualPause /\ manualPause' \in BOOLEAN /\ dying' \in BOOLEAN
  BY DEF TypeOK, ActorTypeOK
<1>3. PersistenceBarrier'
  BY DEF InvalidateAndPause, BeginStopping, GateFault, CommitLockFree, PersistenceBarrier
<1>4. active \in 0..MaxEpoch /\ draining \in 0..MaxEpoch
  BY DEF TypeOK, GateTypeOK
<1>5. CASE then \in BlockReasons /\ InvalidateAndPause /\ Emit("pausing", active)
           /\ autoReason' = then
  <2> USE <1>5
  <2>1. GateInv' /\ state' = "PAUSED"
    BY InvalidateGate DEF InvalidateAndPause, InvalidateAndPauseUnlocked
  <2>2. active \in Generations
    BY <1>4 DEF GateInv, ActiveAdmitsWork, InvalidateAndPause, InvalidateAndPauseUnlocked,
                Generations, NoGeneration
  <2>3. ActorTypeOK'
    BY <1>2, <1>4, ActorTypes, MaxEpochAssumption
  <2>4. ControlState'
    BY <2>1, <2>2 DEF Emit, ControlState
  <2>5. ManualPauseHolds' /\ SafetyBlockHolds' /\ NoEventLeak'
    BY <2>1 DEF ManualPauseHolds, SafetyBlockHolds, BlockAwaitsCommit, NoEventLeak
  <2> QED BY <1>1, <1>3, <2>1, <2>3, <2>4, <2>5 DEF TypeOK, GateInv
<1>6. CASE then = "stop" /\ BeginStopping /\ Emit("stopping", active) /\ UNCHANGED autoReason
  <2> USE <1>6
  <2>1. GateInv' /\ state' = "STOPPING"
    BY CloseGate DEF BeginStopping, BeginStoppingUnlocked
  <2>2. state \in {"STARTING", "RECORDING", "PAUSED"}
    BY DEF ControlState, FaultTransitions
  <2>3. active \in Generations
    BY <1>4, <2>2 DEF GateInv, ActiveAdmitsWork, Generations, NoGeneration
  <2>4. ActorTypeOK'
    BY <1>2, <1>4, ActorTypes, MaxEpochAssumption DEF TypeOK, ActorTypeOK
  <2>5. ControlState'
    BY <2>1, <2>3 DEF Emit, ControlState
  <2>6. ~manualPause
    BY DEF ControlState
  <2>7. ManualPauseHolds' /\ SafetyBlockHolds' /\ NoEventLeak'
    BY <1>2, <2>1, <2>6 DEF ManualPauseHolds, SafetyBlockHolds, BlockAwaitsCommit, NoEventLeak
  <2> QED BY <1>1, <1>3, <2>1, <2>4, <2>5, <2>7 DEF TypeOK, GateInv
<1>7. CASE then \in FaultTransitions /\ GateFault /\ UNCHANGED autoReason
  <2> USE <1>7
  <2>1. GateInv' /\ state' = "FAULTED"
    BY CloseGate DEF GateFault
  <2>2. \/ Answer(FALSE)
        \/ /\ phase' = "drain" /\ then' = "faulted" /\ reply' = None
           /\ drainGen' = IF active # NoGeneration THEN active ELSE draining
    BY DEF FaultTransitions, BlockReasons
  <2>3. ActorTypeOK'
    <3>1. CASE Answer(FALSE)
      BY <1>2, <3>1, ActorTypes, MaxEpochAssumption DEF TypeOK, ActorTypeOK
    <3>2. CASE ~Answer(FALSE)
      BY <1>2, <1>4, <2>2, <3>2 DEF TypeOK, ActorTypeOK
    <3> QED BY <3>1, <3>2
  <2>4. ControlState'
    BY <2>1, <2>2 DEF Answer, ControlState
  <2>5. ManualPauseHolds' /\ SafetyBlockHolds' /\ NoEventLeak'
    BY <2>1 DEF ManualPauseHolds, SafetyBlockHolds, BlockAwaitsCommit, NoEventLeak
  <2> QED BY <1>1, <1>3, <2>1, <2>3, <2>4, <2>5 DEF TypeOK, GateInv
<1> QED BY <1>5, <1>6, <1>7 DEF FaultTransitions

\* _emit_transition ends and the handler goes on.
LEMMA EmitSucceedsStep == ASSUME IInv, EmitSucceeds PROVE IInv'
<1> USE DEF IInv, EmitSucceeds, history
<1>1. ActorTypeOK'
  <2>1. CASE Answer(TRUE)
    BY <2>1, ActorTypes, MaxEpochAssumption DEF TypeOK, ActorTypeOK
  <2>2. CASE phase' = "drain" /\ UNCHANGED <<then, drainGen, reply>>
    BY <2>2 DEF TypeOK, ActorTypeOK
  <2> QED BY <2>1, <2>2
<1>2. PreflightTypeOK'
  <2>1. then = "starting" => active \in Generations
    BY DEF ControlState, GateInv, GateTypeOK, ActiveAdmitsWork, Generations, NoGeneration
  <2>2. pfQueue \in Seq(Generations)
    BY DEF TypeOK, PreflightTypeOK
  <2>3. pfQueue' = pfQueue \/ (then = "starting" /\ pfQueue' = Append(pfQueue, active))
    OBVIOUS
  <2>4. pfQueue' \in Seq(Generations)
    BY ONLY <2>1, <2>2, <2>3
  <2> QED BY <2>4 DEF TypeOK, PreflightTypeOK
<1>3. HistoryTypeOK'
  BY DEF TypeOK, HistoryTypeOK
<1>4. ControlState' /\ ManualPauseHolds' /\ SafetyBlockHolds'
  BY DEF Answer, gateVars, ControlState, ManualPauseHolds, SafetyBlockHolds, BlockAwaitsCommit
<1> QED BY <1>1, <1>2, <1>3, <1>4, QuietStep

\* _drain_generation ends in time: buffers are cleared and the gate is off.
LEMMA DrainSucceedsStep == ASSUME IInv, DrainSucceeds PROVE IInv'
<1> USE DEF IInv, DrainSucceeds, preflightVars, history
<1>1. PreflightTypeOK' /\ HistoryTypeOK' /\ WorkTypeOK'
  BY DEF TypeOK, PreflightTypeOK, HistoryTypeOK, WorkTypeOK
<1>2. ActorTypeOK'
  <2>1. (\E b \in BOOLEAN : Answer(b)) \/ Emit("reply", 0)
    BY DEF NoGeneration
  <2>2. manualPause' \in BOOLEAN /\ dying' \in BOOLEAN /\ autoReason' \in BlockReasons \cup {None}
    BY DEF TypeOK, ActorTypeOK
  <2> QED BY <2>1, <2>2, ActorTypes, MaxEpochAssumption
<1>3. CASE then = "pausing" /\ Answer(TRUE) /\ UNCHANGED gateVars
  <2>1. ControlState' /\ ManualPauseHolds' /\ SafetyBlockHolds'
    BY <1>3
    DEF Answer, gateVars, ControlState, ManualPauseHolds, SafetyBlockHolds, BlockAwaitsCommit
  <2> QED BY <1>1, <1>2, <1>3, <2>1, QuietStep
<1>4. CASE then = "stopping" /\ FinishOff /\ Emit("reply", NoGeneration)
  <2> USE <1>4
  <2>1. state = "STOPPING"
    BY DEF ControlState
  <2>2. GateInv' /\ NoEventLeak' /\ state' = "OFF"
    BY <2>1, FinishOffGate DEF FinishOff
  <2>3. ControlState' /\ SafetyBlockHolds' /\ PersistenceBarrier'
    BY <2>1, <2>2
    DEF Emit, ControlState, SafetyBlockHolds, BlockAwaitsCommit, PersistenceBarrier
  <2>4. ManualPauseHolds'
    BY <2>1 DEF ManualPauseHolds
  <2> QED BY <1>1, <1>2, <2>2, <2>3, <2>4 DEF TypeOK, GateInv
<1> QED BY <1>3, <1>4

-----------------------------------------------------------------------------
(* The preflight actor and the workers.                                    *)

\* What such a step leaves alone of the gate and of the actor is enough for
\* the parts of the invariant that speak of them.
LEMMA OperationStep ==
    ASSUME IInv, UNCHANGED <<state, active, cancelled, actorVars>>,
           GateInv', PreflightTypeOK', WorkTypeOK', HistoryTypeOK',
           PersistenceBarrier', NoEventLeak'
    PROVE  IInv'
<1> USE DEF IInv, actorVars
<1>1. ActorTypeOK'
  BY DEF TypeOK, ActorTypeOK
<1>2. ControlState' /\ ManualPauseHolds' /\ SafetyBlockHolds'
  BY DEF ControlState, ManualPauseHolds, SafetyBlockHolds, BlockAwaitsCommit
<1> QED BY <1>1, <1>2 DEF TypeOK, GateInv

\* The preflight actor enters run_preflight.
LEMMA PreflightBeginStep == ASSUME IInv, PreflightBegin PROVE IInv'
<1> DEFINE g == Head(pfQueue)
<1> USE DEF IInv, PreflightBegin, history
<1>1. g \in Generations
  BY DEF TypeOK, PreflightTypeOK
<1>2. PreflightTypeOK'
  BY <1>1 DEF TypeOK, PreflightTypeOK, Generations
<1>3. WorkTypeOK' /\ HistoryTypeOK' /\ PersistenceBarrier'
  BY DEF TypeOK, WorkTypeOK, HistoryTypeOK, PersistenceBarrier
<1>4. CASE PreflightPermitted(g) /\ Register(g)
  <2>1. active \in Generations /\ Register(active)
    BY <1>1, <1>4 DEF PreflightPermitted
  <2>2. GateInv'
    BY <2>1, RegisterGate
  <2>3. NoEventLeak'
    BY <1>4 DEF PreflightPermitted, NoEventLeak
  <2> QED BY <1>2, <1>3, <2>2, <2>3, OperationStep
<1>5. CASE UNCHANGED inFlight
  <2>1. GateTypeOK'
    BY <1>5 DEF GateInv, GateTypeOK
  <2>2. ActiveAdmitsWork' /\ EventsCancelled' /\ StaleWorkCancelled' /\ NoEventLeak'
    BY <1>5 DEF GateInv, ActiveAdmitsWork, EventsCancelled, StaleWorkCancelled, NoEventLeak
  <2> QED BY <1>2, <1>3, <2>1, <2>2, OperationStep DEF GateInv
<1> QED BY <1>4, <1>5

\* The preflight actor leaves run_preflight and reports.
LEMMA PreflightEndStep ==
    ASSUME IInv, NEW r \in PreflightResults, PreflightEnd(r) PROVE IInv'
<1> USE DEF IInv, PreflightEnd, history
<1>1. pfRunning \in Generations
  BY DEF TypeOK, PreflightTypeOK, Generations, NoGeneration
<1>2. PreflightTypeOK'
  <2> DEFINE S == [gen : Generations, result : PreflightResults]
             m == [gen |-> pfRunning, result |-> r]
  <2>1. completions \in Seq(S) /\ m \in S
    BY <1>1 DEF TypeOK, PreflightTypeOK
  <2>2. completions' = completions \/ completions' = Append(completions, m)
    OBVIOUS
  <2> HIDE DEF S, m
  <2>3. completions' \in Seq(S)
    BY <2>1, <2>2
  <2> QED BY <2>3, MaxEpochAssumption DEF S, TypeOK, PreflightTypeOK, NoGeneration
<1>3. WorkTypeOK' /\ HistoryTypeOK' /\ PersistenceBarrier'
  BY DEF TypeOK, WorkTypeOK, HistoryTypeOK, PersistenceBarrier
<1>4. GateInv' /\ NoEventLeak'
  BY <1>1, ReleaseGate
<1> QED BY <1>2, <1>3, <1>4, OperationStep

\* Every step of a worker inside run_capture or run_persistence.
LEMMA WorkerSteps == ASSUME IInv, NEW w \in Workers, WorkerStep(w) PROVE IInv'
<1> USE DEF IInv, preflightVars, history
<1>1. CASE CaptureBegin(w)
  <2> USE <1>1 DEF CaptureBegin
  <2>1. active \in Generations
    BY DEF GateInv, GateTypeOK, Generations, NoGeneration
  <2>2. GateInv'
    BY <2>1, RegisterGate
  <2>3. WorkTypeOK'
    BY <2>1 DEF TypeOK, WorkTypeOK
  <2>4. PreflightTypeOK' /\ HistoryTypeOK' /\ NoEventLeak'
    BY DEF TypeOK, PreflightTypeOK, HistoryTypeOK, NoEventLeak
  <2>5. PersistenceBarrier'
    BY DEF TypeOK, WorkTypeOK, PersistenceBarrier
  <2> QED BY <2>2, <2>3, <2>4, <2>5, OperationStep
<1>2. CASE CaptureEnd(w)
  <2> USE <1>2 DEF CaptureEnd
  <2>1. work[w].gen \in Generations
    BY DEF TypeOK, WorkTypeOK
  <2>2. GateInv' /\ NoEventLeak'
    BY <2>1, ReleaseGate
  <2>3. WorkTypeOK'
    BY <2>1 DEF TypeOK, WorkTypeOK
  <2>4. PreflightTypeOK' /\ HistoryTypeOK'
    BY DEF TypeOK, PreflightTypeOK, HistoryTypeOK
  <2>5. PersistenceBarrier'
    BY DEF TypeOK, WorkTypeOK, PersistenceBarrier
  <2> QED BY <2>2, <2>3, <2>4, <2>5, OperationStep
<1>3. CASE Discard(w)
  <2> USE <1>3 DEF Discard
  <2>1. GateInv' /\ NoEventLeak'
    BY DEF gateVars, GateInv, GateTypeOK, ActiveAdmitsWork, EventsCancelled,
           StaleWorkCancelled, NoEventLeak
  <2>2. WorkTypeOK'
    BY DEF TypeOK, WorkTypeOK
  <2>3. PreflightTypeOK' /\ HistoryTypeOK'
    BY DEF TypeOK, PreflightTypeOK, HistoryTypeOK
  <2>4. PersistenceBarrier'
    BY DEF TypeOK, WorkTypeOK, PersistenceBarrier, gateVars
  <2> QED BY <2>1, <2>2, <2>3, <2>4, OperationStep DEF gateVars
<1>4. CASE PersistBegin(w)
  <2> USE <1>4 DEF PersistBegin
  <2>1. active \in Generations /\ Register(active)
    BY DEF TypeOK, WorkTypeOK
  <2>2. GateInv'
    BY <2>1, RegisterGate
  <2>3. WorkTypeOK'
    BY <2>1 DEF TypeOK, WorkTypeOK
  <2>4. PreflightTypeOK' /\ HistoryTypeOK' /\ NoEventLeak'
    BY DEF TypeOK, PreflightTypeOK, HistoryTypeOK, NoEventLeak
  <2>5. PersistenceBarrier'
    BY DEF TypeOK, WorkTypeOK, PersistenceBarrier, Register
  <2> QED BY <2>2, <2>3, <2>4, <2>5, OperationStep
<1>5. CASE PersistEnd(w)
  <2> USE <1>5 DEF PersistEnd
  <2>1. work[w].gen \in Generations
    BY DEF TypeOK, WorkTypeOK
  <2>2. GateInv' /\ NoEventLeak'
    BY <2>1, ReleaseGate
  <2>3. WorkTypeOK'
    BY DEF TypeOK, WorkTypeOK
  <2>4. PreflightTypeOK' /\ HistoryTypeOK'
    BY <2>1 DEF TypeOK, PreflightTypeOK, HistoryTypeOK, Generations
  <2>5. PersistenceBarrier'
    BY DEF TypeOK, WorkTypeOK, PersistenceBarrier
  <2> QED BY <2>2, <2>3, <2>4, <2>5, OperationStep
<1> QED BY <1>1, <1>2, <1>3, <1>4, <1>5 DEF WorkerStep, WorkerEnds

-----------------------------------------------------------------------------
(* The invariant.                                                          *)

\* The inductive invariant holds when the actor starts.
LEMMA IInvInit == Init => IInv
<1> SUFFICES ASSUME Init PROVE IInv
  OBVIOUS
<1> USE MaxEpochAssumption
    DEF Init, IInv, TypeOK, NoGeneration, None, Generations
<1>1. GateTypeOK
  BY DEF GateTypeOK, States
<1>2. ActorTypeOK /\ HistoryTypeOK
  <2>1. manualPause \in BOOLEAN /\ dying \in BOOLEAN /\ verified \in BOOLEAN
    BY Zenon
  <2>2. drainGen \in 0..MaxEpoch /\ lastCommit \in 0..MaxEpoch
    OBVIOUS
  <2> QED BY <2>1, <2>2 DEF ActorTypeOK, HistoryTypeOK
<1>3. PreflightTypeOK
  BY DEF PreflightTypeOK
<1>4. WorkTypeOK
  BY DEF WorkTypeOK
<1>5. GateInv
  BY <1>1 DEF GateInv, ActiveAdmitsWork, EventsCancelled, StaleWorkCancelled
<1>6. ControlState /\ PersistenceBarrier
  BY DEF ControlState, PersistenceBarrier
<1>7. ManualPauseHolds /\ SafetyBlockHolds /\ NoEventLeak
  BY DEF ManualPauseHolds, SafetyBlockHolds, BlockAwaitsCommit, NoEventLeak
<1> QED BY <1>1, <1>2, <1>3, <1>4, <1>5, <1>6, <1>7

\* The inductive invariant depends on vars only.
LEMMA IInvStutter == ASSUME IInv, UNCHANGED vars PROVE IInv'
<1> USE DEF IInv, vars, actorVars, preflightVars, history
<1>1. ActorTypeOK' /\ PreflightTypeOK' /\ HistoryTypeOK'
  BY DEF TypeOK, ActorTypeOK, PreflightTypeOK, HistoryTypeOK
<1>2. ControlState' /\ ManualPauseHolds' /\ SafetyBlockHolds'
  BY DEF ControlState, ManualPauseHolds, SafetyBlockHolds, BlockAwaitsCommit, gateVars
<1> QED BY <1>1, <1>2, QuietStep

\* One step per action: the invariant is inductive.
LEMMA IInvNext == IInv /\ [Next]_vars => IInv'
<1> SUFFICES ASSUME IInv, [Next]_vars PROVE IInv'
  OBVIOUS
<1>1. CASE Command
  <2>1. CASE Stop \/ Shutdown
    BY <2>1, ShutdownSteps
  <2>2. CASE StartWithoutConfiguration \/ Fault \/ ActorFails
    BY <2>2, FaultingSteps
  <2>3. CASE StartRefused \/ \E rev \in Revisions : Start(rev)
    BY <2>3, StartRefusedStep, StartStep
  <2>4. CASE Pause \/ Resume
    BY <2>4, PauseStep, ResumeStep
  <2>5. CASE \E reason \in BlockReasons : Block(reason)
    BY <2>5, BlockStep
  <2>6. CASE \E reason \in ReleaseReasons : Unblock(reason)
    BY <2>6, UnblockStep
  <2> QED BY <1>1, <2>1, <2>2, <2>3, <2>4, <2>5, <2>6 DEF Command
<1>2. CASE ActorStep
  <2>1. CASE PreflightComplete
    BY <2>1, PreflightCompleteStep
  <2>2. CASE EmitSucceeds \/ LockTaken
    BY <2>2, EmitSucceedsStep, LockTakenStep
  <2>3. CASE DrainSucceeds
    BY <2>3, DrainSucceedsStep
  <2>4. CASE EmitFails \/ DrainFails \/ FaultDrainEnds
    BY <2>4, FaultingSteps
  <2>5. CASE Die
    BY <2>5, ShutdownSteps
  <2> QED BY <1>2, <2>1, <2>2, <2>3, <2>4, <2>5 DEF ActorStep
<1>3. CASE PreflightStep
  BY <1>3, PreflightBeginStep, PreflightEndStep DEF PreflightStep
<1>4. CASE \E w \in Workers : WorkerStep(w)
  BY <1>4, WorkerSteps
<1>5. CASE UNCHANGED vars
  BY <1>5, IInvStutter
<1> QED BY <1>1, <1>2, <1>3, <1>4, <1>5 DEF Next, Terminated

\* The inductive invariant holds in every reachable state, for every set of workers,
\* every set of revisions and every bound on the epochs.
THEOREM Invariance == Spec => []IInv
BY IInvInit, IInvNext, PTL DEF Spec

\* The gate, both actors and the workers stay within their types: PRIVACY is
\* never entered and only issued generations reach the preflight actor.
THEOREM TypeCorrect == Spec => []TypeOK
<1>1. IInv => TypeOK
  BY DEF IInv
<1> QED BY <1>1, Invariance, PTL

\* No stop, fault or safety block comes between the final generation check of
\* run_persistence and its commit.
THEOREM CommitsBehindBarrier == Spec => []PersistenceBarrier
<1>1. IInv => PersistenceBarrier
  BY DEF IInv
<1> QED BY <1>1, Invariance, PTL

\* Every operation of an invalidated generation has been told to stop.
THEOREM InvalidationReachesWork == Spec => []StaleWorkCancelled
<1>1. IInv => StaleWorkCancelled
  BY DEF IInv, GateInv
<1> QED BY <1>1, Invariance, PTL

\* The active generation is the newest one and always admits work, and an off
\* gate keeps no cancel event without an operation that needs it.
THEOREM EventsFollow == Spec => []EventsSound
<1>1. IInv => EventsSound
  BY DEF IInv, GateInv, EventsSound
<1> QED BY <1>1, Invariance, PTL

\* Neither a user's pause nor a session-safety block is overridden.
THEOREM PausesHold == Spec => []BlocksHold
<1>1. IInv => BlocksHold
  BY DEF IInv, BlocksHold
<1> QED BY <1>1, Invariance, PTL

-----------------------------------------------------------------------------
(* Transitions, and the gate as a generation fence.                        *)

\* What a step of the whole system does to the gate's state and generations.
GateStep ==
    \/ UNCHANGED <<state, active, epoch>>
    \/ \E rev \in Revisions : BeginStart(rev)
    \/ \E g \in Generations : MarkRecording(g)
    \/ GatePause
    \/ GateResume
    \/ InvalidateAndPause
    \/ state \in {"STARTING", "RECORDING", "PAUSED"} /\ BeginStopping
    \/ state # "FAULTED" /\ GateFault
    \/ state \in {"STOPPING", "FAULTED"} /\ FinishOff

\* What any step of the system may do to the gate: the common ground of the two
\* action properties below.
LEMMA EveryStepIsGateStep == ASSUME IInv, [Next]_vars PROVE GateStep
<1>1. CASE Command
  <2>1. CASE StartRefused \/ \E rev \in Revisions : Start(rev)
    BY <2>1 DEF StartRefused, Start, GateStep, gateVars
  <2>2. CASE StartWithoutConfiguration \/ Fault \/ ActorFails
    BY <2>2 DEF StartWithoutConfiguration, Fault, ActorFails, EnterFault, AwaitCommitLock,
                GateStep, gateVars
  <2>3. CASE Pause \/ Resume
    BY <2>3 DEF Pause, Resume, GateStep, gateVars
  <2>4. CASE \E reason \in BlockReasons : Block(reason)
    BY <2>4 DEF Block, AwaitCommitLock, GateStep, gateVars
  <2>5. CASE \E reason \in ReleaseReasons : Unblock(reason)
    BY <2>5 DEF Unblock, GateStep, gateVars
  <2>6. CASE Stop \/ Shutdown
    <3>1. CASE HandleStop
      BY <3>1 DEF HandleStop, AwaitCommitLock, GateStep, gateVars
    <3>2. CASE ~HandleStop
      BY <2>6, <3>2 DEF Stop, Shutdown, GateStep, gateVars
    <3> QED BY <3>1, <3>2
  <2> QED BY <1>1, <2>1, <2>2, <2>3, <2>4, <2>5, <2>6 DEF Command
<1>2. CASE ActorStep
  <2>1. CASE PreflightComplete
    <3> DEFINE S == [gen : Generations, result : PreflightResults]
    <3>1. completions \in Seq(S) /\ completions # << >>
      BY <2>1 DEF PreflightComplete, IInv, TypeOK, PreflightTypeOK
    <3>2. Head(completions) \in S
      <4> HIDE DEF S
      <4> QED BY ONLY <3>1
    <3>3. Head(completions).gen \in Generations
      BY ONLY <3>2
    <3> QED BY <2>1, <3>3 DEF PreflightComplete, EnterFault, AwaitCommitLock, GateStep, gateVars
  <2>2. CASE EmitSucceeds \/ Die \/ FaultDrainEnds
    BY <2>2 DEF EmitSucceeds, Die, FaultDrainEnds, GateStep, gateVars
  <2>3. CASE EmitFails \/ DrainFails
    BY <2>3 DEF EmitFails, DrainFails, EnterFault, AwaitCommitLock, GateStep, gateVars
  <2>4. CASE DrainSucceeds
    BY <2>4 DEF DrainSucceeds, IInv, ControlState, GateStep, gateVars
  <2>5. CASE LockTaken
    BY <2>5 DEF LockTaken, IInv, ControlState, FaultTransitions, GateStep
  <2> QED BY <1>2, <2>1, <2>2, <2>3, <2>4, <2>5 DEF ActorStep
<1>3. CASE PreflightStep
  BY <1>3 DEF PreflightStep, PreflightBegin, PreflightEnd, GateStep
<1>4. CASE \E w \in Workers : WorkerStep(w)
  BY <1>4 DEF WorkerStep, WorkerEnds, CaptureBegin, CaptureEnd, Discard, PersistBegin,
              PersistEnd, GateStep, gateVars
<1>5. CASE UNCHANGED vars
  BY <1>5 DEF vars, gateVars, GateStep
<1> QED BY <1>1, <1>2, <1>3, <1>4, <1>5 DEF Next, Terminated

\* A commit changes nothing else that the fence sees, and belongs to a worker
\* that is inside run_persistence.
LEMMA CommitsByPersistEnd ==
    ASSUME IInv, [Next]_vars, lastCommit' # lastCommit
    PROVE  /\ UNCHANGED <<state, active, epoch>>
           /\ \E w \in Workers : work[w].at = "persisting" /\ lastCommit' = work[w].gen
<1>1. ~Command
  BY DEF Command, StartRefused, Start, StartWithoutConfiguration, Fault, ActorFails, Pause,
         Resume, Block, Unblock, Stop, Shutdown, HandleStop, history
<1>2. ~ActorStep
  BY DEF ActorStep, PreflightComplete, LockTaken, EmitSucceeds, Die, FaultDrainEnds, EmitFails,
         DrainFails, DrainSucceeds, history
<1>3. ~PreflightStep /\ ~UNCHANGED vars
  BY DEF PreflightStep, PreflightBegin, PreflightEnd, history, vars
<1>4. PICK w \in Workers : WorkerStep(w)
  BY <1>1, <1>2, <1>3 DEF Next, Terminated
<1>5. PersistEnd(w)
  BY <1>4 DEF WorkerStep, WorkerEnds, CaptureBegin, CaptureEnd, Discard, PersistBegin, history
<1> QED BY <1>5 DEF PersistEnd

\* Every transition of the gate is in _ALLOWED_TRANSITIONS.
THEOREM TransitionsLegal == Spec => LegalTransitions
<1>1. ASSUME IInv, [Next]_vars
      PROVE  (state' # state \/ epoch' # epoch) => state' \in AllowedTransitions[state]
  <2>1. GateStep
    BY <1>1, EveryStepIsGateStep
  <2>2. state \in States
    BY <1>1 DEF IInv, TypeOK, GateTypeOK
  <2>3. CASE UNCHANGED <<state, active, epoch>>
    BY <2>3
  <2>4. CASE ~UNCHANGED <<state, active, epoch>>
    BY <2>1, <2>2, <2>4
    DEF GateStep, BeginStart, MarkRecording, GatePause, GateResume, InvalidateAndPause,
        InvalidateAndPauseUnlocked, BeginStopping, BeginStoppingUnlocked, GateFault,
        FinishOff, AllowedTransitions, States
  <2> QED BY <2>3, <2>4
<1> QED BY <1>1, Invariance, PTL DEF Spec, LegalTransitions

\* The gate implements the generation fence: every commit carries the open
\* generation, and generations only advance.
THEOREM GateIsFence == Spec => RefinesFence
<1> DEFINE Live == IF state \in {"RECORDING", "PAUSED"} THEN active ELSE NoGeneration
<1>1. Init => Fence!Init
  BY DEF Init, Fence!Init, NoGeneration
<1>2. ASSUME IInv, [Next]_vars
      PROVE  [Fence!Next]_<<Live, epoch, lastCommit>>
  <2>1. GateStep
    BY <1>2, EveryStepIsGateStep
  <2>2. /\ active # NoGeneration <=> state \in {"STARTING", "RECORDING", "PAUSED"}
        /\ active # NoGeneration => active = epoch
        /\ active \in 0..MaxEpoch /\ epoch \in 0..MaxEpoch
    BY <1>2 DEF IInv, GateInv, GateTypeOK, ActiveAdmitsWork
  <2>3. CASE lastCommit' # lastCommit
    <3>1. /\ UNCHANGED <<state, active, epoch>>
          /\ \E w \in Workers : work[w].at = "persisting" /\ lastCommit' = work[w].gen
      BY <1>2, <2>3, CommitsByPersistEnd
    <3>2. lastCommit' = active /\ state \in {"RECORDING", "PAUSED"}
      BY <1>2, <3>1 DEF IInv, PersistenceBarrier
    <3> QED BY <2>2, <3>1, <3>2 DEF Fence!Next, Fence!Commit, NoGeneration
  <2>4. CASE UNCHANGED lastCommit
    <3>1. CASE UNCHANGED <<state, active, epoch>>
      BY <2>4, <3>1
    <3>2. CASE \E rev \in Revisions : BeginStart(rev)
      BY <2>2, <2>4, <3>2 DEF BeginStart, Fence!Next, Fence!Advance, NoGeneration
    <3>3. CASE \E g \in Generations : MarkRecording(g)
      BY <2>2, <2>4, <3>3 DEF MarkRecording, Fence!Next, Fence!Open, NoGeneration
    <3>4. CASE GatePause \/ GateResume
      BY <2>2, <2>4, <3>4 DEF GatePause, GateResume
    <3>5. CASE InvalidateAndPause
      BY <2>2, <2>4, <3>5 DEF InvalidateAndPause, InvalidateAndPauseUnlocked,
                              Fence!Next, Fence!Advance, NoGeneration
    <3>6. CASE BeginStopping
      BY <2>2, <2>4, <3>6 DEF BeginStopping, BeginStoppingUnlocked,
                              Fence!Next, Fence!Advance, NoGeneration
    <3>7. CASE GateFault
      BY <2>2, <2>4, <3>7 DEF GateFault, Fence!Next, Fence!Advance, NoGeneration
    <3>8. CASE state \in {"STOPPING", "FAULTED"} /\ FinishOff
      BY <2>2, <2>4, <3>8 DEF FinishOff
    <3> QED BY <2>1, <3>1, <3>2, <3>3, <3>4, <3>5, <3>6, <3>7, <3>8 DEF GateStep
  <2> QED BY <2>3, <2>4
<1> QED BY <1>1, <1>2, Invariance, PTL DEF Spec, RefinesFence, Fence!Spec

-----------------------------------------------------------------------------
(* Counting the operations inside the gate.                                *)

\* The operations of a generation are finitely many.
LEMMA RegisteredFinite ==
    ASSUME NEW g PROVE IsFiniteSet(Registered(g)) /\ Cardinality(Registered(g)) \in Nat
<1>1. Registered(g) \subseteq Workers
  BY DEF Registered
<1>2. IsFiniteSet(Registered(g))
  BY <1>1, WorkersAssumption, FS_Subset
<1> QED BY <1>2, FS_CardinalityType

\* A worker enters the gate with generation h.
LEMMA EnterCounts ==
    ASSUME TypeOK, InFlightExact, NEW w \in Workers, NEW h \in Generations,
           NEW a \in {"capturing", "persisting"},
           work[w].at \notin {"capturing", "persisting"},
           inFlight' = [inFlight EXCEPT ![h] = @ + 1],
           work' = [work EXCEPT ![w] = [at |-> a, gen |-> h]],
           UNCHANGED pfRunning
    PROVE  InFlightExact'
<1> SUFFICES ASSUME NEW g \in Generations
             PROVE  inFlight'[g] = Cardinality(Registered(g)')
                                     + (IF pfRunning = g THEN 1 ELSE 0)
  BY DEF InFlightExact
<1>1. inFlight[g] = Cardinality(Registered(g)) + (IF pfRunning = g THEN 1 ELSE 0)
  BY DEF InFlightExact
<1>2. IsFiniteSet(Registered(g)) /\ Cardinality(Registered(g)) \in Nat
  BY RegisteredFinite
<1>3. CASE g = h
  <2>1. w \notin Registered(g) /\ Registered(g)' = Registered(g) \cup {w}
    BY <1>3 DEF TypeOK, WorkTypeOK, Registered
  <2>2. Cardinality(Registered(g)') = Cardinality(Registered(g)) + 1
    BY <1>2, <2>1, FS_AddElement
  <2> QED BY <1>1, <1>2, <1>3, <2>2 DEF TypeOK, GateTypeOK
<1>4. CASE g # h
  <2>1. Registered(g)' = Registered(g)
    BY <1>4 DEF TypeOK, WorkTypeOK, Registered
  <2> QED BY <1>1, <1>4, <2>1 DEF TypeOK, GateTypeOK
<1> QED BY <1>3, <1>4

\* A worker that is inside the gate leaves it.
LEMMA LeaveCounts ==
    ASSUME TypeOK, InFlightExact, NEW w \in Workers,
           work[w].at \in {"capturing", "persisting"},
           Release(work[w].gen),
           work'[w].at \notin {"capturing", "persisting"},
           work' = [work EXCEPT ![w] = work'[w]],
           UNCHANGED pfRunning
    PROVE  InFlightExact'
<1> DEFINE h == work[w].gen
<1> SUFFICES ASSUME NEW g \in Generations
             PROVE  inFlight'[g] = Cardinality(Registered(g)')
                                     + (IF pfRunning = g THEN 1 ELSE 0)
  BY DEF InFlightExact
<1>1. inFlight[g] = Cardinality(Registered(g)) + (IF pfRunning = g THEN 1 ELSE 0)
  BY DEF InFlightExact
<1>2. IsFiniteSet(Registered(g)) /\ Cardinality(Registered(g)) \in Nat
  BY RegisteredFinite
<1>3. CASE g = h
  <2>1. w \in Registered(g) /\ Registered(g)' = Registered(g) \ {w}
    BY <1>3 DEF TypeOK, WorkTypeOK, Registered
  <2>2. Cardinality(Registered(g)') = Cardinality(Registered(g)) - 1
    BY <1>2, <2>1, FS_RemoveElement
  <2>3. Cardinality(Registered(g)) # 0
    BY <1>2, <2>1, FS_EmptySet
  <2>4. inFlight'[g] = inFlight[g] - 1
    BY <1>1, <1>2, <1>3, <2>3 DEF Release, TypeOK, GateTypeOK
  <2> QED BY <1>1, <1>2, <2>2, <2>4
<1>4. CASE g # h
  <2>1. Registered(g)' = Registered(g)
    BY <1>4 DEF TypeOK, WorkTypeOK, Registered
  <2>2. inFlight'[g] = inFlight[g]
    BY <1>4 DEF Release, TypeOK, GateTypeOK
  <2> QED BY <1>1, <2>1, <2>2
<1> QED BY <1>3, <1>4

\* Steps that do not touch the count leave the counted operations alone.
LEMMA SameCounts ==
    ASSUME InFlightExact, UNCHANGED <<inFlight, pfRunning>>,
           \A g \in Generations : Registered(g)' = Registered(g)
    PROVE  InFlightExact'
BY DEF InFlightExact

\* Every step keeps the count of in-flight operations exact.
LEMMA CountNext == ASSUME TypeOK, InFlightExact, [Next]_vars PROVE InFlightExact'
<1>1. CASE UNCHANGED <<inFlight, pfRunning, work>>
  BY <1>1, SameCounts DEF Registered
<1>2. Command \/ ActorStep \/ UNCHANGED vars => UNCHANGED <<inFlight, pfRunning, work>>
  <2>1. (\E rev \in Revisions : Start(rev)) \/ StartRefused \/ StartWithoutConfiguration
          => UNCHANGED <<inFlight, pfRunning, work>>
    BY DEF Start, StartRefused, StartWithoutConfiguration, BeginStart, EnterFault,
           AwaitCommitLock, gateVars, preflightVars
  <2>2. Pause \/ Resume \/ Fault \/ ActorFails => UNCHANGED <<inFlight, pfRunning, work>>
    BY DEF Pause, Resume, Fault, ActorFails, GatePause, GateResume, EnterFault,
           AwaitCommitLock, gateVars, preflightVars
  <2>3. (\E r \in BlockReasons : Block(r)) \/ (\E r \in ReleaseReasons : Unblock(r))
          => UNCHANGED <<inFlight, pfRunning, work>>
    BY DEF Block, Unblock, AwaitCommitLock, GateResume, gateVars, preflightVars
  <2>4. Stop \/ Shutdown => UNCHANGED <<inFlight, pfRunning, work>>
    BY DEF Stop, Shutdown, HandleStop, FinishOff, AwaitCommitLock, gateVars, preflightVars
  <2>5. PreflightComplete => UNCHANGED <<inFlight, pfRunning, work>>
    BY DEF PreflightComplete, EnterFault, AwaitCommitLock, MarkRecording, gateVars
  <2>6. EmitSucceeds \/ EmitFails \/ DrainSucceeds \/ DrainFails \/ FaultDrainEnds \/ Die
          => UNCHANGED <<inFlight, pfRunning, work>>
    BY DEF EmitSucceeds, EmitFails, DrainSucceeds, DrainFails, FaultDrainEnds, Die, EnterFault,
           AwaitCommitLock, FinishOff, gateVars, preflightVars
  <2>7. LockTaken => UNCHANGED <<inFlight, pfRunning, work>>
    BY DEF LockTaken, InvalidateAndPause, InvalidateAndPauseUnlocked, BeginStopping,
           BeginStoppingUnlocked, GateFault, preflightVars
  <2> QED BY <2>1, <2>2, <2>3, <2>4, <2>5, <2>6, <2>7 DEF Command, ActorStep, vars, gateVars,
                                                   preflightVars
<1>3. CASE PreflightBegin
  <2>1. \A g \in Generations : Registered(g)' = Registered(g)
    BY <1>3 DEF PreflightBegin, Registered
  <2>2. CASE UNCHANGED <<inFlight, pfRunning>>
    BY <2>1, <2>2, SameCounts
  <2>3. CASE Register(Head(pfQueue)) /\ pfRunning' = Head(pfQueue)
    <3> SUFFICES ASSUME NEW g \in Generations
                 PROVE  inFlight'[g] = Cardinality(Registered(g)')
                                         + (IF pfRunning' = g THEN 1 ELSE 0)
      BY DEF InFlightExact
    <3>1. inFlight[g] = Cardinality(Registered(g)) + (IF pfRunning = g THEN 1 ELSE 0)
      BY DEF InFlightExact
    <3>2. Cardinality(Registered(g)) \in Nat
      BY RegisteredFinite
    <3>3. pfRunning # g
      BY <1>3 DEF PreflightBegin, NoGeneration, Generations
    <3> QED BY <2>1, <2>3, <3>1, <3>2, <3>3 DEF Register, TypeOK, GateTypeOK
  <2> QED BY <1>3, <2>2, <2>3 DEF PreflightBegin
<1>4. CASE \E r \in PreflightResults : PreflightEnd(r)
  <2> SUFFICES ASSUME NEW g \in Generations
               PROVE  inFlight'[g] = Cardinality(Registered(g)')
                                       + (IF pfRunning' = g THEN 1 ELSE 0)
    BY DEF InFlightExact
  <2>1. Registered(g)' = Registered(g)
    BY <1>4 DEF PreflightEnd, Registered
  <2>2. inFlight[g] = Cardinality(Registered(g)) + (IF pfRunning = g THEN 1 ELSE 0)
    BY DEF InFlightExact
  <2>3. Cardinality(Registered(g)) \in Nat
    BY RegisteredFinite
  <2>4. pfRunning' # g
    BY <1>4 DEF PreflightEnd, NoGeneration, Generations
  <2>5. inFlight'[g] = IF g = pfRunning THEN (IF inFlight[g] <= 1 THEN 0 ELSE inFlight[g] - 1)
                       ELSE inFlight[g]
    BY <1>4 DEF PreflightEnd, Release, TypeOK, GateTypeOK
  <2> QED BY <2>1, <2>2, <2>3, <2>4, <2>5
<1>5. ASSUME NEW w \in Workers, WorkerStep(w) PROVE InFlightExact'
  <2> USE DEF preflightVars
  <2>1. CASE CaptureBegin(w)
    <3>1. active \in Generations
      BY <2>1 DEF CaptureBegin, TypeOK, GateTypeOK, Generations, NoGeneration
    <3> QED BY <2>1, <3>1, EnterCounts DEF CaptureBegin, Register
  <2>2. CASE PersistBegin(w)
    <3>1. work[w].gen \in Generations
      BY <2>2 DEF PersistBegin, TypeOK, WorkTypeOK
    <3>2. work' = [work EXCEPT ![w] = [at |-> "persisting", gen |-> work[w].gen]]
      <4>1. work[w] \in [at : {"capturing", "held", "persisting"}, gen : Generations]
        BY <2>2 DEF PersistBegin, TypeOK, WorkTypeOK
      <4>2. [work[w] EXCEPT !.at = "persisting"] = [at |-> "persisting", gen |-> work[w].gen]
        BY <4>1
      <4> QED BY <2>2, <4>2 DEF PersistBegin
    <3> QED BY <2>2, <3>1, <3>2, EnterCounts DEF PersistBegin, Register
  <2>3. CASE CaptureEnd(w) \/ PersistEnd(w)
    <3>1. /\ work'[w].at \notin {"capturing", "persisting"}
          /\ work' = [work EXCEPT ![w] = work'[w]]
      BY <2>3 DEF CaptureEnd, PersistEnd, TypeOK, WorkTypeOK
    <3> QED BY <2>3, <3>1, LeaveCounts DEF CaptureEnd, PersistEnd
  <2>4. CASE Discard(w)
    <3>1. \A g \in Generations : Registered(g)' = Registered(g)
      BY <2>4 DEF Discard, Registered, TypeOK, WorkTypeOK
    <3> QED BY <2>4, <3>1, SameCounts DEF Discard, gateVars
  <2> QED BY <1>5, <2>1, <2>2, <2>3, <2>4 DEF WorkerStep, WorkerEnds
<1> QED BY <1>1, <1>2, <1>3, <1>4, <1>5 DEF Next, Terminated, PreflightStep

\* The count the drain waits on is exact.
THEOREM CountsExact == Spec => []InFlightExact
<1>1. Init => InFlightExact
  <2> SUFFICES ASSUME Init, NEW g \in Generations
               PROVE  inFlight[g] = Cardinality(Registered(g))
                                      + (IF pfRunning = g THEN 1 ELSE 0)
    BY DEF InFlightExact
  <2>1. Registered(g) = {}
    BY DEF Init, Registered
  <2>2. Cardinality(Registered(g)) = 0
    BY <2>1, FS_EmptySet
  <2> QED BY <2>2 DEF Init, Generations, NoGeneration
<1> QED BY <1>1, CountNext, TypeCorrect, PTL DEF Spec

\* A drain that ends without a fault leaves none of its operations behind.
THEOREM DrainIsBarrier == Spec => BarrierDrained
<1>1. ASSUME IInv, InFlightExact, [Next]_vars
      PROVE  phase = "drain" /\ phase' \notin {"drain", "lock"} /\ state # "FAULTED"
               => Registered(drainGen) = {} /\ pfRunning # drainGen
  <2> SUFFICES ASSUME phase = "drain", phase' \notin {"drain", "lock"}, state # "FAULTED"
               PROVE  Registered(drainGen) = {} /\ pfRunning # drainGen
    OBVIOUS
  <2>1. ~Command
    BY DEF Command, StartRefused, Start, StartWithoutConfiguration, Fault, ActorFails, Pause,
           Resume, Block, Unblock, Stop, Shutdown, Ready
  <2>2. ~PreflightStep /\ ~UNCHANGED vars /\ ~\E w \in Workers : WorkerStep(w)
    BY DEF PreflightStep, PreflightBegin, PreflightEnd, WorkerStep, WorkerEnds, CaptureBegin,
           CaptureEnd, Discard, PersistBegin, PersistEnd, vars, actorVars
  <2>3. ~PreflightComplete /\ ~LockTaken /\ ~EmitSucceeds /\ ~EmitFails /\ ~Die
    BY DEF PreflightComplete, LockTaken, EmitSucceeds, EmitFails, Die, Ready
  <2>4. ~DrainFails
    BY DEF DrainFails, EnterFault, AwaitCommitLock
  <2>5. ~FaultDrainEnds
    BY <1>1 DEF FaultDrainEnds, IInv, ControlState
  <2>6. DrainSucceeds
    BY <1>1, <2>1, <2>2, <2>3, <2>4, <2>5 DEF Next, ActorStep, Terminated
  <2>7. drainGen \in Generations
    BY <1>1, <2>6 DEF DrainSucceeds, IInv, ControlState
  <2>8. inFlight[drainGen] = 0
    BY <2>6, <2>7 DEF DrainSucceeds, GateQuiescent, Generations, NoGeneration
  <2>9. Cardinality(Registered(drainGen)) + (IF pfRunning = drainGen THEN 1 ELSE 0) = 0
    BY <1>1, <2>7, <2>8 DEF InFlightExact
  <2>10. Cardinality(Registered(drainGen)) = 0 /\ pfRunning # drainGen
    BY <2>9, RegisteredFinite
  <2> QED BY <2>10, RegisteredFinite, FS_EmptySet
<1> QED BY <1>1, Invariance, CountsExact, PTL DEF Spec, BarrierDrained

=============================================================================
