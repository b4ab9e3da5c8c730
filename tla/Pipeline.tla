------------------------------ MODULE Pipeline ------------------------------
(***************************************************************************)
(* The bounded capture pipeline (pipeline/): the raw ingress with its       *)
(* coalescing slot, the stage actors joined by ZeroMQ edges, one credit     *)
(* ledger per edge, and the drain that the lifecycle actor runs through     *)
(* BoundedCapturePipeline as its work coordinator.                          *)
(*                                                                         *)
(* Edge s is the input of stage s: its ledger is credit[s], its socket      *)
(* queue[s].  Stage 1 is RAW and the last stage is ENCRYPTED, whose handler *)
(* persists inside the gate; the stages in between behave alike.            *)
(* Of the gate and the lifecycle actor (module Lifecycle) only what the     *)
(* pipeline observes is kept: the state, the active generation, the cancel  *)
(* events, and the steps of _drain_generation.                              *)
(***************************************************************************)
EXTENDS Integers, Sequences, FiniteSets

CONSTANTS
    StageCount,     \* number of stages (4 in the code)
    RawCapacity,    \* limits.raw_queue_items
    StageCapacity,  \* limits.stage_queue_items
    Coalesce,       \* overload policy: coalesce-latest, or else drop-newest
    MaxRecords,     \* bound on the records submitted
    MaxEpoch        \* bound on the generation epoch

ASSUME StageCountAssumption == StageCount \in Nat /\ StageCount >= 2
ASSUME CapacityAssumption == RawCapacity \in Nat \ {0} /\ StageCapacity \in Nat \ {0}
ASSUME CoalesceAssumption == Coalesce \in BOOLEAN
ASSUME BoundAssumption == MaxRecords \in Nat \ {0} /\ MaxEpoch \in Nat \ {0}

VARIABLES
    \* the gate
    state, active, epoch, cancelled,
    \* the lifecycle actor: its place in the drain, and a told FaultCapture
    drain, faultTold,
    \* CancellationRegistry: generations with a set event, with a permit
    events, permits,
    \* PipelineIngress, on the capture thread
    ingress, coalesced, submitted,
    \* CreditLedger, sockets, stage actors
    credit, queue, stage, faulted, drainAsked,
    \* history: records stored, generations whose credits were leaked
    stored, leaked

gateVars == <<state, active, epoch, cancelled>>
controlVars == <<drain, faultTold, events, permits>>
ingressVars == <<ingress, coalesced, submitted>>
edgeVars == <<credit, queue>>
stageVars == <<stage, faulted, drainAsked>>
history == <<stored, leaked>>
vars == <<gateVars, controlVars, ingressVars, edgeVars, stageVars, history>>

Stages == 1..StageCount
Last == StageCount
Generations == 1..MaxEpoch
NoGeneration == 0
NoItem == [id |-> 0, gen |-> NoGeneration]
Items == [id : 1..MaxRecords, gen : Generations]
Capacity(s) == IF s = 1 THEN RawCapacity ELSE StageCapacity
AtRest == [at |-> "rest", gen |-> NoGeneration, why |-> "none", edge |-> 1, bad |-> FALSE]

Init ==
    /\ state = "OFF"
    /\ active = NoGeneration
    /\ epoch = 0
    /\ cancelled = {}
    /\ drain = AtRest
    /\ faultTold = FALSE
    /\ events = {}
    /\ permits = {}
    /\ ingress = [at |-> "idle", item |-> NoItem]
    /\ coalesced = NoItem
    /\ submitted = 0
    /\ credit = [s \in Stages |-> [g \in Generations |-> 0]]
    /\ queue = [s \in Stages |-> << >>]
    /\ stage = [s \in Stages |-> [at |-> "idle", item |-> NoItem]]
    /\ faulted = [s \in Stages |-> FALSE]
    /\ drainAsked = [s \in Stages |-> FALSE]
    /\ stored = {}
    /\ leaked = [s \in Stages |-> [g \in Generations |-> 0]]

-----------------------------------------------------------------------------
(* CreditLedger and CancellationRegistry.                                  *)

\* One element for each credit in use, of whatever generation.
Credits(s) == UNION {{g} \X (1 .. credit[s][g]) : g \in Generations}

InUse(s) == Cardinality(Credits(s))

HasCredit(s) == InUse(s) < Capacity(s)

Acquired(s, g) == [credit EXCEPT ![s][g] = @ + 1]

ReleasedIfAcquired(s, g) == [credit EXCEPT ![s][g] = IF @ > 0 THEN @ - 1 ELSE 0]

TokenCancelled(g) == g \in events \/ (g \in permits /\ g \in cancelled)

\* require_current_generation, and the check of run_persistence.
Current(g) == active = g /\ state \in {"RECORDING", "PAUSED"}

\* Operations of the generation registered in the gate.
InGate(g) ==
    \/ ingress.at # "idle" /\ ingress.item.gen = g
    \/ stage[Last].at = "committing" /\ stage[Last].item.gen = g

CommitLockFree == stage[Last].at # "committing"

-----------------------------------------------------------------------------
(* PipelineIngress, inside CaptureGate.run_capture.                        *)

SubmitBegin ==
    /\ ingress.at = "idle"
    /\ state = "RECORDING"
    /\ submitted < MaxRecords
    /\ submitted' = submitted + 1
    /\ ingress' = [at |-> "check", item |-> [id |-> submitted + 1, gen |-> active]]
    /\ UNCHANGED <<gateVars, controlVars, coalesced, edgeVars, stageVars, history>>

\* The permit is attached; a cancelled one drops the frame.
SubmitCheck ==
    /\ ingress.at = "check"
    /\ permits' = permits \cup {ingress.item.gen}
    /\ ingress' = [ingress EXCEPT !.at = IF ingress.item.gen \in cancelled
                                         THEN "leave" ELSE "offer"]
    /\ UNCHANGED <<gateVars, drain, faultTold, events, coalesced, submitted, edgeVars,
                   stageVars, history>>

\* drop-newest drops the frame; coalesce-latest keeps it in the slot instead
\* of what was there.
HandleOverload(item) == coalesced' = IF Coalesce THEN item ELSE coalesced

\* encode_item refused the frame after the credit was acquired: the exception
\* passes the handler that gives the credit back.
LeakCredit(s, g) ==
    /\ credit' = Acquired(s, g)
    /\ leaked' = [leaked EXCEPT ![s][g] = @ + 1]

\* Mutant of SubmitOffer: the frame is sent without a credit check.
SubmitOfferUnchecked ==
    /\ ingress.at = "offer"
    /\ ingress' = [ingress EXCEPT !.at = "leave"]
    /\ credit' = Acquired(1, ingress.item.gen)
    /\ queue' = [queue EXCEPT ![1] = Append(@, ingress.item)]
    /\ UNCHANGED <<gateVars, controlVars, coalesced, submitted, stageVars, history>>

SubmitOffer ==
    /\ ingress.at = "offer"
    /\ ingress' = [ingress EXCEPT !.at = "leave"]
    /\ LET item == ingress.item IN
       \/ /\ HasCredit(1)
          /\ credit' = Acquired(1, item.gen)
          /\ queue' = [queue EXCEPT ![1] = Append(@, item)]
          /\ UNCHANGED <<coalesced, leaked>>
       \/ /\ HasCredit(1)
          /\ LeakCredit(1, item.gen)
          /\ UNCHANGED <<coalesced, queue>>
       \/ /\ HandleOverload(item)      \* no credit, or the socket refused
          /\ UNCHANGED <<edgeVars, leaked>>
    /\ UNCHANGED <<gateVars, controlVars, submitted, stageVars, stored>>

FlushBegin ==
    /\ ingress.at = "idle"
    /\ state = "RECORDING"
    /\ coalesced # NoItem
    /\ ingress' = [at |-> "flush", item |-> [id |-> 0, gen |-> active]]
    /\ UNCHANGED <<gateVars, controlVars, coalesced, submitted, edgeVars, stageVars, history>>

\* Mutant of FlushCoalesced: the slot is not emptied after the send.
FlushAndKeep ==
    /\ ingress.at = "flush"
    /\ ingress' = [ingress EXCEPT !.at = "leave"]
    /\ IF coalesced # NoItem /\ coalesced.gen = ingress.item.gen /\ HasCredit(1)
         THEN /\ credit' = Acquired(1, coalesced.gen)
              /\ queue' = [queue EXCEPT ![1] = Append(@, coalesced)]
         ELSE UNCHANGED edgeVars
    /\ UNCHANGED <<gateVars, controlVars, coalesced, submitted, stageVars, history>>

FlushCoalesced ==
    /\ ingress.at = "flush"
    /\ ingress' = [ingress EXCEPT !.at = "leave"]
    /\ LET stale == coalesced.gen # ingress.item.gen \/ ingress.item.gen \in cancelled IN
       \/ /\ coalesced = NoItem
          /\ UNCHANGED <<coalesced, edgeVars, leaked>>
       \/ /\ coalesced # NoItem /\ stale
          /\ coalesced' = NoItem
          /\ UNCHANGED <<edgeVars, leaked>>
       \/ /\ coalesced # NoItem /\ ~stale /\ HasCredit(1)
          /\ credit' = Acquired(1, coalesced.gen)
          /\ queue' = [queue EXCEPT ![1] = Append(@, coalesced)]
          /\ coalesced' = NoItem
          /\ UNCHANGED leaked
       \/ /\ coalesced # NoItem /\ ~stale /\ HasCredit(1)
          /\ LeakCredit(1, coalesced.gen)
          /\ UNCHANGED <<coalesced, queue>>
       \/ /\ coalesced # NoItem /\ ~stale     \* no credit, or the socket refused
          /\ UNCHANGED <<coalesced, edgeVars, leaked>>
    /\ UNCHANGED <<gateVars, controlVars, submitted, stageVars, stored>>

IngressLeave ==
    /\ ingress.at = "leave"
    /\ ingress' = [at |-> "idle", item |-> NoItem]
    /\ UNCHANGED <<gateVars, controlVars, coalesced, submitted, edgeVars, stageVars, history>>

-----------------------------------------------------------------------------
(* PipelineStageActor: _handle_parts for one message, then DrainStage.     *)

\* _faulted is set and the lifecycle actor is told.
StageFaults(s) ==
    /\ faulted' = [faulted EXCEPT ![s] = TRUE]
    /\ faultTold' = TRUE

\* Mutant of Receive: a faulted stage leaves its messages in the socket.
ReceiveUnlessFaulted(s) ==
    /\ stage[s].at = "idle"
    /\ queue[s] # << >>
    /\ ~faulted[s] /\ ~TokenCancelled(Head(queue[s]).gen) /\ Current(Head(queue[s]).gen)
    /\ queue' = [queue EXCEPT ![s] = Tail(@)]
    /\ stage' = [stage EXCEPT ![s] = [at |-> "processing", item |-> Head(queue[s])]]
    /\ UNCHANGED <<gateVars, controlVars, ingressVars, credit, faulted, drainAsked, history>>

\* A message is taken from the socket.  It is dropped when the stage has
\* faulted, the generation is cancelled or not current, or its deadline passed.
Receive(s) ==
    /\ stage[s].at = "idle"
    /\ queue[s] # << >>
    /\ queue' = [queue EXCEPT ![s] = Tail(@)]
    /\ LET item == Head(queue[s]) IN
       \/ /\ credit' = ReleasedIfAcquired(s, item.gen)
          /\ UNCHANGED stage
       \/ /\ ~faulted[s] /\ ~TokenCancelled(item.gen) /\ Current(item.gen)
          /\ stage' = [stage EXCEPT ![s] = [at |-> "processing", item |-> item]]
          /\ UNCHANGED credit
    /\ UNCHANGED <<gateVars, controlVars, ingressVars, faulted, drainAsked, history>>

PollFails(s) ==
    /\ stage[s].at = "idle"
    /\ StageFaults(s)
    /\ UNCHANGED <<gateVars, drain, events, permits, ingressVars, edgeVars, stage, drainAsked,
                   history>>

\* The processor returned an item, which may now be stale, or raised (or
\* returned an item that _validate_output refuses).
Process(s) ==
    /\ s # Last
    /\ stage[s].at = "processing"
    /\ LET g == stage[s].item.gen IN
       \/ /\ ~TokenCancelled(g) /\ Current(g)
          /\ stage' = [stage EXCEPT ![s].at = "sending"]
          /\ UNCHANGED <<faulted, faultTold>>
       \/ /\ TokenCancelled(g) \/ ~Current(g)
          /\ stage' = [stage EXCEPT ![s].at = "finishing"]
          /\ UNCHANGED <<faulted, faultTold>>
       \/ /\ stage' = [stage EXCEPT ![s].at = "finishing"]
          /\ StageFaults(s)
    /\ UNCHANGED <<gateVars, drain, events, permits, ingressVars, edgeVars, drainAsked,
                   history>>

\* The output is dropped when the next edge is full or its socket refuses.
SendOutput(s) ==
    /\ s # Last
    /\ stage[s].at = "sending"
    /\ stage' = [stage EXCEPT ![s].at = "finishing"]
    /\ LET item == stage[s].item IN
       \/ /\ HasCredit(s + 1)
          /\ credit' = Acquired(s + 1, item.gen)
          /\ queue' = [queue EXCEPT ![s + 1] = Append(@, item)]
          /\ UNCHANGED <<leaked, faulted, faultTold>>
       \/ /\ HasCredit(s + 1)
          /\ LeakCredit(s + 1, item.gen)
          /\ StageFaults(s)
          /\ UNCHANGED queue
       \/ UNCHANGED <<edgeVars, leaked, faulted, faultTold>>
    /\ UNCHANGED <<gateVars, drain, events, permits, ingressVars, drainAsked, stored>>

\* Mutant of PersistBegin: the encrypted stage writes outside the gate.
PersistOutsideGate ==
    /\ stage[Last].at = "processing"
    /\ stage' = [stage EXCEPT ![Last].at = "committing"]
    /\ UNCHANGED <<gateVars, controlVars, ingressVars, edgeVars, faulted, drainAsked, history>>

PersistBegin ==
    /\ stage[Last].at = "processing"
    /\ LET g == stage[Last].item.gen IN
       \/ /\ Current(g) /\ g \notin cancelled
          /\ stage' = [stage EXCEPT ![Last].at = "committing"]
       \/ /\ ~(Current(g) /\ g \notin cancelled)
          /\ stage' = [stage EXCEPT ![Last].at = "finishing"]
    /\ UNCHANGED <<gateVars, controlVars, ingressVars, edgeVars, faulted, drainAsked, history>>

PersistEnd ==
    /\ stage[Last].at = "committing"
    /\ stage' = [stage EXCEPT ![Last].at = "finishing"]
    /\ \/ stored' = stored \cup {stage[Last].item} /\ UNCHANGED <<faulted, faultTold>>
       \/ StageFaults(Last) /\ UNCHANGED stored
    /\ UNCHANGED <<gateVars, drain, events, permits, ingressVars, edgeVars, drainAsked, leaked>>

\* The finally clause: the input credit is given back.
FinishMessage(s) ==
    /\ stage[s].at = "finishing"
    /\ credit' = ReleasedIfAcquired(s, stage[s].item.gen)
    /\ stage' = [stage EXCEPT ![s] = [at |-> "idle", item |-> NoItem]]
    /\ UNCHANGED <<gateVars, controlVars, ingressVars, queue, faulted, drainAsked, history>>

OnEdge(s, g) == Cardinality({i \in 1..Len(queue[s]) : queue[s][i].gen = g})

\* Mutant of DrainStage: the credits of the dropped messages are kept.
DrainStageKeepsCredits(s) ==
    /\ stage[s].at = "idle"
    /\ drainAsked[s]
    /\ drainAsked' = [drainAsked EXCEPT ![s] = FALSE]
    /\ queue' = [queue EXCEPT ![s] = << >>]
    /\ UNCHANGED <<gateVars, controlVars, ingressVars, credit, stage, faulted, history>>

\* The socket is emptied, whatever generation its messages have.
DrainStage(s) ==
    /\ stage[s].at = "idle"
    /\ drainAsked[s]
    /\ drainAsked' = [drainAsked EXCEPT ![s] = FALSE]
    /\ queue' = [queue EXCEPT ![s] = << >>]
    /\ credit' = [credit EXCEPT ![s] =
                    [g \in Generations |-> IF credit[s][g] > OnEdge(s, g)
                                             THEN credit[s][g] - OnEdge(s, g) ELSE 0]]
    /\ UNCHANGED <<gateVars, controlVars, ingressVars, stage, faulted, history>>

-----------------------------------------------------------------------------
(* The lifecycle actor.                                                    *)

Room(n) == epoch + n <= MaxEpoch

\* A start whose preflight succeeded.
Open ==
    /\ drain.at = "rest"
    /\ state = "OFF"
    /\ Room(3)
    /\ epoch' = epoch + 1
    /\ active' = epoch + 1
    /\ state' = "RECORDING"
    /\ UNCHANGED <<cancelled, controlVars, ingressVars, edgeVars, stageVars, history>>

PauseOrResume ==
    /\ drain.at = "rest"
    /\ \/ state = "RECORDING" /\ state' = "PAUSED"
       \/ state = "PAUSED" /\ state' = "RECORDING"
    /\ UNCHANGED <<active, epoch, cancelled, controlVars, ingressVars, edgeVars, stageVars,
                   history>>

\* begin_stopping, invalidate_and_pause and fault, behind the commit lock.  A
\* told fault is taken in every state but FAULTED.
Invalidate(why) ==
    /\ drain.at = "rest"
    /\ CommitLockFree
    /\ \/ why = "stop" /\ state \in {"RECORDING", "PAUSED"} /\ state' = "STOPPING" /\ Room(2)
       \/ why = "block" /\ state \in {"RECORDING", "PAUSED"} /\ state' = "PAUSED" /\ Room(2)
       \/ why = "fault" /\ faultTold /\ state # "FAULTED" /\ state' = "FAULTED" /\ Room(1)
    /\ epoch' = epoch + 1
    /\ active' = IF why = "block" THEN epoch + 1 ELSE NoGeneration
    /\ cancelled' = cancelled \cup ({active} \ {NoGeneration})
    /\ faultTold' = (faultTold /\ why # "fault")
    /\ drain' = [AtRest EXCEPT !.at = IF active = NoGeneration THEN "buffers" ELSE "cancel",
                               !.gen = active, !.why = why]
    /\ UNCHANGED <<events, permits, ingressVars, edgeVars, stageVars, history>>

FaultAgain ==
    /\ drain.at = "rest"
    /\ faultTold /\ state = "FAULTED"
    /\ faultTold' = FALSE
    /\ UNCHANGED <<gateVars, drain, events, permits, ingressVars, edgeVars, stageVars, history>>

\* A stop in FAULTED only clears the buffers.
StopFaulted ==
    /\ drain.at = "rest"
    /\ state = "FAULTED"
    /\ drain' = [AtRest EXCEPT !.at = "buffers", !.why = "reset"]
    /\ UNCHANGED <<gateVars, faultTold, events, permits, ingressVars, edgeVars, stageVars,
                   history>>

-----------------------------------------------------------------------------
(* _drain_generation and the work coordinator it calls.                    *)

ClearCoalesced(g) ==
    coalesced' = IF g = NoGeneration \/ coalesced.gen = g THEN NoItem ELSE coalesced

\* cancel_queued and cancel_in_flight: the cancellation, then the slot.
DrainCancel ==
    /\ \/ /\ drain.at = "cancel"
          /\ events' = events \cup {drain.gen}
          /\ drain' = [drain EXCEPT !.at = "slot"]
          /\ UNCHANGED coalesced
       \/ /\ drain.at = "slot"
          /\ ClearCoalesced(drain.gen)
          /\ drain' = [drain EXCEPT !.at = "operations"]
          /\ UNCHANGED events
    /\ UNCHANGED <<gateVars, faultTold, permits, ingress, submitted, edgeVars, stageVars,
                   history>>

\* Mutant of DrainWaits: the raw edge is not waited for.
DrainWaitsButRaw ==
    /\ \/ /\ drain.at = "operations"
          /\ ~InGate(drain.gen)
          /\ drain' = [drain EXCEPT !.at = "credits", !.edge = 2]
       \/ /\ drain.at = "credits"
          /\ credit[drain.edge][drain.gen] = 0
          /\ drain' = IF drain.edge = Last THEN [drain EXCEPT !.at = "slot empty"]
                      ELSE [drain EXCEPT !.edge = @ + 1]
       \/ /\ drain.at = "slot empty"
          /\ drain' = [drain EXCEPT !.at = "buffers", !.bad = (coalesced.gen = drain.gen)]
       \/ /\ drain.at \in {"operations", "credits"}
          /\ drain' = [drain EXCEPT !.at = "buffers", !.bad = TRUE]
    /\ UNCHANGED <<gateVars, faultTold, events, permits, ingressVars, edgeVars, stageVars,
                   history>>

\* Mutant of DrainWaits: the waits have no deadline.
DrainWaitsForever ==
    /\ \/ /\ drain.at = "operations"
          /\ ~InGate(drain.gen)
          /\ drain' = [drain EXCEPT !.at = "credits"]
       \/ /\ drain.at = "credits"
          /\ credit[drain.edge][drain.gen] = 0
          /\ drain' = IF drain.edge = Last THEN [drain EXCEPT !.at = "slot empty"]
                      ELSE [drain EXCEPT !.edge = @ + 1]
       \/ /\ drain.at = "slot empty"
          /\ drain' = [drain EXCEPT !.at = "buffers", !.bad = (coalesced.gen = drain.gen)]
    /\ UNCHANGED <<gateVars, faultTold, events, permits, ingressVars, edgeVars, stageVars,
                   history>>

\* wait_for_operations, then wait_for_quiescence: the ledgers in the order of
\* the edges, then the slot; or the deadline passes.
DrainWaits ==
    /\ \/ /\ drain.at = "operations"
          /\ ~InGate(drain.gen)
          /\ drain' = [drain EXCEPT !.at = "credits"]
       \/ /\ drain.at = "credits"
          /\ credit[drain.edge][drain.gen] = 0
          /\ drain' = IF drain.edge = Last THEN [drain EXCEPT !.at = "slot empty"]
                      ELSE [drain EXCEPT !.edge = @ + 1]
       \/ /\ drain.at = "slot empty"
          /\ drain' = [drain EXCEPT !.at = "buffers", !.bad = (coalesced.gen = drain.gen)]
       \/ /\ drain.at \in {"operations", "credits"}
          /\ drain' = [drain EXCEPT !.at = "buffers", !.bad = TRUE]
    /\ UNCHANGED <<gateVars, faultTold, events, permits, ingressVars, edgeVars, stageVars,
                   history>>

\* clear_volatile_buffers: the slot, then each stage from the last to the first.
DrainBuffers ==
    /\ \/ /\ drain.at = "buffers"
          /\ ClearCoalesced(drain.gen)
          /\ drain' = [drain EXCEPT !.at = "stages", !.edge = Last]
          /\ drainAsked' = [drainAsked EXCEPT ![Last] = TRUE]
       \/ /\ drain.at = "stages"
          /\ ~drainAsked[drain.edge]
          /\ drain.edge > 1
          /\ drain' = [drain EXCEPT !.edge = @ - 1]
          /\ drainAsked' = [drainAsked EXCEPT ![drain.edge - 1] = TRUE]
          /\ UNCHANGED coalesced
    /\ UNCHANGED <<gateVars, faultTold, events, permits, ingress, submitted, edgeVars, stage,
                   faulted, history>>

\* What the handler makes of the outcome.
Conclude(bad) ==
    /\ drain' = AtRest
    /\ \/ /\ bad /\ drain.why \in {"stop", "block"}
          /\ CommitLockFree
          /\ state' = "FAULTED"
          /\ active' = NoGeneration
          /\ epoch' = epoch + 1
          /\ cancelled' = cancelled \cup ({active} \ {NoGeneration})
       \/ /\ ~bad /\ drain.why \in {"stop", "reset"}
          /\ state' = "OFF"
          /\ UNCHANGED <<active, epoch, cancelled>>
       \/ /\ drain.why = "fault" \/ (drain.why = "block" /\ ~bad)
                \/ (drain.why = "reset" /\ bad)
          /\ UNCHANGED gateVars

\* All stages answered, and the cancellation of the generation is forgotten;
\* or an ask timed out, and its DrainStage stays in the stage's inbox.
DrainEnds ==
    /\ drain.at = "stages"
    /\ \/ /\ drain.edge = 1 /\ ~drainAsked[1]
          /\ events' = events \ {drain.gen}
          /\ permits' = permits \ {drain.gen}
          /\ Conclude(drain.bad)
       \/ /\ drainAsked[drain.edge]
          /\ Conclude(TRUE)
          /\ UNCHANGED <<events, permits>>
    /\ UNCHANGED <<faultTold, ingressVars, edgeVars, stageVars, history>>

-----------------------------------------------------------------------------
IngressStep == SubmitCheck \/ SubmitOffer \/ FlushCoalesced \/ IngressLeave

MessageStep(s) ==
    \/ Receive(s)
    \/ Process(s)
    \/ SendOutput(s)
    \/ FinishMessage(s)
    \/ s = Last /\ (PersistBegin \/ PersistEnd)

StageStep(s) == MessageStep(s) \/ DrainStage(s)

DrainStep == DrainCancel \/ DrainWaits \/ DrainBuffers \/ DrainEnds

Next ==
    \/ SubmitBegin
    \/ FlushBegin
    \/ IngressStep
    \/ \E s \in Stages : StageStep(s) \/ PollFails(s)
    \/ Open
    \/ PauseOrResume
    \/ \E why \in {"stop", "block", "fault"} : Invalidate(why)
    \/ FaultAgain
    \/ StopFaulted
    \/ DrainStep

Spec == Init /\ [][Next]_vars

\* Each stage thread keeps polling and its processor returns; the capture
\* thread finishes the operation it is in; the drain has deadlines.
FairSpec ==
    /\ Spec
    /\ WF_vars(IngressStep)
    /\ WF_vars(DrainStep)
    /\ \A s \in Stages : WF_vars(StageStep(s))

-----------------------------------------------------------------------------
(* Properties.                                                             *)

\* Types; no edge ever holds more messages than its capacity.
PipelineTypeOK ==
    /\ state \in {"OFF", "RECORDING", "PAUSED", "STOPPING", "FAULTED"}
    /\ active \in 0..MaxEpoch /\ epoch \in 0..MaxEpoch
    /\ coalesced \in Items \cup {NoItem}
    /\ credit \in [Stages -> [Generations -> Nat]]
    /\ \A s \in Stages : queue[s] \in Seq(Items) /\ Len(queue[s]) <= Capacity(s)
    /\ stored \subseteq Items

Held(s, g) == stage[s].at # "idle" /\ stage[s].item.gen = g

\* The ledger of an edge counts exactly the messages in its socket and the one
\* its stage works on, per generation, through drops, faults, timeouts, drains
\* and late drains; except for the credits that a refused encoding leaked.
CreditsExact ==
    \A s \in Stages, g \in Generations :
        credit[s][g] = OnEdge(s, g) + (IF Held(s, g) THEN 1 ELSE 0) + leaked[s][g]

\* Nothing of generation g is left in the pipeline.
NothingOf(g) ==
    /\ coalesced.gen # g
    /\ ~InGate(g)
    /\ \A s \in Stages : OnEdge(s, g) = 0 /\ ~Held(s, g)

\* A stop or a safety block that does not end in a fault leaves nothing of the
\* old generation behind: no queued message, no stage that still works on one,
\* no coalesced frame and no submission under way.
DrainComplete ==
    [][ drain.at # "rest" /\ drain'.at = "rest" /\ drain.why \in {"stop", "block"}
          /\ state' # "FAULTED" => NothingOf(drain.gen) ]_vars

\* A record is in at most one place: the slot, one socket, or one stage.
ItemOnce ==
    \A id \in 1..submitted :
        Cardinality({s \in Stages : stage[s].at \in {"processing", "sending", "committing"}
                                      /\ stage[s].item.id = id})
        + Cardinality({p \in Stages \X (1..(RawCapacity + StageCapacity)) :
                          p[2] <= Len(queue[p[1]]) /\ queue[p[1]][p[2]].id = id})
        + (IF coalesced.id = id THEN 1 ELSE 0)
        + (IF \E x \in stored : x.id = id THEN 1 ELSE 0) <= 1

\* A record is stored only while its generation is the active one.
StoredCurrent ==
    [][ \A x \in stored' \ stored : Current(x.gen) ]_vars

\* A command that drains is answered: every wait of the drain has a deadline.
DrainAnswers == drain.at # "rest" ~> drain.at = "rest"

\* Every message leaves its socket, whatever happens to the generation.
SocketsEmpty == \A s \in Stages : queue[s] # << >> ~> queue[s] = << >>

\* A stop is answered, and no message of the stopped generation is left lying.
PipelineSettles == DrainAnswers /\ SocketsEmpty

=============================================================================
