---------------------------- MODULE PipelineProofs ----------------------------
(***************************************************************************)
(* Proofs about Pipeline, for every number of stages, every capacity and   *)
(* every bound.                                                            *)
(*                                                                         *)
(* Four invariants are proved one on top of the other: the types with the  *)
(* state of the gate during a drain, the exact count of the ledgers, the   *)
(* capacity of the edges, and what a drain has already emptied.  That a    *)
(* record is in one place only is independent of the counting.             *)
(***************************************************************************)
EXTENDS Pipeline, FiniteSetTheorems, FunctionTheorems, TLAPS

\* An item, or the place of one.
Slots == [id : 0 .. MaxRecords, gen : 0 .. MaxEpoch]

\* What the ingress, a stage and the drain can be doing.
IngressStates == [at : {"idle", "check", "offer", "flush", "leave"}, item : Slots]

StageStates ==
    [at : {"idle", "processing", "sending", "committing", "finishing"}, item : Slots]

DrainStates ==
    [at : {"rest", "cancel", "slot", "operations", "credits", "slot empty", "buffers", "stages"},
     gen : 0 .. MaxEpoch, why : {"none", "stop", "block", "fault", "reset"}, edge : Stages,
     bad : BOOLEAN]

TypeInv ==
    /\ state \in {"OFF", "RECORDING", "PAUSED", "STOPPING", "FAULTED"}
    /\ active \in 0 .. MaxEpoch /\ epoch \in 0 .. MaxEpoch
    /\ drain \in DrainStates
    /\ ingress \in IngressStates
    /\ coalesced \in Slots
    /\ submitted \in 0 .. MaxRecords
    /\ credit \in [Stages -> [Generations -> Nat]]
    /\ leaked \in [Stages -> [Generations -> Nat]]
    /\ queue \in [Stages -> Seq(Items)]
    /\ stage \in [Stages -> StageStates]
    /\ drainAsked \in [Stages -> BOOLEAN]
    /\ stored \subseteq Items

\* Whoever works, works on an item.
WorkInv ==
    /\ coalesced = NoItem \/ coalesced \in Items
    /\ ingress.at \in {"check", "offer"} => ingress.item \in Items
    /\ ingress.at # "idle" => ingress.item.gen \in Generations
    /\ \A s \in Stages : stage[s].at # "idle" => stage[s].item \in Items

\* The gate during the drains.
GateInv ==
    /\ active # NoGeneration <=> state \in {"RECORDING", "PAUSED"}
    /\ active <= epoch
    /\ drain.at # "rest" =>
          /\ drain.why \in {"stop", "block"} =>
                drain.gen \in Generations /\ drain.gen < epoch /\ drain.gen # active
                  /\ epoch < MaxEpoch
          /\ drain.why = "stop" => state = "STOPPING"
          /\ drain.why = "block" => state = "PAUSED"
          /\ drain.why \in {"fault", "reset"} => state = "FAULTED"
          /\ drain.why # "none"
    /\ state = "STOPPING" => drain.at # "rest"

\* A commit under way keeps its generation current.
CommitInv == stage[Last].at = "committing" => Current(stage[Last].item.gen)

\* The gate, the ledgers, the sockets and the stages.
BaseInv == TypeInv /\ WorkInv /\ GateInv /\ CommitInv

\* The messages of an edge and the one its stage works on have their credits,
\* and the credits in use are within the capacity.
Busy(s) == IF stage[s].at # "idle" THEN 1 ELSE 0
Queued(s) == Len(queue[s])
Load(s) == Queued(s) + Busy(s)

CapacityInv ==
    \A s \in Stages :
        /\ IsFiniteSet(Credits(s))
        /\ Load(s) <= InUse(s)
        /\ InUse(s) <= Capacity(s)

\* The first n ledgers have no credit of generation g.
Emptied(g, n) == \A s \in Stages : s <= n => credit[s][g] = 0

\* What the drain of a stop or a block has found empty stays so.
DrainInv ==
    /\ drain.at \notin {"buffers", "stages"} => drain.bad = FALSE
    /\ drain.at # "rest" /\ drain.why \in {"stop", "block"} /\ drain.bad = FALSE =>
        /\ drain.at \in {"cancel", "slot", "operations"} => drain.edge = 1
        /\ drain.at \in {"credits", "slot empty", "buffers", "stages"} => ~InGate(drain.gen)
        /\ drain.at = "credits" => Emptied(drain.gen, drain.edge - 1)
        /\ drain.at \in {"slot empty", "buffers", "stages"} => Emptied(drain.gen, Last)
        /\ drain.at \in {"buffers", "stages"} => coalesced.gen # drain.gen

\* The places of a record: its submission, the slot, a position of a socket, a
\* stage, the storage.
Filled(s, i) == i \in 1 .. Len(queue[s])
Queues(s, i) == queue[s][i].id
Working(s) == stage[s].at \in {"processing", "sending", "committing"}
Works(s) == stage[s].item.id
Submitting == ingress.at \in {"check", "offer"}

\* No two places have the same record.
QueuesApart ==
    \A s, t \in Stages, i, j \in Nat :
        Filled(s, i) /\ Filled(t, j) /\ Queues(s, i) = Queues(t, j) => s = t /\ i = j
StagesApart ==
    /\ \A s, t \in Stages : Working(s) /\ Working(t) /\ Works(s) = Works(t) => s = t
    /\ \A s, t \in Stages, i \in Nat : Working(s) /\ Filled(t, i) => Works(s) # Queues(t, i)
SlotApart ==
    /\ \A s \in Stages, i \in Nat : Filled(s, i) => coalesced.id # Queues(s, i)
    /\ \A s \in Stages : Working(s) => coalesced.id # Works(s)
StoreApart ==
    /\ \A x \in stored, s \in Stages, i \in Nat : Filled(s, i) => x.id # Queues(s, i)
    /\ \A x \in stored, s \in Stages : Working(s) => x.id # Works(s)
    /\ \A x \in stored : x.id # coalesced.id
SubmissionApart ==
    Submitting =>
        /\ \A s \in Stages, i \in Nat : Filled(s, i) => ingress.item.id # Queues(s, i)
        /\ \A s \in Stages : Working(s) => ingress.item.id # Works(s)
        /\ ingress.item.id # coalesced.id
        /\ \A x \in stored : ingress.item.id # x.id

\* Identifiers are drawn in order.
Drawn ==
    /\ coalesced.id <= submitted /\ (Submitting => ingress.item.id <= submitted)
    /\ \A s \in Stages, i \in Nat : Filled(s, i) => Queues(s, i) <= submitted
    /\ \A s \in Stages : Working(s) => Works(s) <= submitted
    /\ \A x \in stored : x.id <= submitted

PlacesInv ==
    /\ QueuesApart
    /\ StagesApart
    /\ SlotApart
    /\ StoreApart
    /\ SubmissionApart
    /\ Drawn


-----------------------------------------------------------------------------
(* The positions of a generation in a socket, and the credits of a ledger. *)

Positions(q, g) == {i \in 1 .. Len(q) : q[i].gen = g}

CreditsOf(c) == UNION {{g} \X (1 .. c[g]) : g \in Generations}

\* What the constants are.
LEMMA ConstantTypes ==
    /\ StageCount \in Nat /\ MaxEpoch \in Nat \ {0} /\ MaxRecords \in Nat \ {0}
    /\ RawCapacity \in Nat \ {0} /\ StageCapacity \in Nat \ {0}
BY StageCountAssumption, CapacityAssumption, BoundAssumption

\* The first and the last stage, and the successor of a stage.
LEMMA StageTypes ==
    /\ 1 \in Stages /\ Last \in Stages
    /\ \A s \in Stages : s # Last => s + 1 \in Stages /\ s + 1 # s
BY StageCountAssumption DEF Stages, Last

\* What an item is.
LEMMA ItemTypes ==
    /\ NoItem \in Slots /\ NoItem.gen = 0 /\ NoItem.id = 0 /\ NoItem \notin Items
    /\ Items \subseteq Slots
    /\ \A x \in Slots : x.id \in 0 .. MaxRecords /\ x.gen \in 0 .. MaxEpoch
    /\ \A x \in Items : x.id \in 1 .. MaxRecords /\ x.gen \in Generations
BY ConstantTypes DEF NoItem, NoGeneration, Generations, Slots, Items

\* A count of messages is a number.
LEMMA EdgeCounts ==
    ASSUME TypeInv, NEW s \in Stages, NEW g
    PROVE  OnEdge(s, g) \in Nat
<1>1. Len(queue[s]) \in Nat
  BY DEF TypeInv
<1>2. IsFiniteSet(1 .. Len(queue[s]))
  BY <1>1, FS_Interval
<1>3. IsFiniteSet(Positions(queue[s], g))
  BY <1>2, FS_Subset DEF Positions
<1> QED
  BY <1>3, FS_CardinalityType DEF OnEdge, Positions

\* A ledger stays a ledger.
LEMMA LedgerTypes ==
    ASSUME TypeInv, NEW s \in Stages, NEW g \in Generations
    PROVE  /\ Acquired(s, g) \in [Stages -> [Generations -> Nat]]
           /\ ReleasedIfAcquired(s, g) \in [Stages -> [Generations -> Nat]]
           /\ credit \in [Stages -> [Generations -> Nat]]
<1>1. Acquired(s, g) \in [Stages -> [Generations -> Nat]]
  BY DEF TypeInv, Acquired
<1>2. ReleasedIfAcquired(s, g) \in [Stages -> [Generations -> Nat]]
  BY DEF TypeInv, ReleasedIfAcquired
<1> QED
  BY <1>1, <1>2 DEF TypeInv

\* A message more, a credit lost, an item taken, a stage that goes on.
Sent(s, x) == [queue EXCEPT ![s] = Append(@, x)]
Lost(s, g) == [leaked EXCEPT ![s][g] = @ + 1]
Took(s, x) == [stage EXCEPT ![s] = [at |-> "processing", item |-> x]]
Went(s, a) == [stage EXCEPT ![s].at = a]

\* A socket stays a socket.
LEMMA SocketTypes ==
    ASSUME TypeInv, NEW s \in Stages
    PROVE  /\ \A x \in Items : Sent(s, x) \in [Stages -> Seq(Items)]
           /\ queue[s] # << >> => Head(queue[s]) \in Items
           /\ queue \in [Stages -> Seq(Items)]
BY DEF TypeInv, Sent

\* A count of lost credits stays one.
LEMMA LostTypes ==
    ASSUME TypeInv, NEW s \in Stages, NEW g \in Generations
    PROVE  /\ Lost(s, g) \in [Stages -> [Generations -> Nat]]
           /\ leaked \in [Stages -> [Generations -> Nat]]
BY DEF TypeInv, Lost

\* A stage takes an item, or goes on with it.
LEMMA StageStateTypes ==
    ASSUME TypeInv, NEW s \in Stages
    PROVE  /\ \A x \in Items : Took(s, x) \in [Stages -> StageStates]
           /\ \A a \in {"sending", "committing", "finishing"} :
                 Went(s, a) \in [Stages -> StageStates]
           /\ stage \in [Stages -> StageStates]
BY ItemTypes DEF TypeInv, StageStates, Took, Went

\* What a stage that takes an item or goes on works on.
LEMMA StageStateItems ==
    ASSUME TypeInv, WorkInv, NEW s \in Stages, NEW t \in Stages
    PROVE  /\ \A x \in Items : Took(s, x)[t].at # "idle" => Took(s, x)[t].item \in Items
           /\ \A a : stage[s].at # "idle" /\ Went(s, a)[t].at # "idle" =>
                       Went(s, a)[t].item \in Items
BY DEF TypeInv, WorkInv, StageStates, Took, Went

\* The drain at rest.
LEMMA RestTypes ==
    /\ AtRest \in DrainStates
    /\ AtRest.at = "rest" /\ AtRest.gen = 0 /\ AtRest.edge = 1 /\ AtRest.bad = FALSE
BY ConstantTypes, StageTypes DEF DrainStates, NoGeneration, AtRest

-----------------------------------------------------------------------------
(* The types and the gate: one lemma for each action.                      *)

\* A submission takes the active generation, which is one while recording.
LEMMA SubmitBeginBase ==
    ASSUME TypeInv, WorkInv, GateInv, CommitInv, SubmitBegin
    PROVE  BaseInv'
<1>1. ingress' \in IngressStates
  BY ConstantTypes
     DEF SubmitBegin, Items, Slots, IngressStates, TypeInv, WorkInv, Generations, NoGeneration,
         GateInv
<1>2. submitted' \in 0 .. MaxRecords
  BY ConstantTypes DEF SubmitBegin, Items, Slots, TypeInv, WorkInv
<1>3. TypeInv'
  BY <1>1, <1>2 DEF TypeInv, SubmitBegin, gateVars, controlVars, edgeVars, stageVars, history
<1>4. WorkInv'
  BY ConstantTypes
     DEF TypeInv, IngressStates, StageStates, WorkInv, SubmitBegin, Items, Slots, Generations,
         NoGeneration, GateInv, stageVars
<1>5. GateInv'
  BY DEF TypeInv, DrainStates, GateInv, SubmitBegin, Items, Slots, gateVars, controlVars
<1>6. CommitInv'
  BY ConstantTypes
     DEF TypeInv, StageStates, GateInv, CommitInv, Current, SubmitBegin, Items, Slots,
         gateVars, stageVars
<1> QED
  BY <1>3, <1>4, <1>5, <1>6 DEF BaseInv

\* The permit is attached.
LEMMA SubmitCheckBase ==
    ASSUME TypeInv, WorkInv, GateInv, CommitInv, SubmitCheck
    PROVE  BaseInv'
<1>1. ingress' \in IngressStates
  BY DEF SubmitCheck, IngressStates, TypeInv, WorkInv
<1>2. TypeInv'
  BY <1>1 DEF TypeInv, SubmitCheck, gateVars, edgeVars, stageVars, history
<1>3. WorkInv'
  BY DEF TypeInv, IngressStates, StageStates, WorkInv, SubmitCheck, stageVars
<1>4. GateInv'
  BY DEF TypeInv, DrainStates, GateInv, SubmitCheck, gateVars
<1>5. CommitInv'
  BY DEF TypeInv, StageStates, GateInv, CommitInv, Current, SubmitCheck, gateVars, stageVars
<1> QED
  BY <1>2, <1>3, <1>4, <1>5 DEF BaseInv

\* The frame goes to the raw edge, to the slot, or nowhere.
LEMMA SubmitOfferBase ==
    ASSUME TypeInv, WorkInv, GateInv, CommitInv, SubmitOffer
    PROVE  BaseInv'
<1>1. ingress.item \in Items /\ ingress.item.gen \in Generations /\ 1 \in Stages
  BY ItemTypes, StageTypes DEF SubmitOffer, WorkInv
<1>2. credit' = credit \/ credit' = Acquired(1, ingress.item.gen)
  BY DEF SubmitOffer, LeakCredit, edgeVars
<1>3. leaked' = leaked \/ leaked' = Lost(1, ingress.item.gen)
  BY DEF SubmitOffer, LeakCredit, Lost
<1>4. queue' = queue \/ queue' = Sent(1, ingress.item)
  BY DEF SubmitOffer, edgeVars, Sent
<1>5. ingress' \in IngressStates
  BY DEF SubmitOffer, IngressStates, TypeInv
<1>6. coalesced' \in Slots
  BY <1>1, ItemTypes DEF SubmitOffer, HandleOverload, TypeInv
<1>7. credit' \in [Stages -> [Generations -> Nat]]
  BY <1>1, <1>2, LedgerTypes
<1>8. leaked' \in [Stages -> [Generations -> Nat]]
  BY <1>1, <1>3, LostTypes
<1>9. queue' \in [Stages -> Seq(Items)]
  BY <1>1, <1>4, SocketTypes
<1>10. TypeInv'
  BY <1>5, <1>6, <1>7, <1>8, <1>9 DEF TypeInv, SubmitOffer, gateVars, controlVars, stageVars
<1>11. WorkInv'
  BY DEF TypeInv, IngressStates, WorkInv, SubmitOffer, HandleOverload, stageVars
<1>12. GateInv'
  BY DEF GateInv, SubmitOffer, gateVars, controlVars
<1>13. CommitInv'
  BY DEF CommitInv, Current, SubmitOffer, gateVars, stageVars
<1> QED
  BY <1>10, <1>11, <1>12, <1>13 DEF BaseInv

\* A flush takes the active generation.
LEMMA FlushBeginBase ==
    ASSUME TypeInv, WorkInv, GateInv, CommitInv, FlushBegin
    PROVE  BaseInv'
<1>1. ingress' \in IngressStates
  BY ConstantTypes
     DEF FlushBegin, Slots, IngressStates, TypeInv, WorkInv, Generations, NoGeneration, GateInv
<1>2. TypeInv'
  BY <1>1 DEF TypeInv, FlushBegin, gateVars, controlVars, edgeVars, stageVars, history
<1>3. WorkInv'
  BY ConstantTypes
     DEF TypeInv, IngressStates, StageStates, WorkInv, FlushBegin, Slots, Generations,
         NoGeneration, GateInv, stageVars
<1>4. GateInv'
  BY DEF TypeInv, DrainStates, GateInv, FlushBegin, Slots, gateVars, controlVars
<1>5. CommitInv'
  BY ConstantTypes
     DEF TypeInv, StageStates, GateInv, CommitInv, Current, FlushBegin, Slots, gateVars,
         stageVars
<1> QED
  BY <1>2, <1>3, <1>4, <1>5 DEF BaseInv

\* The slot goes to the raw edge, or nowhere.
LEMMA FlushCoalescedBase ==
    ASSUME TypeInv, WorkInv, GateInv, CommitInv, FlushCoalesced
    PROVE  BaseInv'
<1>1. (coalesced # NoItem => coalesced \in Items /\ coalesced.gen \in Generations) /\ 1 \in Stages
  BY ItemTypes, StageTypes DEF WorkInv
<1>2. credit' = credit \/ (coalesced # NoItem /\ credit' = Acquired(1, coalesced.gen))
  BY DEF FlushCoalesced, LeakCredit, edgeVars
<1>3. leaked' = leaked \/ (coalesced # NoItem /\ leaked' = Lost(1, coalesced.gen))
  BY DEF FlushCoalesced, LeakCredit, Lost
<1>4. queue' = queue \/ (coalesced # NoItem /\ queue' = Sent(1, coalesced))
  BY DEF FlushCoalesced, edgeVars, Sent
<1>5. ingress' \in IngressStates
  BY DEF FlushCoalesced, IngressStates, TypeInv
<1>6. coalesced' \in {coalesced, NoItem}
  BY DEF FlushCoalesced
<1>7. coalesced' \in Slots
  BY <1>6, ItemTypes DEF TypeInv
<1>8. credit' \in [Stages -> [Generations -> Nat]]
  BY <1>1, <1>2, LedgerTypes DEF TypeInv
<1>9. leaked' \in [Stages -> [Generations -> Nat]]
  BY <1>1, <1>3, LostTypes DEF TypeInv
<1>10. queue' \in [Stages -> Seq(Items)]
  BY <1>1, <1>4, SocketTypes DEF TypeInv
<1>11. TypeInv'
  BY <1>5, <1>7, <1>8, <1>9, <1>10 DEF TypeInv, FlushCoalesced, gateVars, controlVars, stageVars
<1>12. WorkInv'
  BY <1>6 DEF TypeInv, IngressStates, WorkInv, FlushCoalesced, stageVars
<1>13. GateInv'
  BY DEF GateInv, FlushCoalesced, gateVars, controlVars
<1>14. CommitInv'
  BY DEF CommitInv, Current, FlushCoalesced, gateVars, stageVars
<1> QED
  BY <1>11, <1>12, <1>13, <1>14 DEF BaseInv

\* The capture thread leaves the gate.
LEMMA IngressLeaveBase ==
    ASSUME TypeInv, WorkInv, GateInv, CommitInv, IngressLeave
    PROVE  BaseInv'
<1>1. ingress' \in IngressStates
  BY ItemTypes DEF IngressLeave, IngressStates, TypeInv, WorkInv
<1>2. TypeInv'
  BY <1>1 DEF TypeInv, IngressLeave, gateVars, controlVars, edgeVars, stageVars, history
<1>3. WorkInv'
  BY DEF TypeInv, IngressStates, StageStates, WorkInv, IngressLeave, stageVars
<1>4. GateInv'
  BY DEF TypeInv, DrainStates, GateInv, IngressLeave, gateVars, controlVars
<1>5. CommitInv'
  BY DEF TypeInv, StageStates, GateInv, CommitInv, Current, IngressLeave, gateVars, stageVars
<1> QED
  BY <1>2, <1>3, <1>4, <1>5 DEF BaseInv

\* A message leaves the socket, for the stage or for nothing.
LEMMA ReceiveBase ==
    ASSUME TypeInv, WorkInv, GateInv, CommitInv, NEW s \in Stages, Receive(s)
    PROVE  BaseInv'
<1>1. Head(queue[s]) \in Items /\ Head(queue[s]).gen \in Generations
  BY SocketTypes, ItemTypes DEF Receive
<1>2. stage' = stage \/ (stage[s].at = "idle" /\ stage' = Took(s, Head(queue[s])))
  BY DEF Receive, Took
<1>3. credit' = credit \/ credit' = ReleasedIfAcquired(s, Head(queue[s]).gen)
  BY DEF Receive
<1>4. credit' \in [Stages -> [Generations -> Nat]]
  BY <1>1, <1>3, LedgerTypes
<1>5. queue' \in [Stages -> Seq(Items)]
  BY DEF Receive, TypeInv
<1>6. stage' \in [Stages -> StageStates]
  BY <1>1, <1>2, StageStateTypes
<1>7. TypeInv'
  BY <1>4, <1>5, <1>6
     DEF TypeInv, Receive, gateVars, controlVars, ingressVars, history
<1>8. \A t \in Stages : stage'[t].at # "idle" => stage'[t].item \in Items
  BY <1>1, <1>2, StageStateItems DEF WorkInv
<1>9. WorkInv'
  BY <1>8 DEF WorkInv, Receive, ingressVars
<1>10. GateInv'
  BY DEF GateInv, Receive, gateVars, controlVars
<1>11. stage'[Last].at = "committing" => stage'[Last] = stage[Last]
  <2>1. CASE stage' = Took(s, Head(queue[s]))
    BY <2>1, StageTypes DEF TypeInv, StageStates, Took
  <2> QED
    BY <1>2, <2>1
<1>12. CommitInv'
  BY <1>11 DEF CommitInv, Current, Receive, gateVars
<1> QED
  BY <1>7, <1>9, <1>10, <1>12 DEF BaseInv

\* A stage faults between messages.
LEMMA PollFailsBase ==
    ASSUME TypeInv, WorkInv, GateInv, CommitInv, NEW s \in Stages, PollFails(s)
    PROVE  BaseInv'
<1>1. TypeInv'
  BY DEF TypeInv, PollFails, StageFaults, gateVars, ingressVars, edgeVars, history
<1>2. WorkInv'
  BY DEF TypeInv, IngressStates, StageStates, WorkInv, PollFails, ingressVars
<1>3. GateInv'
  BY DEF GateInv, PollFails, gateVars
<1>4. CommitInv'
  BY DEF TypeInv, StageStates, GateInv, CommitInv, Current, PollFails, gateVars
<1> QED
  BY <1>1, <1>2, <1>3, <1>4 DEF BaseInv

\* The processor of a stage returns.
LEMMA ProcessBase ==
    ASSUME TypeInv, WorkInv, GateInv, CommitInv, NEW s \in Stages, Process(s)
    PROVE  BaseInv'
<1>1. stage[s].at # "idle" /\ (stage' = Went(s, "sending") \/ stage' = Went(s, "finishing"))
  BY DEF Process, Went
<1>2. stage' \in [Stages -> StageStates]
  BY <1>1, StageStateTypes
<1>3. TypeInv'
  BY <1>2 DEF TypeInv, Process, StageFaults, gateVars, ingressVars, edgeVars, history
<1>4. \A t \in Stages : stage'[t].at # "idle" => stage'[t].item \in Items
  BY <1>1, StageStateItems
<1>5. WorkInv'
  BY <1>4 DEF WorkInv, Process, ingressVars
<1>6. GateInv'
  BY DEF GateInv, Process, gateVars
<1>7. CommitInv'
  BY StageTypes DEF TypeInv, StageStates, GateInv, CommitInv, Current, Process, gateVars
<1> QED
  BY <1>3, <1>5, <1>6, <1>7 DEF BaseInv

\* The output goes to the next edge, or nowhere.
LEMMA SendOutputBase ==
    ASSUME TypeInv, WorkInv, GateInv, CommitInv, NEW s \in Stages, SendOutput(s)
    PROVE  BaseInv'
<1>1. stage[s].item \in Items /\ stage[s].item.gen \in Generations /\ s + 1 \in Stages
  BY ItemTypes, StageTypes DEF SendOutput, WorkInv
<1>2. credit' = credit \/ credit' = Acquired(s + 1, stage[s].item.gen)
  BY DEF SendOutput, LeakCredit, edgeVars
<1>3. leaked' = leaked \/ leaked' = Lost(s + 1, stage[s].item.gen)
  BY DEF SendOutput, LeakCredit, Lost
<1>4. queue' = queue \/ queue' = Sent(s + 1, stage[s].item)
  BY DEF SendOutput, edgeVars, Sent
<1>5. credit' \in [Stages -> [Generations -> Nat]]
  BY <1>1, <1>2, LedgerTypes
<1>6. leaked' \in [Stages -> [Generations -> Nat]]
  BY <1>1, <1>3, LostTypes
<1>7. queue' \in [Stages -> Seq(Items)]
  BY <1>1, <1>4, SocketTypes
<1>8. stage' \in [Stages -> StageStates]
  BY DEF SendOutput, StageStates, TypeInv
<1>9. TypeInv'
  BY <1>5, <1>6, <1>7, <1>8 DEF TypeInv, SendOutput, gateVars, ingressVars
<1>10. WorkInv'
  BY DEF TypeInv, StageStates, WorkInv, SendOutput, ingressVars
<1>11. GateInv'
  BY DEF GateInv, SendOutput, gateVars
<1>12. CommitInv'
  BY StageTypes DEF TypeInv, StageStates, CommitInv, Current, SendOutput, gateVars
<1> QED
  BY <1>9, <1>10, <1>11, <1>12 DEF BaseInv

\* The encrypted stage commits only a current generation.
LEMMA PersistBeginBase ==
    ASSUME TypeInv, WorkInv, GateInv, CommitInv, PersistBegin
    PROVE  BaseInv'
<1>1. Last \in Stages /\ stage[Last].at = "processing"
  BY StageTypes DEF PersistBegin
<1>2. \/ stage' = Went(Last, "committing") /\ Current(stage[Last].item.gen)
      \/ stage' = Went(Last, "finishing")
  BY DEF PersistBegin, Went
<1>3. stage' \in [Stages -> StageStates]
  BY <1>1, <1>2, StageStateTypes
<1>4. TypeInv'
  BY <1>3 DEF TypeInv, PersistBegin, gateVars, controlVars, ingressVars, edgeVars, history
<1>5. \A t \in Stages : stage'[t].at # "idle" => stage'[t].item \in Items
  BY <1>1, <1>2, StageStateItems
<1>6. WorkInv'
  BY <1>5 DEF WorkInv, PersistBegin, ingressVars
<1>7. GateInv'
  BY DEF GateInv, PersistBegin, gateVars, controlVars
<1>8. stage'[Last].at = "committing" => Current(stage'[Last].item.gen)
  <2>1. CASE stage' = Went(Last, "finishing")
    BY <1>1, <2>1 DEF TypeInv, StageStates, Went
  <2>2. CASE stage' = Went(Last, "committing") /\ Current(stage[Last].item.gen)
    BY <1>1, <2>2 DEF TypeInv, StageStates, Went
  <2> QED
    BY <1>2, <2>1, <2>2
<1>9. CommitInv'
  BY <1>8 DEF CommitInv, Current, PersistBegin, gateVars
<1> QED
  BY <1>4, <1>6, <1>7, <1>9 DEF BaseInv

\* The commit ends.
LEMMA PersistEndBase ==
    ASSUME TypeInv, WorkInv, GateInv, CommitInv, PersistEnd
    PROVE  BaseInv'
<1>1. stage[Last].item \in Items
  BY StageTypes DEF PersistEnd, WorkInv
<1>2. stage' \in [Stages -> StageStates]
  BY StageTypes
     DEF PersistEnd, StageFaults, StageStates, TypeInv, WorkInv, ingressVars, edgeVars
<1>3. stored' \subseteq Items
  BY <1>1 DEF TypeInv, PersistEnd
<1>4. TypeInv'
  BY <1>2, <1>3 DEF TypeInv, PersistEnd, StageFaults, gateVars, ingressVars, edgeVars
<1>5. WorkInv'
  BY StageTypes DEF TypeInv, IngressStates, StageStates, WorkInv, PersistEnd, ingressVars
<1>6. GateInv'
  BY DEF GateInv, PersistEnd, gateVars
<1>7. CommitInv'
  BY StageTypes DEF TypeInv, StageStates, GateInv, CommitInv, Current, PersistEnd, gateVars
<1> QED
  BY <1>4, <1>5, <1>6, <1>7 DEF BaseInv

\* The stage is idle again.
LEMMA FinishMessageBase ==
    ASSUME TypeInv, WorkInv, GateInv, CommitInv, NEW s \in Stages, FinishMessage(s)
    PROVE  BaseInv'
<1>1. credit' \in [Stages -> [Generations -> Nat]]
  BY LedgerTypes, ItemTypes DEF FinishMessage, TypeInv, WorkInv, ingressVars, history
<1>2. stage' \in [Stages -> StageStates]
  BY ItemTypes DEF FinishMessage, StageStates, TypeInv, WorkInv, ingressVars, history
<1>3. TypeInv'
  BY <1>1, <1>2 DEF TypeInv, FinishMessage, gateVars, controlVars, ingressVars, history
<1>4. WorkInv'
  BY DEF TypeInv, IngressStates, StageStates, WorkInv, FinishMessage, ingressVars
<1>5. GateInv'
  BY DEF GateInv, FinishMessage, gateVars, controlVars
<1>6. CommitInv'
  BY StageTypes DEF TypeInv, StageStates, GateInv, CommitInv, Current, FinishMessage, gateVars
<1> QED
  BY <1>3, <1>4, <1>5, <1>6 DEF BaseInv

\* The socket of a stage is emptied.
LEMMA DrainStageBase ==
    ASSUME TypeInv, WorkInv, GateInv, CommitInv, NEW s \in Stages, DrainStage(s)
    PROVE  BaseInv'
<1>1. credit' \in [Stages -> [Generations -> Nat]]
  BY EdgeCounts DEF DrainStage, TypeInv, WorkInv, ingressVars, history
<1>2. queue' \in [Stages -> Seq(Items)]
  BY SocketTypes DEF DrainStage, TypeInv, WorkInv, ingressVars, history
<1>3. drainAsked' \in [Stages -> BOOLEAN]
  BY DEF DrainStage, TypeInv, WorkInv
<1>4. TypeInv'
  BY <1>1, <1>2, <1>3 DEF TypeInv, DrainStage, gateVars, controlVars, ingressVars, history
<1>5. WorkInv'
  BY DEF TypeInv, IngressStates, StageStates, WorkInv, DrainStage, ingressVars
<1>6. GateInv'
  BY DEF GateInv, DrainStage, gateVars, controlVars
<1>7. CommitInv'
  BY DEF TypeInv, StageStates, GateInv, CommitInv, Current, DrainStage, gateVars
<1> QED
  BY <1>4, <1>5, <1>6, <1>7 DEF BaseInv

\* A start draws a new generation.
LEMMA OpenBase ==
    ASSUME TypeInv, WorkInv, GateInv, CommitInv, Open
    PROVE  BaseInv'
<1>1. /\ epoch' \in 0 .. MaxEpoch /\ active' = epoch' /\ active' # NoGeneration
      /\ state' = "RECORDING" /\ drain' = drain /\ drain.at = "rest"
  BY ConstantTypes DEF TypeInv, Open, Room, NoGeneration, controlVars
<1>2. TypeInv'
  BY <1>1 DEF TypeInv, Open, controlVars, ingressVars, edgeVars, stageVars, history
<1>3. WorkInv'
  BY DEF WorkInv, Open, ingressVars, stageVars
<1>4. active' <= epoch'
  BY <1>1, ConstantTypes
<1>5. GateInv'
  BY <1>1, <1>4 DEF GateInv
<1>6. stage[Last].at # "committing"
  BY DEF CommitInv, Current, Open
<1>7. CommitInv'
  BY <1>6 DEF CommitInv, Open, stageVars
<1> QED
  BY <1>2, <1>3, <1>5, <1>7 DEF BaseInv

\* The gate stays open for the generation.
LEMMA PauseOrResumeBase ==
    ASSUME TypeInv, WorkInv, GateInv, CommitInv, PauseOrResume
    PROVE  BaseInv'
<1>1. state' \in {"OFF", "RECORDING", "PAUSED", "STOPPING", "FAULTED"}
  BY DEF PauseOrResume, TypeInv, WorkInv, GateInv
<1>2. TypeInv'
  BY <1>1 DEF TypeInv, PauseOrResume, controlVars, ingressVars, edgeVars, stageVars, history
<1>3. WorkInv'
  BY DEF TypeInv, IngressStates, StageStates, WorkInv, PauseOrResume, ingressVars, stageVars
<1>4. GateInv'
  BY DEF TypeInv, DrainStates, GateInv, PauseOrResume, controlVars
<1>5. CommitInv'
  BY DEF TypeInv, StageStates, GateInv, CommitInv, Current, PauseOrResume, stageVars
<1> QED
  BY <1>2, <1>3, <1>4, <1>5 DEF BaseInv

\* The generation is invalidated, with the commit lock held.
LEMMA InvalidateBase ==
    ASSUME TypeInv, WorkInv, GateInv, CommitInv, NEW why \in {"stop", "block", "fault"},
           Invalidate(why)
    PROVE  BaseInv'
<1>1. /\ epoch' = epoch + 1 /\ epoch' \in 0 .. MaxEpoch
      /\ active' = IF why = "block" THEN epoch + 1 ELSE 0
  BY ConstantTypes DEF TypeInv, Invalidate, Room, NoGeneration
<1>2. /\ drain' \in DrainStates /\ drain'.why = why /\ drain'.gen = active
      /\ drain'.at \in {"buffers", "cancel"}
  BY RestTypes DEF TypeInv, Invalidate, DrainStates
<1>3. \/ why = "stop" /\ state \in {"RECORDING", "PAUSED"} /\ state' = "STOPPING" /\ Room(2)
      \/ why = "block" /\ state \in {"RECORDING", "PAUSED"} /\ state' = "PAUSED" /\ Room(2)
      \/ why = "fault" /\ state' = "FAULTED"
  BY DEF Invalidate
<1>4. active' \in 0 .. MaxEpoch
  BY <1>1, ConstantTypes
<1>5. TypeInv'
  BY <1>1, <1>2, <1>3, <1>4
     DEF TypeInv, Invalidate, ingressVars, edgeVars, stageVars, history
<1>6. WorkInv'
  BY DEF WorkInv, Invalidate, ingressVars, stageVars
<1>7. why \in {"stop", "block"} =>
        active \in Generations /\ active < epoch' /\ active # active' /\ epoch' < MaxEpoch
  BY <1>1, <1>3, ConstantTypes DEF GateInv, TypeInv, NoGeneration, Generations, Room
<1>8. (active' # NoGeneration <=> state' \in {"RECORDING", "PAUSED"}) /\ active' <= epoch'
  BY <1>1, <1>3, ConstantTypes DEF TypeInv, NoGeneration
<1>9. GateInv'
  BY <1>2, <1>3, <1>7, <1>8 DEF GateInv
<1>10. CommitInv'
  BY DEF CommitInv, Invalidate, CommitLockFree, stageVars
<1> QED
  BY <1>5, <1>6, <1>9, <1>10 DEF BaseInv

\* A told fault changes nothing in FAULTED.
LEMMA FaultAgainBase ==
    ASSUME TypeInv, WorkInv, GateInv, CommitInv, FaultAgain
    PROVE  BaseInv'
<1>1. TypeInv'
  BY DEF TypeInv, FaultAgain, gateVars, ingressVars, edgeVars, stageVars, history
<1>2. WorkInv'
  BY DEF TypeInv, IngressStates, StageStates, WorkInv, FaultAgain, ingressVars, stageVars
<1>3. GateInv'
  BY DEF TypeInv, DrainStates, GateInv, FaultAgain, gateVars
<1>4. CommitInv'
  BY DEF TypeInv, StageStates, GateInv, CommitInv, Current, FaultAgain, gateVars, stageVars
<1> QED
  BY <1>1, <1>2, <1>3, <1>4 DEF BaseInv

\* The drain of a reset begins.
LEMMA StopFaultedBase ==
    ASSUME TypeInv, WorkInv, GateInv, CommitInv, StopFaulted
    PROVE  BaseInv'
<1>1. drain' \in DrainStates /\ drain'.why = "reset" /\ drain'.at = "buffers"
  BY RestTypes DEF StopFaulted, DrainStates
<1>2. TypeInv'
  BY <1>1 DEF TypeInv, StopFaulted, gateVars, ingressVars, edgeVars, stageVars, history
<1>3. WorkInv'
  BY DEF WorkInv, StopFaulted, ingressVars, stageVars
<1>4. GateInv'
  BY <1>1 DEF GateInv, StopFaulted, gateVars
<1>5. CommitInv'
  BY DEF CommitInv, Current, StopFaulted, gateVars, stageVars
<1> QED
  BY <1>2, <1>3, <1>4, <1>5 DEF BaseInv

\* The drain announces the cancellation and clears the slot.
LEMMA DrainCancelBase ==
    ASSUME TypeInv, WorkInv, GateInv, CommitInv, DrainCancel
    PROVE  BaseInv'
<1>1. drain' \in DrainStates
  BY DEF DrainCancel, ClearCoalesced, DrainStates, TypeInv, WorkInv
<1>2. coalesced' \in Slots
  BY ItemTypes DEF DrainCancel, ClearCoalesced, TypeInv, WorkInv, edgeVars, stageVars, history
<1>3. TypeInv'
  BY <1>1, <1>2 DEF TypeInv, DrainCancel, ClearCoalesced, gateVars, edgeVars, stageVars, history
<1>4. WorkInv'
  BY DEF TypeInv, IngressStates, StageStates, WorkInv, DrainCancel, ClearCoalesced, stageVars
<1>5. GateInv'
  BY DEF TypeInv, DrainStates, GateInv, DrainCancel, ClearCoalesced, gateVars
<1>6. CommitInv'
  BY DEF TypeInv, StageStates, GateInv, CommitInv, Current, DrainCancel, ClearCoalesced,
     gateVars, stageVars
<1> QED
  BY <1>3, <1>4, <1>5, <1>6 DEF BaseInv

\* The drain waits.
LEMMA DrainWaitsBase ==
    ASSUME TypeInv, WorkInv, GateInv, CommitInv, DrainWaits
    PROVE  BaseInv'
<1>1. drain' \in DrainStates
  <2>1. drain \in DrainStates
    BY DEF TypeInv
  <2>2. CASE \E a \in {"credits", "slot empty"} : drain' = [drain EXCEPT !.at = a]
    BY <2>1, <2>2 DEF DrainStates
  <2>3. CASE \E b \in BOOLEAN : drain' = [drain EXCEPT !.at = "buffers", !.bad = b]
    BY <2>1, <2>3 DEF DrainStates
  <2>4. CASE drain.edge # Last /\ drain' = [drain EXCEPT !.edge = drain.edge + 1]
    <3>1. drain.edge + 1 \in Stages
      BY <2>1, <2>4, StageTypes DEF DrainStates
    <3> QED BY <2>1, <2>4, <3>1 DEF DrainStates
  <2>5. (coalesced.gen = drain.gen) \in BOOLEAN /\ TRUE \in BOOLEAN
    OBVIOUS
  <2> QED BY <2>2, <2>3, <2>4, <2>5 DEF DrainWaits
<1>2. TypeInv'
  BY <1>1 DEF TypeInv, DrainWaits, gateVars, ingressVars, edgeVars, stageVars, history
<1>3. WorkInv'
  BY DEF TypeInv, IngressStates, StageStates, WorkInv, DrainWaits, ingressVars, stageVars
<1>4. GateInv'
  BY DEF TypeInv, DrainStates, GateInv, DrainWaits, gateVars
<1>5. CommitInv'
  BY DEF TypeInv, StageStates, GateInv, CommitInv, Current, DrainWaits, gateVars, stageVars
<1> QED
  BY <1>2, <1>3, <1>4, <1>5 DEF BaseInv

\* The drain asks the stages to empty their sockets.
LEMMA DrainBuffersBase ==
    ASSUME TypeInv, WorkInv, GateInv, CommitInv, DrainBuffers
    PROVE  BaseInv'
<1>1. /\ drain' \in DrainStates /\ drain'.at = "stages" /\ drain.at # "rest"
      /\ drain'.why = drain.why /\ drain'.gen = drain.gen
  <2>1. CASE drain.at = "buffers"
    BY <2>1, StageTypes DEF DrainBuffers, TypeInv, DrainStates
  <2>2. CASE drain.at = "stages"
    <3>1. drain.edge \in Stages /\ drain.edge > 1
      BY <2>2 DEF DrainBuffers, TypeInv, DrainStates
    <3>2. drain.edge - 1 \in Stages
      BY <3>1, ConstantTypes DEF Stages
    <3> QED
      BY <2>2, <3>2 DEF DrainBuffers, TypeInv, DrainStates
  <2> QED
    BY <2>1, <2>2 DEF DrainBuffers
<1>2. coalesced' \in {coalesced, NoItem}
  BY DEF DrainBuffers, ClearCoalesced
<1>3. drainAsked' \in [Stages -> BOOLEAN]
  BY DEF DrainBuffers, TypeInv
<1>4. TypeInv'
  BY <1>1, <1>2, <1>3, ItemTypes
     DEF TypeInv, DrainBuffers, gateVars, edgeVars, history
<1>5. WorkInv'
  BY <1>2 DEF WorkInv, DrainBuffers
<1>6. GateInv'
  BY <1>1 DEF GateInv, DrainBuffers, gateVars
<1>7. CommitInv'
  BY DEF CommitInv, Current, DrainBuffers, gateVars
<1> QED
  BY <1>4, <1>5, <1>6, <1>7 DEF BaseInv

\* The drain is over: the gate is closed, or open for a new generation.
LEMMA DrainEndsBase ==
    ASSUME TypeInv, WorkInv, GateInv, CommitInv, DrainEnds
    PROVE  BaseInv'
<1>1. drain' = AtRest /\ drain.at = "stages"
  BY DEF DrainEnds, Conclude
<1>2. \/ /\ drain.why \in {"stop", "block"} /\ CommitLockFree
         /\ state' = "FAULTED" /\ active' = NoGeneration /\ epoch' = epoch + 1
      \/ drain.why \in {"stop", "reset"} /\ state' = "OFF" /\ UNCHANGED <<active, epoch>>
      \/ drain.why # "stop" /\ UNCHANGED <<state, active, epoch>>
  BY DEF DrainEnds, Conclude, gateVars
<1>3. state' \in {"OFF", "RECORDING", "PAUSED", "STOPPING", "FAULTED"}
  BY <1>2 DEF TypeInv
<1>4. active' \in 0 .. MaxEpoch /\ epoch' \in 0 .. MaxEpoch /\ active' <= epoch'
  BY <1>1, <1>2, ConstantTypes DEF TypeInv, GateInv, NoGeneration
<1>5. TypeInv'
  BY <1>1, <1>3, <1>4, RestTypes DEF TypeInv, DrainEnds, ingressVars, edgeVars, stageVars, history
<1>6. WorkInv'
  BY DEF WorkInv, DrainEnds, ingressVars, stageVars
<1>7. (active' # NoGeneration <=> state' \in {"RECORDING", "PAUSED"}) /\ state' # "STOPPING"
  BY <1>1, <1>2 DEF GateInv, TypeInv, DrainStates
<1>8. GateInv'
  BY <1>1, <1>4, <1>7, RestTypes DEF GateInv
<1>9. CommitInv'
  BY <1>1, <1>2 DEF CommitInv, Current, CommitLockFree, GateInv, DrainEnds, stageVars
<1> QED
  BY <1>5, <1>6, <1>8, <1>9 DEF BaseInv

\* The gate is closed and nobody works.
LEMMA BaseInit ==
    ASSUME Init
    PROVE  BaseInv
<1>1. TypeInv
  BY ConstantTypes, ItemTypes, RestTypes, StageTypes
     DEF Init, TypeInv, IngressStates, StageStates, NoGeneration
<1>2. WorkInv
  BY DEF Init, WorkInv
<1>3. GateInv
  BY RestTypes DEF Init, GateInv, NoGeneration
<1>4. CommitInv
  BY StageTypes DEF Init, CommitInv
<1> QED
  BY <1>1, <1>2, <1>3, <1>4 DEF BaseInv

\* Nothing happens.
LEMMA StutterBase ==
    ASSUME BaseInv, UNCHANGED vars
    PROVE  BaseInv'
<1> USE DEF BaseInv, vars, gateVars, controlVars, ingressVars, edgeVars, stageVars, history
<1>1. TypeInv'
  BY DEF TypeInv
<1>2. WorkInv'
  BY DEF WorkInv
<1>3. GateInv'
  BY DEF GateInv
<1>4. CommitInv'
  BY DEF CommitInv, Current
<1> QED
  BY <1>1, <1>2, <1>3, <1>4

\* Every step keeps the types, the work and the gate.
LEMMA BaseNext ==
    ASSUME BaseInv, [Next]_vars
    PROVE  BaseInv'
<1> USE DEF BaseInv
<1>1. CASE SubmitBegin
  BY <1>1, SubmitBeginBase
<1>2. CASE SubmitCheck
  BY <1>2, SubmitCheckBase
<1>3. CASE SubmitOffer
  BY <1>3, SubmitOfferBase
<1>4. CASE FlushBegin
  BY <1>4, FlushBeginBase
<1>5. CASE FlushCoalesced
  BY <1>5, FlushCoalescedBase
<1>6. CASE IngressLeave
  BY <1>6, IngressLeaveBase
<1>7. ASSUME NEW s \in Stages, Receive(s) PROVE BaseInv'
  BY <1>7, ReceiveBase
<1>8. ASSUME NEW s \in Stages, PollFails(s) PROVE BaseInv'
  BY <1>8, PollFailsBase
<1>9. ASSUME NEW s \in Stages, Process(s) PROVE BaseInv'
  BY <1>9, ProcessBase
<1>10. ASSUME NEW s \in Stages, SendOutput(s) PROVE BaseInv'
  BY <1>10, SendOutputBase
<1>11. CASE PersistBegin
  BY <1>11, PersistBeginBase
<1>12. CASE PersistEnd
  BY <1>12, PersistEndBase
<1>13. ASSUME NEW s \in Stages, FinishMessage(s) PROVE BaseInv'
  BY <1>13, FinishMessageBase
<1>14. ASSUME NEW s \in Stages, DrainStage(s) PROVE BaseInv'
  BY <1>14, DrainStageBase
<1>15. CASE Open
  BY <1>15, OpenBase
<1>16. CASE PauseOrResume
  BY <1>16, PauseOrResumeBase
<1>17. ASSUME NEW why \in {"stop", "block", "fault"}, Invalidate(why) PROVE BaseInv'
  BY <1>17, InvalidateBase
<1>18. CASE FaultAgain
  BY <1>18, FaultAgainBase
<1>19. CASE StopFaulted
  BY <1>19, StopFaultedBase
<1>20. CASE DrainCancel
  BY <1>20, DrainCancelBase
<1>21. CASE DrainWaits
  BY <1>21, DrainWaitsBase
<1>22. CASE DrainBuffers
  BY <1>22, DrainBuffersBase
<1>23. CASE DrainEnds
  BY <1>23, DrainEndsBase
<1>24. CASE UNCHANGED vars
  BY <1>24, StutterBase
<1> HIDE DEF BaseInv
<1> QED
  BY <1>1, <1>2, <1>3, <1>4, <1>5, <1>6, <1>7, <1>8, <1>9, <1>10, <1>11, <1>12, <1>13, <1>14,
     <1>15, <1>16, <1>17, <1>18, <1>19, <1>20, <1>21, <1>22, <1>23, <1>24
     DEF Next, IngressStep, StageStep, MessageStep, DrainStep

\* The gate and the work of every thread agree in every behaviour.
THEOREM BaseInvariance == Spec => []BaseInv
<1>1. Init => BaseInv
  BY BaseInit
<1>2. BaseInv /\ [Next]_vars => BaseInv'
  BY BaseNext
<1> QED
  BY <1>1, <1>2, PTL DEF Spec

-----------------------------------------------------------------------------
(* Counting messages and credits.                                          *)

\* A message more at the end of a socket, one less at its head, none left.
LEMMA PositionsFinite ==
    ASSUME NEW q \in Seq(Items), NEW g
    PROVE  IsFiniteSet(Positions(q, g)) /\ Cardinality(Positions(q, g)) \in Nat
<1>1. IsFiniteSet(1 .. Len(q))
  BY FS_Interval
<1>2. IsFiniteSet(Positions(q, g))
  BY <1>1, FS_Subset DEF Positions
<1> QED
  BY <1>2, FS_CardinalityType

\* A message sent counts for its generation.
LEMMA PositionsAppend ==
    ASSUME NEW q \in Seq(Items), NEW x \in Items, NEW g
    PROVE  Cardinality(Positions(Append(q, x), g)) =
              Cardinality(Positions(q, g)) + (IF x.gen = g THEN 1 ELSE 0)
<1>1. Len(q) + 1 \notin Positions(q, g)
  BY DEF Positions
<1>2. CASE x.gen = g
  <2>1. Positions(Append(q, x), g) = Positions(q, g) \cup {Len(q) + 1}
    BY <1>2 DEF Positions
  <2> QED
    BY <1>1, <1>2, <2>1, PositionsFinite, FS_AddElement, ZenonT(40)
<1>3. CASE x.gen # g
  <2>1. Positions(Append(q, x), g) = Positions(q, g)
    BY <1>3 DEF Positions
  <2> QED
    BY <1>3, <2>1, PositionsFinite
<1> QED
  BY <1>2, <1>3

\* A message taken no longer counts: the other positions move down by one.
LEMMA PositionsTail ==
    ASSUME NEW q \in Seq(Items), q # << >>, NEW g
    PROVE  Cardinality(Positions(q, g)) =
              Cardinality(Positions(Tail(q), g)) + (IF Head(q).gen = g THEN 1 ELSE 0)
<1> DEFINE S == Positions(q, g) \ {1}
           T == Positions(Tail(q), g)
           F == [i \in S |-> i - 1]
<1>1. /\ Tail(q) \in Seq(Items) /\ Len(q) \in Nat \ {0} /\ Len(Tail(q)) = Len(q) - 1
      /\ Head(q) = q[1] /\ \A i \in 1 .. (Len(q) - 1) : Tail(q)[i] = q[i + 1]
  OBVIOUS
<1>2. F \in [S -> T]
  BY <1>1 DEF Positions
<1>3. \A i, j \in S : F[i] = F[j] => i = j
  BY <1>1 DEF Positions
<1>4. \A t \in T : \E i \in S : F[i] = t
  <2> SUFFICES ASSUME NEW t \in T
               PROVE  t + 1 \in S /\ F[t + 1] = t
    OBVIOUS
  <2>1. t \in 1 .. (Len(q) - 1) /\ q[t + 1].gen = g
    BY <1>1 DEF Positions
  <2>2. t + 1 \in S
    BY <2>1, <1>1 DEF Positions
  <2> QED
    BY <2>1, <2>2
<1>5. F \in Bijection(S, T)
  BY <1>2, <1>3, <1>4, Fun_IsBij
<1>6. ExistsBijection(S, T)
  BY <1>5 DEF ExistsBijection
<1>7. IsFiniteSet(Positions(q, g)) /\ Cardinality(Positions(q, g)) \in Nat
  BY PositionsFinite
<1>8. IsFiniteSet(S)
     /\ Cardinality(S) = IF 1 \in Positions(q, g) THEN Cardinality(Positions(q, g)) - 1
                                                  ELSE Cardinality(Positions(q, g))
  BY <1>7, FS_RemoveElement, Zenon
<1>9. Cardinality(T) = Cardinality(S)
  BY <1>6, <1>8, FS_Bijection
<1>10. 1 \in Positions(q, g) <=> Head(q).gen = g
  BY <1>1 DEF Positions
<1> HIDE DEF S, T, F
<1> QED
  BY <1>7, <1>8, <1>9, <1>10 DEF T

\* An empty socket counts nothing.
LEMMA PositionsEmpty ==
    ASSUME NEW g
    PROVE  Cardinality(Positions(<< >>, g)) = 0
<1>1. Positions(<< >>, g) = {}
  BY DEF Positions
<1> QED
  BY <1>1, FS_EmptySet

\* A credit more and a credit less.
LEMMA CreditMore ==
    ASSUME NEW c \in [Generations -> Nat], NEW g \in Generations, IsFiniteSet(CreditsOf(c))
    PROVE  LET d == [c EXCEPT ![g] = @ + 1]
           IN  /\ IsFiniteSet(CreditsOf(d))
               /\ Cardinality(CreditsOf(d)) = Cardinality(CreditsOf(c)) + 1
<1> DEFINE d == [c EXCEPT ![g] = @ + 1]
           new == <<g, c[g] + 1>>
<1>1. new \notin CreditsOf(c)
  BY DEF CreditsOf
<1>2. CreditsOf(d) = CreditsOf(c) \cup {new}
  <2>1. ASSUME NEW e \in CreditsOf(d) PROVE e \in CreditsOf(c) \cup {new}
    <3>1. PICK h \in Generations : e \in {h} \X (1 .. d[h])
      BY <2>1 DEF CreditsOf
    <3>2. CASE h = g
      <4>1. PICK n \in 1 .. (c[g] + 1) : e = <<g, n>>
        BY <3>1, <3>2
      <4> QED
        BY <4>1 DEF CreditsOf
    <3>3. CASE h # g
      BY <3>1, <3>3 DEF CreditsOf
    <3> QED
      BY <3>2, <3>3
  <2>2. ASSUME NEW e \in CreditsOf(c) \cup {new} PROVE e \in CreditsOf(d)
    <3>1. CASE e = new
      BY <3>1 DEF CreditsOf
    <3>2. CASE e \in CreditsOf(c)
      <4>1. PICK h \in Generations : e \in {h} \X (1 .. c[h])
        BY <3>2 DEF CreditsOf
      <4>2. 1 .. c[h] \subseteq 1 .. d[h]
        OBVIOUS
      <4> QED
        BY <4>1, <4>2 DEF CreditsOf
    <3> QED
      BY <2>2, <3>1, <3>2
  <2> QED
    BY <2>1, <2>2
<1> HIDE DEF new, d
<1>3. IsFiniteSet(CreditsOf(d)) /\ Cardinality(CreditsOf(d)) = Cardinality(CreditsOf(c)) + 1
  BY <1>1, <1>2, FS_AddElement
<1> QED
  BY <1>3 DEF d

\* A ledger with fewer credits of every generation has no more in use.
LEMMA CreditsFewer ==
    ASSUME NEW c \in [Generations -> Nat], NEW d \in [Generations -> Nat],
           IsFiniteSet(CreditsOf(c)), \A g \in Generations : d[g] <= c[g]
    PROVE  /\ IsFiniteSet(CreditsOf(d))
           /\ Cardinality(CreditsOf(d)) <= Cardinality(CreditsOf(c))
<1>1. CreditsOf(d) \subseteq CreditsOf(c)
  <2> SUFFICES ASSUME NEW e \in CreditsOf(d)
               PROVE  e \in CreditsOf(c)
    OBVIOUS
  <2>1. PICK h \in Generations : e \in {h} \X (1 .. d[h])
    BY DEF CreditsOf
  <2>2. 1 .. d[h] \subseteq 1 .. c[h]
    OBVIOUS
  <2> QED
    BY <2>1, <2>2 DEF CreditsOf
<1> QED
  BY <1>1, FS_Subset

\* A credit released is one less in use.
LEMMA CreditLess ==
    ASSUME NEW c \in [Generations -> Nat], NEW g \in Generations, c[g] > 0,
           IsFiniteSet(CreditsOf(c))
    PROVE  LET d == [c EXCEPT ![g] = IF @ > 0 THEN @ - 1 ELSE 0]
           IN  /\ IsFiniteSet(CreditsOf(d))
               /\ Cardinality(CreditsOf(c)) = Cardinality(CreditsOf(d)) + 1
<1> DEFINE d == [c EXCEPT ![g] = IF @ > 0 THEN @ - 1 ELSE 0]
           b == [d EXCEPT ![g] = @ + 1]
<1>1. d \in [Generations -> Nat] /\ \A h \in Generations : d[h] <= c[h]
  OBVIOUS
<1>2. b = c
  <2>1. b \in [Generations -> Nat] /\ \A h \in Generations : b[h] = c[h]
    OBVIOUS
  <2> QED
    BY <2>1 DEF b
<1> HIDE DEF d
<1>3. IsFiniteSet(CreditsOf(d))
  BY <1>1, CreditsFewer
<1>4. Cardinality(CreditsOf(b)) = Cardinality(CreditsOf(d)) + 1
  BY <1>1, <1>3, CreditMore
<1>5. IsFiniteSet(CreditsOf(d)) /\ Cardinality(CreditsOf(c)) = Cardinality(CreditsOf(d)) + 1
  BY <1>2, <1>3, <1>4
<1> QED
  BY <1>5 DEF d

\* A ledger without credits has none in use.
LEMMA CreditsNone ==
    ASSUME NEW c \in [Generations -> Nat], \A g \in Generations : c[g] = 0
    PROVE  IsFiniteSet(CreditsOf(c)) /\ Cardinality(CreditsOf(c)) = 0
<1>1. CreditsOf(c) = {}
  BY DEF CreditsOf
<1> QED
  BY <1>1, FS_EmptySet

-----------------------------------------------------------------------------
(* What a step does to the edges.                                          *)

\* A message enters edge s with a credit; a credit of edge s is lost; the edges
\* stay as they are; the stages keep what they work on.
Enters(s, x) ==
    HasCredit(s) /\ credit' = Acquired(s, x.gen) /\ queue' = Sent(s, x) /\ leaked' = leaked
Leaks(s, g) ==
    HasCredit(s) /\ credit' = Acquired(s, g) /\ queue' = queue /\ leaked' = Lost(s, g)
Steady == UNCHANGED <<credit, queue, leaked>>
SameWork ==
    \A s \in Stages : /\ stage'[s].at = "idle" <=> stage[s].at = "idle"
                      /\ stage'[s].item = stage[s].item

\* Who sends a message of generation g to edge s.
From(s, g) == IF s = 1 THEN InGate(g) ELSE s - 1 \in Stages /\ Held(s - 1, g)

\* Every step is one of these, or a stage takes, finishes or drains messages.
LEMMA EdgeEffects ==
    ASSUME BaseInv, [Next]_vars
    PROVE  \/ SameWork /\ Steady
           \/ SameWork /\ \E s \in Stages, x \in Items : Enters(s, x) /\ From(s, x.gen)
           \/ SameWork /\ \E s \in Stages, g \in Generations : Leaks(s, g) /\ From(s, g)
           \/ \E s \in Stages : Receive(s) \/ FinishMessage(s) \/ DrainStage(s)
<1> DEFINE Goal == \/ SameWork /\ Steady
                   \/ SameWork /\ \E s \in Stages, x \in Items : Enters(s, x) /\ From(s, x.gen)
                   \/ SameWork /\ \E s \in Stages, g \in Generations : Leaks(s, g) /\ From(s, g)
                   \/ \E s \in Stages : Receive(s) \/ FinishMessage(s) \/ DrainStage(s)
<1>0. TypeInv /\ WorkInv
  BY DEF BaseInv
<1>1. CASE SubmitOffer
  <2>1. SameWork
    BY <1>1 DEF SubmitOffer, stageVars, SameWork
  <2>2. ingress.item \in Items /\ ingress.item.gen \in Generations /\ 1 \in Stages
    BY <1>0, <1>1, ItemTypes, StageTypes DEF SubmitOffer, WorkInv
  <2>3. From(1, ingress.item.gen)
    BY <1>1 DEF SubmitOffer, From, InGate
  <2>4. Steady \/ Enters(1, ingress.item) \/ Leaks(1, ingress.item.gen)
    BY <1>1 DEF SubmitOffer, LeakCredit, edgeVars, Steady, Enters, Leaks, Sent, Lost
  <2> QED
    BY <2>1, <2>2, <2>3, <2>4
<1>2. CASE FlushCoalesced
  <2>1. SameWork
    BY <1>2 DEF FlushCoalesced, stageVars, SameWork
  <2>2. (coalesced # NoItem => coalesced \in Items /\ coalesced.gen \in Generations) /\ 1 \in Stages
    BY <1>0, ItemTypes, StageTypes DEF WorkInv
  <2>3. coalesced.gen = ingress.item.gen => From(1, coalesced.gen)
    BY <1>2 DEF FlushCoalesced, From, InGate
  <2>4. \/ Steady
        \/ /\ coalesced # NoItem /\ coalesced.gen = ingress.item.gen
           /\ Enters(1, coalesced) \/ Leaks(1, coalesced.gen)
    BY <1>2 DEF FlushCoalesced, LeakCredit, edgeVars, Steady, Enters, Leaks, Sent, Lost
  <2> QED
    BY <2>1, <2>2, <2>3, <2>4
<1>3. ASSUME NEW s \in Stages, SendOutput(s) PROVE Goal
  <2>1. SameWork
    BY <1>0, <1>3 DEF SendOutput, SameWork, TypeInv, StageStates
  <2>2. stage[s].item \in Items /\ stage[s].item.gen \in Generations /\ s + 1 \in Stages
    BY <1>0, <1>3, ItemTypes, StageTypes DEF SendOutput, WorkInv
  <2>3. From(s + 1, stage[s].item.gen)
    <3>1. s + 1 # 1 /\ (s + 1) - 1 = s
      BY <1>3 DEF Stages
    <3> QED
      BY <1>3, <3>1 DEF SendOutput, From, Held
  <2>4. Steady \/ Enters(s + 1, stage[s].item) \/ Leaks(s + 1, stage[s].item.gen)
    BY <1>3 DEF SendOutput, LeakCredit, edgeVars, Steady, Enters, Leaks, Sent, Lost
  <2> QED
    BY <2>1, <2>2, <2>3, <2>4
<1>4. ASSUME NEW s \in Stages, Process(s) PROVE Goal
  <2>1. stage[s].at # "idle" /\ (stage' = Went(s, "sending") \/ stage' = Went(s, "finishing"))
    BY <1>4 DEF Process, Went
  <2>2. SameWork
    <3>1. CASE stage' = Went(s, "sending")
      BY <1>0, <2>1, <3>1 DEF SameWork, TypeInv, StageStates, Went
    <3>2. CASE stage' = Went(s, "finishing")
      BY <1>0, <2>1, <3>2 DEF SameWork, TypeInv, StageStates, Went
    <3> QED
      BY <2>1, <3>1, <3>2
  <2> QED
    BY <1>4, <2>2 DEF Process, Steady, edgeVars, history
<1>5. CASE PersistBegin
  <2>1. /\ stage[Last].at # "idle"
        /\ stage' = Went(Last, "committing") \/ stage' = Went(Last, "finishing")
    BY <1>5 DEF PersistBegin, Went
  <2>2. SameWork
    <3>1. CASE stage' = Went(Last, "committing")
      BY <1>0, <2>1, <3>1, StageTypes DEF SameWork, TypeInv, StageStates, Went
    <3>2. CASE stage' = Went(Last, "finishing")
      BY <1>0, <2>1, <3>2, StageTypes DEF SameWork, TypeInv, StageStates, Went
    <3> QED
      BY <2>1, <3>1, <3>2
  <2> QED
    BY <1>5, <2>2 DEF PersistBegin, Steady, edgeVars, history
<1>6. CASE PersistEnd
  <2>1. SameWork
    BY <1>0, <1>6, StageTypes DEF PersistEnd, SameWork, TypeInv, StageStates
  <2> QED
    BY <1>6, <2>1 DEF PersistEnd, Steady, edgeVars
<1>7. ASSUME NEW s \in Stages, PollFails(s) PROVE Goal
  BY <1>7 DEF PollFails, SameWork, Steady, edgeVars, history
<1>8. CASE SubmitBegin \/ SubmitCheck \/ FlushBegin \/ IngressLeave
  BY <1>8 DEF SubmitBegin, SubmitCheck, FlushBegin, IngressLeave, SameWork, Steady, edgeVars,
              stageVars, history
<1>9. CASE Open \/ PauseOrResume \/ FaultAgain \/ StopFaulted
  BY <1>9 DEF Open, PauseOrResume, FaultAgain, StopFaulted, SameWork, Steady, edgeVars, stageVars,
              history
<1>10. ASSUME NEW why \in {"stop", "block", "fault"}, Invalidate(why) PROVE Goal
  BY <1>10 DEF Invalidate, SameWork, Steady, edgeVars, stageVars, history
<1>11. CASE DrainStep
  BY <1>11 DEF DrainStep, DrainCancel, DrainWaits, DrainBuffers, DrainEnds, SameWork, Steady,
               edgeVars, stageVars, history
<1>12. CASE UNCHANGED vars
  BY <1>12 DEF vars, SameWork, Steady, edgeVars, stageVars, history
<1> HIDE DEF Goal
<1>13. ASSUME NEW s \in Stages, Receive(s) \/ FinishMessage(s) \/ DrainStage(s) PROVE Goal
  BY <1>13 DEF Goal
<1> QED
  BY <1>1, <1>2, <1>3, <1>4, <1>5, <1>6, <1>7, <1>8, <1>9, <1>10, <1>11, <1>12, <1>13
     DEF Next, IngressStep, StageStep, MessageStep, Goal

-----------------------------------------------------------------------------
(* The ledgers are exact.                                                  *)

\* How the ledgers change.
LEMMA AcquiredCounts ==
    ASSUME TypeInv, NEW s \in Stages, NEW g \in Generations, credit' = Acquired(s, g),
           NEW t \in Stages, NEW h \in Generations
    PROVE  credit'[t][h] = credit[t][h] + (IF t = s /\ h = g THEN 1 ELSE 0)
BY DEF TypeInv, Acquired

\* A released credit counts for its stage and generation.
LEMMA ReleasedCounts ==
    ASSUME TypeInv, NEW s \in Stages, NEW g \in Generations, credit' = ReleasedIfAcquired(s, g),
           credit[s][g] > 0, NEW t \in Stages, NEW h \in Generations
    PROVE  credit[t][h] = credit'[t][h] + (IF t = s /\ h = g THEN 1 ELSE 0)
BY DEF TypeInv, ReleasedIfAcquired

\* How the counts of messages change.
LEMMA SentCounts ==
    ASSUME TypeInv, NEW s \in Stages, NEW x \in Items, queue' = Sent(s, x),
           NEW t \in Stages, NEW h \in Generations
    PROVE  OnEdge(t, h)' = OnEdge(t, h) + (IF t = s /\ h = x.gen THEN 1 ELSE 0)
<1>1. /\ OnEdge(t, h) = Cardinality(Positions(queue[t], h))
      /\ OnEdge(t, h)' = Cardinality(Positions(queue'[t], h))
  BY DEF OnEdge, Positions
<1>2. queue[t] \in Seq(Items) /\ Cardinality(Positions(queue[t], h)) \in Nat
  BY PositionsFinite DEF TypeInv
<1>3. CASE t = s
  <2>1. queue'[t] = Append(queue[t], x)
    BY <1>3 DEF TypeInv, Sent
  <2> QED
    BY <1>1, <1>2, <1>3, <2>1, PositionsAppend
<1>4. CASE t # s
  <2>1. queue'[t] = queue[t]
    BY <1>4 DEF TypeInv, Sent
  <2> QED
    BY <1>1, <1>2, <1>4, <2>1
<1> QED
  BY <1>3, <1>4

\* The message taken counts for its stage and generation.
LEMMA ReceivedCounts ==
    ASSUME TypeInv, NEW s \in Stages, Receive(s), NEW t \in Stages, NEW h \in Generations
    PROVE  OnEdge(t, h) = OnEdge(t, h)' + (IF t = s /\ h = Head(queue[s]).gen THEN 1 ELSE 0)
           /\ OnEdge(t, h)' \in Nat
<1>1. /\ OnEdge(t, h) = Cardinality(Positions(queue[t], h))
      /\ OnEdge(t, h)' = Cardinality(Positions(queue'[t], h))
  BY DEF OnEdge, Positions
<1>2. queue[t] \in Seq(Items) /\ queue[s] # << >>
  BY DEF TypeInv, Receive
<1>3. CASE t = s
  <2>1. queue'[t] = Tail(queue[t])
    BY <1>3 DEF TypeInv, Receive
  <2>2. queue'[t] \in Seq(Items)
    BY <1>2, <1>3, <2>1
  <2>3. Cardinality(Positions(queue'[t], h)) \in Nat
    BY <2>2, PositionsFinite
  <2> QED
    BY <1>1, <1>2, <1>3, <2>1, <2>3, PositionsTail
<1>4. CASE t # s
  <2>1. queue'[t] = queue[t]
    BY <1>4 DEF TypeInv, Receive
  <2> QED
    BY <1>1, <1>2, <1>4, <2>1, PositionsFinite
<1> QED
  BY <1>3, <1>4

\* A drained socket counts nothing.
LEMMA DrainedCounts ==
    ASSUME TypeInv, NEW s \in Stages, DrainStage(s), NEW t \in Stages, NEW h \in Generations
    PROVE  OnEdge(t, h)' = IF t = s THEN 0 ELSE OnEdge(t, h)
<1>1. /\ OnEdge(t, h) = Cardinality(Positions(queue[t], h))
      /\ OnEdge(t, h)' = Cardinality(Positions(queue'[t], h))
  BY DEF OnEdge, Positions
<1>2. queue'[t] = IF t = s THEN << >> ELSE queue[t]
  BY DEF TypeInv, DrainStage
<1> QED
  BY <1>1, <1>2, PositionsEmpty

\* The count of one edge and one generation.
Exact(s, g) == credit[s][g] = OnEdge(s, g) + (IF Held(s, g) THEN 1 ELSE 0) + leaked[s][g]

\* Every step keeps the ledgers exact: each credit moves with its message.
LEMMA ExactNext ==
    ASSUME BaseInv, CreditsExact, [Next]_vars
    PROVE  CreditsExact'
<1>0. TypeInv /\ WorkInv
  BY DEF BaseInv
<1> SUFFICES ASSUME NEW t \in Stages, NEW h \in Generations
             PROVE  Exact(t, h)'
  BY DEF CreditsExact, Exact
<1>1. /\ Exact(t, h)
      /\ OnEdge(t, h) \in Nat /\ credit[t][h] \in Nat /\ leaked[t][h] \in Nat
  BY <1>0, EdgeCounts DEF CreditsExact, Exact, TypeInv
<1>2. SameWork => (Held(t, h)' <=> Held(t, h))
  BY DEF SameWork, Held
<1>3. CASE SameWork /\ Steady
  <2>1. OnEdge(t, h)' = OnEdge(t, h) /\ credit' = credit /\ leaked' = leaked
    BY <1>3 DEF Steady, OnEdge
  <2> QED
    BY <1>1, <1>2, <1>3, <2>1 DEF Exact
<1>4. ASSUME SameWork, NEW s \in Stages, NEW x \in Items, Enters(s, x) PROVE Exact(t, h)'
  <2>1. x.gen \in Generations
    BY ItemTypes
  <2>2. credit'[t][h] = credit[t][h] + (IF t = s /\ h = x.gen THEN 1 ELSE 0)
    BY <1>0, <1>4, <2>1, AcquiredCounts DEF Enters
  <2>3. OnEdge(t, h)' = OnEdge(t, h) + (IF t = s /\ h = x.gen THEN 1 ELSE 0)
    BY <1>0, <1>4, SentCounts DEF Enters
  <2>4. leaked'[t][h] = leaked[t][h]
    BY <1>4 DEF Enters
  <2> QED
    BY <1>1, <1>2, <1>4, <2>2, <2>3, <2>4 DEF Exact
<1>5. ASSUME SameWork, NEW s \in Stages, NEW g \in Generations, Leaks(s, g) PROVE Exact(t, h)'
  <2>1. credit'[t][h] = credit[t][h] + (IF t = s /\ h = g THEN 1 ELSE 0)
    BY <1>0, <1>5, AcquiredCounts DEF Leaks
  <2>2. OnEdge(t, h)' = OnEdge(t, h)
    BY <1>5 DEF Leaks, OnEdge
  <2>3. leaked'[t][h] = leaked[t][h] + (IF t = s /\ h = g THEN 1 ELSE 0)
    BY <1>0, <1>5 DEF Leaks, Lost, TypeInv
  <2> QED
    BY <1>1, <1>2, <1>5, <2>1, <2>2, <2>3 DEF Exact
<1>6. ASSUME NEW s \in Stages, Receive(s) PROVE Exact(t, h)'
  <2> DEFINE g == Head(queue[s]).gen
  <2>1. g \in Generations /\ stage[s].at = "idle" /\ leaked' = leaked
    BY <1>0, <1>6, SocketTypes, ItemTypes DEF Receive, history
  <2>2. OnEdge(t, h) = OnEdge(t, h)' + (IF t = s /\ h = g THEN 1 ELSE 0) /\ OnEdge(t, h)' \in Nat
    BY <1>0, <1>6, ReceivedCounts
  <2>3. CASE credit' = ReleasedIfAcquired(s, g) /\ stage' = stage
    <3>1. credit[s][g] > 0
      <4>1. ASSUME NEW k \in Generations, k = g PROVE OnEdge(s, k) > 0
        <5>1. OnEdge(s, k) = OnEdge(s, k)' + 1 /\ OnEdge(s, k)' \in Nat
          BY <1>0, <1>6, <4>1, ReceivedCounts
        <5> QED
          BY <5>1
      <4>2. Exact(s, g) /\ leaked[s][g] \in Nat /\ OnEdge(s, g) > 0 /\ OnEdge(s, g) \in Nat
        BY <1>0, <2>1, <4>1, EdgeCounts DEF CreditsExact, Exact, TypeInv
      <4> QED
        BY <4>2 DEF Exact
    <3>2. credit[t][h] = credit'[t][h] + (IF t = s /\ h = g THEN 1 ELSE 0)
      BY <1>0, <2>1, <2>3, <3>1, ReleasedCounts
    <3>3. credit'[t][h] \in Nat
      BY <1>0, <2>1, <2>3, LedgerTypes
    <3>4. Held(t, h)' <=> Held(t, h)
      BY <2>3 DEF Held
    <3> HIDE DEF g
    <3> QED
      BY <1>1, <2>1, <2>2, <3>2, <3>3, <3>4, SMTT(30) DEF Exact
  <2>4. CASE credit' = credit /\ stage' = Took(s, Head(queue[s]))
    <3>1. t = s => ~Held(t, h) /\ (Held(t, h)' <=> h = g)
      BY <1>0, <2>1, <2>4 DEF Held, Took, TypeInv, StageStates
    <3>2. t # s => (Held(t, h)' <=> Held(t, h))
      BY <1>0, <2>4 DEF Held, Took, TypeInv
    <3> HIDE DEF g
    <3> QED
      BY <1>1, <2>1, <2>2, <2>4, <3>1, <3>2 DEF Exact
  <2> QED
    BY <1>6, <2>3, <2>4 DEF Receive, Took
<1>7. ASSUME NEW s \in Stages, FinishMessage(s) PROVE Exact(t, h)'
  <2> DEFINE g == stage[s].item.gen
  <2>1. g \in Generations /\ Held(s, g) /\ leaked' = leaked /\ credit' = ReleasedIfAcquired(s, g)
    BY <1>0, <1>7, ItemTypes DEF FinishMessage, WorkInv, Held, history
  <2>2. OnEdge(t, h)' = OnEdge(t, h)
    BY <1>7 DEF FinishMessage, OnEdge
  <2>3. credit[s][g] > 0
    <3>1. Exact(s, g) /\ leaked[s][g] \in Nat /\ OnEdge(s, g) \in Nat
      BY <1>0, <2>1, EdgeCounts DEF CreditsExact, Exact, TypeInv
    <3> QED
      BY <2>1, <3>1 DEF Exact
  <2>4. credit[t][h] = credit'[t][h] + (IF t = s /\ h = g THEN 1 ELSE 0)
    BY <1>0, <2>1, <2>3, ReleasedCounts
  <2>5. credit'[t][h] \in Nat
    BY <1>0, <2>1, LedgerTypes
  <2>6. t = s => ~Held(t, h)' /\ (Held(t, h) <=> h = g)
    BY <1>0, <1>7 DEF FinishMessage, Held, TypeInv, StageStates
  <2>7. t # s => (Held(t, h)' <=> Held(t, h))
    BY <1>0, <1>7 DEF FinishMessage, Held, TypeInv
  <2> HIDE DEF g
  <2> QED
    BY <1>1, <2>1, <2>2, <2>4, <2>5, <2>6, <2>7, SMTT(30) DEF Exact
<1>8. ASSUME NEW s \in Stages, DrainStage(s) PROVE Exact(t, h)'
  <2>1. OnEdge(t, h)' = IF t = s THEN 0 ELSE OnEdge(t, h)
    BY <1>0, <1>8, DrainedCounts
  <2>2. (Held(t, h)' <=> Held(t, h)) /\ leaked' = leaked /\ (t = s => ~Held(t, h))
    BY <1>8 DEF DrainStage, Held, history
  <2>3. credit'[t][h] = IF t = s
                        THEN IF credit[t][h] > OnEdge(t, h) THEN credit[t][h] - OnEdge(t, h) ELSE 0
                        ELSE credit[t][h]
    BY <1>0, <1>8 DEF DrainStage, TypeInv
  <2> QED
    BY <1>1, <2>1, <2>2, <2>3 DEF Exact
<1> QED
  BY <1>3, <1>4, <1>5, <1>6, <1>7, <1>8, EdgeEffects

\* All ledgers begin empty.
LEMMA ExactInit ==
    ASSUME Init
    PROVE  CreditsExact
<1> SUFFICES ASSUME NEW s \in Stages, NEW g \in Generations
             PROVE  Exact(s, g)
  BY DEF CreditsExact, Exact
<1>1. OnEdge(s, g) = Cardinality(Positions(<< >>, g))
  BY DEF Init, OnEdge, Positions
<1>2. credit[s][g] = 0 /\ leaked[s][g] = 0 /\ ~Held(s, g)
  BY DEF Init, Held
<1> QED
  BY <1>1, <1>2, PositionsEmpty DEF Exact

\* The ledger of an edge counts exactly the messages in its socket and the one
\* its stage works on, per generation, apart from leaked credits.
THEOREM LedgersExact == Spec => []CreditsExact
<1>1. Init => CreditsExact
  BY ExactInit
<1>2. BaseInv /\ CreditsExact /\ [Next]_vars => CreditsExact'
  BY ExactNext
<1> QED
  BY <1>1, <1>2, BaseInvariance, PTL DEF Spec

-----------------------------------------------------------------------------
(* The edges stay within their capacity.                                   *)

\* The credits of a ledger and the load of an edge, after a step.
LEMMA LedgerCounts ==
    ASSUME NEW s \in Stages
    PROVE  /\ Credits(s) = CreditsOf(credit[s]) /\ Credits(s)' = CreditsOf(credit'[s])
           /\ InUse(s) = Cardinality(CreditsOf(credit[s]))
           /\ InUse(s)' = Cardinality(CreditsOf(credit'[s]))
           /\ (IsFiniteSet(Credits(s)) <=> IsFiniteSet(CreditsOf(credit[s])))
           /\ (IsFiniteSet(Credits(s))' <=> IsFiniteSet(CreditsOf(credit'[s])))
BY DEF Credits, InUse, CreditsOf

\* A ledger with a credit acquired or released, and the others.
LEMMA AcquiredCapacity ==
    ASSUME TypeInv, NEW s \in Stages, NEW g \in Generations, credit' = Acquired(s, g),
           NEW t \in Stages, IsFiniteSet(Credits(t))
    PROVE  IsFiniteSet(Credits(t))' /\ InUse(t)' = InUse(t) + (IF t = s THEN 1 ELSE 0)
<1>1. credit[t] \in [Generations -> Nat]
  BY DEF TypeInv
<1>2. CASE t = s
  <2>1. credit'[t] = [credit[t] EXCEPT ![g] = @ + 1]
    BY <1>2 DEF TypeInv, Acquired
  <2> QED
    BY <1>1, <1>2, <2>1, CreditMore, LedgerCounts
<1>3. CASE t # s
  <2>1. credit'[t] = credit[t]
    BY <1>3 DEF TypeInv, Acquired
  <2>2. InUse(t) \in Nat
    BY FS_CardinalityType DEF InUse
  <2> QED
    BY <1>3, <2>1, <2>2, LedgerCounts
<1> QED
  BY <1>2, <1>3

\* A released credit makes room for one.
LEMMA ReleasedCapacity ==
    ASSUME TypeInv, NEW s \in Stages, NEW g \in Generations, credit' = ReleasedIfAcquired(s, g),
           credit[s][g] > 0, NEW t \in Stages, IsFiniteSet(Credits(t))
    PROVE  IsFiniteSet(Credits(t))' /\ InUse(t) = InUse(t)' + (IF t = s THEN 1 ELSE 0)
           /\ InUse(t)' \in Nat
<1>1. credit[t] \in [Generations -> Nat]
  BY DEF TypeInv
<1>2. CASE t = s
  <2>1. credit'[t] = [credit[t] EXCEPT ![g] = IF @ > 0 THEN @ - 1 ELSE 0]
    BY <1>2 DEF TypeInv, ReleasedIfAcquired
  <2>2. /\ IsFiniteSet(CreditsOf(credit'[t]))
        /\ Cardinality(CreditsOf(credit[t])) = Cardinality(CreditsOf(credit'[t])) + 1
    BY <1>1, <1>2, <2>1, CreditLess, LedgerCounts
  <2>3. Cardinality(CreditsOf(credit'[t])) \in Nat
    BY <2>2, FS_CardinalityType
  <2> QED
    BY <1>2, <2>2, <2>3, LedgerCounts
<1>3. CASE t # s
  <2>1. credit'[t] = credit[t]
    BY <1>3 DEF TypeInv, ReleasedIfAcquired
  <2>2. InUse(t) \in Nat
    BY FS_CardinalityType DEF InUse
  <2> QED
    BY <1>3, <2>1, <2>2, LedgerCounts
<1> QED
  BY <1>2, <1>3

\* A generation with a message or with the stage at work has a credit.
LEMMA CreditHeld ==
    ASSUME TypeInv, CreditsExact, NEW s \in Stages, NEW g \in Generations,
           Held(s, g) \/ OnEdge(s, g) > 0
    PROVE  credit[s][g] > 0
<1>1. OnEdge(s, g) \in Nat /\ leaked[s][g] \in Nat
  BY EdgeCounts DEF TypeInv
<1>2. credit[s][g] = OnEdge(s, g) + (IF Held(s, g) THEN 1 ELSE 0) + leaked[s][g]
  BY DEF CreditsExact
<1> QED
  BY <1>1, <1>2

\* The message at the head of a socket is counted.
LEMMA HeadCounted ==
    ASSUME TypeInv, NEW s \in Stages, queue[s] # << >>
    PROVE  OnEdge(s, Head(queue[s]).gen) > 0
<1> DEFINE g == Head(queue[s]).gen
<1>1. queue[s] \in Seq(Items) /\ Tail(queue[s]) \in Seq(Items)
  BY DEF TypeInv
<1>2. Cardinality(Positions(queue[s], g)) = Cardinality(Positions(Tail(queue[s]), g)) + 1
  BY <1>1, PositionsTail
<1>3. Cardinality(Positions(Tail(queue[s]), g)) \in Nat
  BY <1>1, PositionsFinite
<1>4. OnEdge(s, g) = Cardinality(Positions(queue[s], g))
  BY DEF OnEdge, Positions
<1> QED
  BY <1>2, <1>3, <1>4

\* The capacity of one edge.
Within(s) == IsFiniteSet(Credits(s)) /\ Load(s) <= InUse(s) /\ InUse(s) <= Capacity(s)

\* Every step keeps the credits within the capacity and the load within the credits.
LEMMA CapacityNext ==
    ASSUME BaseInv, CreditsExact, CapacityInv, [Next]_vars
    PROVE  CapacityInv'
<1>0. TypeInv /\ WorkInv
  BY DEF BaseInv
<1> SUFFICES ASSUME NEW t \in Stages
             PROVE  Within(t)'
  BY DEF CapacityInv, Within
<1>1. /\ IsFiniteSet(Credits(t)) /\ Load(t) <= InUse(t) /\ InUse(t) <= Capacity(t)
      /\ Capacity(t)' = Capacity(t)
  BY DEF CapacityInv, Capacity
<1>2. InUse(t) \in Nat /\ Capacity(t) \in Nat /\ queue[t] \in Seq(Items) /\ Queued(t) \in Nat
  BY <1>0, <1>1, FS_CardinalityType, ConstantTypes DEF InUse, Capacity, TypeInv, Queued
<1>3. Busy(t) \in Nat /\ Busy(t)' \in Nat /\ (SameWork => Busy(t)' = Busy(t))
  BY DEF SameWork, Busy
<1>4. CASE SameWork /\ Steady
  <2>1. credit' = credit /\ queue' = queue
    BY <1>4 DEF Steady
  <2>2. InUse(t)' = InUse(t) /\ (IsFiniteSet(Credits(t))' <=> IsFiniteSet(Credits(t)))
    BY <2>1, LedgerCounts
  <2>3. Load(t)' = Load(t)
    BY <1>3, <1>4, <2>1 DEF Load, Queued
  <2> QED
    BY <1>1, <2>2, <2>3 DEF Within
<1>5. ASSUME SameWork, NEW s \in Stages, NEW x \in Items, Enters(s, x) PROVE Within(t)'
  <2>1. x.gen \in Generations
    BY ItemTypes
  <2>2. IsFiniteSet(Credits(t))' /\ InUse(t)' = InUse(t) + (IF t = s THEN 1 ELSE 0)
    BY <1>0, <1>1, <1>5, <2>1, AcquiredCapacity DEF Enters
  <2>3. Queued(t)' = Queued(t) + (IF t = s THEN 1 ELSE 0)
    <3>1. CASE t = s
      <4>1. queue'[t] = Append(queue[t], x)
        BY <1>0, <1>5, <3>1 DEF Enters, Sent, TypeInv
      <4> QED
        BY <1>2, <3>1, <4>1 DEF Queued
    <3>2. CASE t # s
      <4>1. queue'[t] = queue[t]
        BY <1>0, <1>5, <3>2 DEF Enters, Sent, TypeInv
      <4> QED
        BY <1>2, <3>2, <4>1 DEF Queued
    <3> QED
      BY <3>1, <3>2
  <2>4. InUse(s) < Capacity(s)
    BY <1>5 DEF Enters, HasCredit
  <2>5. Load(t)' = Load(t) + (IF t = s THEN 1 ELSE 0) /\ Load(t) \in Nat
    <3>1. Load(t) = Queued(t) + Busy(t) /\ Load(t)' = Queued(t)' + Busy(t)
      BY <1>3, <1>5 DEF Load
    <3> QED
      BY <1>2, <1>3, <2>3, <3>1
  <2> QED
    BY <1>1, <1>2, <2>2, <2>4, <2>5 DEF Within
<1>6. ASSUME SameWork, NEW s \in Stages, NEW g \in Generations, Leaks(s, g) PROVE Within(t)'
  <2>1. IsFiniteSet(Credits(t))' /\ InUse(t)' = InUse(t) + (IF t = s THEN 1 ELSE 0)
    BY <1>0, <1>1, <1>6, AcquiredCapacity DEF Leaks
  <2>2. InUse(s) < Capacity(s) /\ queue' = queue
    BY <1>6 DEF Leaks, HasCredit
  <2>3. Load(t)' = Load(t) /\ Load(t) \in Nat
    BY <1>2, <1>3, <1>6, <2>2 DEF Load, Queued
  <2> QED
    BY <1>1, <1>2, <2>1, <2>2, <2>3 DEF Within
<1>7. ASSUME NEW s \in Stages, Receive(s) PROVE Within(t)'
  <2> DEFINE g == Head(queue[s]).gen
  <2>1. g \in Generations /\ stage[s].at = "idle" /\ queue[s] # << >>
    BY <1>0, <1>7, SocketTypes, ItemTypes DEF Receive
  <2>2. Queued(t) = Queued(t)' + (IF t = s THEN 1 ELSE 0) /\ Queued(t)' \in Nat
    <3>1. CASE t = s
      <4>1. queue'[t] = Tail(queue[t])
        BY <1>0, <1>7, <3>1 DEF Receive, TypeInv
      <4> QED
        BY <1>2, <2>1, <3>1, <4>1 DEF Queued
    <3>2. CASE t # s
      <4>1. queue'[t] = queue[t]
        BY <1>0, <1>7, <3>2 DEF Receive, TypeInv
      <4> QED
        BY <1>2, <3>2, <4>1 DEF Queued
    <3> QED
      BY <3>1, <3>2
  <2>3. CASE credit' = ReleasedIfAcquired(s, g) /\ stage' = stage
    <3>1. credit[s][g] > 0
      BY <1>0, <2>1, HeadCounted, CreditHeld
    <3>2. IsFiniteSet(Credits(t))' /\ InUse(t) = InUse(t)' + (IF t = s THEN 1 ELSE 0)
          /\ InUse(t)' \in Nat
      BY <1>0, <1>1, <2>1, <2>3, <3>1, ReleasedCapacity
    <3>3. Busy(t)' = Busy(t)
      BY <2>3 DEF Busy
    <3>4. Load(t) = Load(t)' + (IF t = s THEN 1 ELSE 0) /\ Load(t)' \in Nat
      <4>1. Load(t) = Queued(t) + Busy(t) /\ Load(t)' = Queued(t)' + Busy(t)
        BY <3>3 DEF Load
      <4> QED
        BY <1>2, <1>3, <2>2, <4>1
    <3> QED
      BY <1>1, <1>2, <3>2, <3>4 DEF Within
  <2>4. CASE credit' = credit /\ stage' = Took(s, Head(queue[s]))
    <3>1. InUse(t)' = InUse(t) /\ (IsFiniteSet(Credits(t))' <=> IsFiniteSet(Credits(t)))
      BY <2>4, LedgerCounts
    <3>2. stage'[t].at = (IF t = s THEN "processing" ELSE stage[t].at)
      BY <1>0, <2>4 DEF Took, TypeInv
    <3>3. Busy(t)' = Busy(t) + (IF t = s THEN 1 ELSE 0)
      BY <2>1, <3>2 DEF Busy
    <3>4. Load(t)' = Load(t)
      <4>1. Load(t) = Queued(t) + Busy(t) /\ Load(t)' = Queued(t)' + Busy(t)'
        BY DEF Load
      <4> QED
        BY <1>2, <1>3, <2>2, <3>3, <4>1
    <3> QED
      BY <1>1, <3>1, <3>4 DEF Within
  <2> QED
    BY <1>7, <2>3, <2>4 DEF Receive, Took
<1>8. ASSUME NEW s \in Stages, FinishMessage(s) PROVE Within(t)'
  <2> DEFINE g == stage[s].item.gen
  <2>1. g \in Generations /\ Held(s, g) /\ credit' = ReleasedIfAcquired(s, g) /\ queue' = queue
    BY <1>0, <1>8, ItemTypes DEF FinishMessage, WorkInv, Held
  <2>2. credit[s][g] > 0
    BY <1>0, <2>1, CreditHeld
  <2>3. IsFiniteSet(Credits(t))' /\ InUse(t) = InUse(t)' + (IF t = s THEN 1 ELSE 0)
        /\ InUse(t)' \in Nat
    BY <1>0, <1>1, <2>1, <2>2, ReleasedCapacity
  <2>4. stage'[t].at = (IF t = s THEN "idle" ELSE stage[t].at) /\ stage[s].at = "finishing"
    BY <1>0, <1>8 DEF FinishMessage, TypeInv
  <2>5. Busy(t) = Busy(t)' + (IF t = s THEN 1 ELSE 0)
    BY <2>4 DEF Busy
  <2>6. Load(t) = Load(t)' + (IF t = s THEN 1 ELSE 0) /\ Load(t)' \in Nat
    BY <1>2, <1>3, <2>1, <2>5, SMTT(30) DEF Load, Queued
  <2> QED
    BY <1>1, <1>2, <2>3, <2>6 DEF Within
<1>9. ASSUME NEW s \in Stages, DrainStage(s) PROVE Within(t)'
  <2>1. CASE t = s
    <3>1. credit'[t] \in [Generations -> Nat] /\ \A h \in Generations : credit'[t][h] <= credit[t][h]
      <4>1. \A h \in Generations : OnEdge(t, h) \in Nat
        BY <1>0, EdgeCounts
      <4>2. credit[t] \in [Generations -> Nat]
        BY <1>0 DEF TypeInv
      <4>3. credit'[t] = [h \in Generations |-> IF credit[t][h] > OnEdge(t, h)
                                                THEN credit[t][h] - OnEdge(t, h) ELSE 0]
        BY <1>0, <1>9, <2>1 DEF DrainStage, TypeInv
      <4> QED
        BY <4>1, <4>2, <4>3
    <3>2. credit[t] \in [Generations -> Nat] /\ IsFiniteSet(CreditsOf(credit[t]))
      BY <1>0, <1>1, LedgerCounts DEF TypeInv
    <3>3. /\ IsFiniteSet(CreditsOf(credit'[t]))
          /\ Cardinality(CreditsOf(credit'[t])) <= Cardinality(CreditsOf(credit[t]))
      BY <3>1, <3>2, CreditsFewer
    <3>4. IsFiniteSet(Credits(t))' /\ InUse(t)' <= InUse(t) /\ InUse(t)' \in Nat
      BY <3>3, LedgerCounts, FS_CardinalityType
    <3>5. queue'[t] = << >> /\ stage'[t].at = "idle"
      BY <1>0, <1>9, <2>1 DEF DrainStage, TypeInv
    <3>6. Load(t)' = 0
      BY <3>5 DEF Load, Busy, Queued
    <3> QED
      BY <1>1, <1>2, <3>4, <3>6 DEF Within
  <2>2. CASE t # s
    <3>1. credit'[t] = credit[t] /\ queue'[t] = queue[t] /\ stage' = stage
      BY <1>0, <1>9, <2>2 DEF DrainStage, TypeInv
    <3>2. InUse(t)' = InUse(t) /\ (IsFiniteSet(Credits(t))' <=> IsFiniteSet(Credits(t)))
      BY <3>1, LedgerCounts
    <3>3. Load(t)' = Load(t)
      BY <3>1 DEF Load, Busy, Queued
    <3> QED
      BY <1>1, <3>2, <3>3 DEF Within
  <2> QED
    BY <2>1, <2>2
<1> QED
  BY <1>4, <1>5, <1>6, <1>7, <1>8, <1>9, EdgeEffects

\* Nothing is in use at first.
LEMMA CapacityInit ==
    ASSUME Init
    PROVE  CapacityInv
<1> SUFFICES ASSUME NEW s \in Stages
             PROVE  Within(s)
  BY DEF CapacityInv, Within
<1>1. credit[s] \in [Generations -> Nat] /\ \A g \in Generations : credit[s][g] = 0
  BY DEF Init
<1>2. IsFiniteSet(Credits(s)) /\ InUse(s) = 0
  BY <1>1, CreditsNone, LedgerCounts
<1>3. Load(s) = 0
  BY DEF Init, Load, Busy, Queued
<1> QED
  BY <1>2, <1>3, ConstantTypes DEF Within, Capacity

\* The types, and every edge within its capacity.
THEOREM PipelineTypes == Spec => []PipelineTypeOK
<1>1. Init => CapacityInv
  BY CapacityInit
<1>2. BaseInv /\ CreditsExact /\ CapacityInv /\ [Next]_vars => CapacityInv'
  BY CapacityNext
<1>3. BaseInv /\ CapacityInv => PipelineTypeOK
  <2> SUFFICES ASSUME BaseInv, CapacityInv
               PROVE  PipelineTypeOK
    OBVIOUS
  <2>1. ASSUME NEW s \in Stages PROVE queue[s] \in Seq(Items) /\ Len(queue[s]) <= Capacity(s)
    <3>1. queue[s] \in Seq(Items) /\ Queued(s) = Len(queue[s]) /\ Queued(s) \in Nat
      BY DEF BaseInv, TypeInv, Queued
    <3>2. IsFiniteSet(Credits(s)) /\ Load(s) <= InUse(s) /\ InUse(s) <= Capacity(s)
      BY DEF CapacityInv
    <3>3. InUse(s) \in Nat /\ Capacity(s) \in Nat
      BY <3>2, FS_CardinalityType, ConstantTypes DEF InUse, Capacity
    <3>4. Busy(s) \in Nat
      BY DEF Busy
    <3> QED
      BY <3>1, <3>2, <3>3, <3>4 DEF Load
  <2> QED
    BY <2>1 DEF BaseInv, TypeInv, WorkInv, PipelineTypeOK
<1> QED
  BY <1>1, <1>2, <1>3, BaseInvariance, LedgersExact, PTL DEF Spec

-----------------------------------------------------------------------------
(* What a drain has found empty stays empty.                               *)

\* Nobody enters the gate with a generation that is no longer active.
LEMMA GateStays ==
    ASSUME BaseInv, [Next]_vars, NEW g \in Generations, g # active, ~InGate(g)
    PROVE  ~InGate(g)'
<1>0. TypeInv /\ WorkInv
  BY DEF BaseInv
<1> DEFINE Ingress(i) == i.at # "idle" /\ i.item.gen = g
           Commit(x) == x.at = "committing" /\ x.item.gen = g
<1>1. ~Ingress(ingress) /\ ~Commit(stage[Last])
  BY DEF InGate
<1>2. ~Ingress(ingress')
  <2>1. CASE ingress' = ingress
    BY <1>1, <2>1
  <2>2. CASE SubmitBegin \/ FlushBegin
    BY <2>2 DEF SubmitBegin, FlushBegin
  <2>3. CASE SubmitCheck \/ SubmitOffer \/ FlushCoalesced
    BY <1>0, <1>1, <2>3 DEF SubmitCheck, SubmitOffer, FlushCoalesced, TypeInv, IngressStates
  <2>4. CASE IngressLeave
    BY <2>4 DEF IngressLeave
  <2> HIDE DEF Ingress
  <2> QED
    BY <2>1, <2>2, <2>3, <2>4
       DEF Next, IngressStep, StageStep, MessageStep, DrainStep, Receive, PollFails, Process,
           SendOutput, FinishMessage, PersistBegin, PersistEnd, DrainStage, Open, PauseOrResume,
           Invalidate, FaultAgain, StopFaulted, DrainCancel, DrainWaits, DrainBuffers, DrainEnds,
           ingressVars, vars
<1>3. ~Commit(stage'[Last])
  <2>1. CASE stage' = stage
    BY <1>1, <2>1
  <2>2. ASSUME NEW s \in Stages, Receive(s), stage' # stage PROVE ~Commit(stage'[Last])
    <3>1. stage' = Took(s, Head(queue[s]))
      BY <2>2 DEF Receive, Took
    <3> QED
      BY <1>0, <1>1, <3>1, StageTypes DEF Took, TypeInv, StageStates
  <2>3. ASSUME NEW s \in Stages, Process(s) PROVE ~Commit(stage'[Last])
    BY <1>0, <1>1, <2>3, StageTypes DEF Process, TypeInv, StageStates
  <2>4. ASSUME NEW s \in Stages, SendOutput(s) PROVE ~Commit(stage'[Last])
    BY <1>0, <1>1, <2>4, StageTypes DEF SendOutput, TypeInv, StageStates
  <2>7. ASSUME NEW s \in Stages, FinishMessage(s) PROVE ~Commit(stage'[Last])
    BY <1>0, <1>1, <2>7, StageTypes DEF FinishMessage, TypeInv, StageStates
  <2>5. CASE PersistBegin
    <3>1. stage \in [Stages -> StageStates] /\ Last \in Stages
      BY <1>0, StageTypes DEF TypeInv
    <3>2. \/ stage'[Last].at = "finishing"
          \/ stage'[Last].item.gen = stage[Last].item.gen /\ Current(stage[Last].item.gen)
      BY <2>5, <3>1 DEF PersistBegin, StageStates
    <3> QED BY <3>2 DEF Current
  <2>6. CASE PersistEnd
    BY <1>0, <1>1, <2>6, StageTypes DEF PersistEnd, TypeInv, StageStates
  <2> HIDE DEF Commit
  <2> QED
    BY <2>1, <2>2, <2>3, <2>4, <2>5, <2>6, <2>7
       DEF Next, IngressStep, StageStep, MessageStep, DrainStep, PollFails, DrainStage,
           SubmitBegin, SubmitCheck, SubmitOffer, FlushBegin, FlushCoalesced, IngressLeave, Open,
           PauseOrResume, Invalidate, FaultAgain, StopFaulted, DrainCancel, DrainWaits,
           DrainBuffers, DrainEnds, stageVars, vars
<1> QED
  BY <1>2, <1>3 DEF InGate

\* The slot takes only what comes through the gate.
LEMMA SlotStays ==
    ASSUME BaseInv, [Next]_vars, NEW g \in Generations, ~InGate(g), coalesced.gen # g
    PROVE  coalesced'.gen # g
<1>1. coalesced' \in {coalesced, NoItem} \/ SubmitOffer
  BY DEF Next, IngressStep, StageStep, MessageStep, DrainStep, Receive, PollFails, Process,
         SendOutput, FinishMessage, PersistBegin, PersistEnd, DrainStage, SubmitBegin, SubmitCheck,
         FlushBegin, FlushCoalesced, IngressLeave, Open, PauseOrResume, Invalidate, FaultAgain,
         StopFaulted, DrainCancel, DrainWaits, DrainBuffers, DrainEnds, ClearCoalesced, ingressVars,
         vars
<1>2. g # 0
  BY DEF Generations
<1>3. CASE SubmitOffer
  BY <1>3 DEF SubmitOffer, HandleOverload, InGate
<1> QED
  BY <1>1, <1>2, <1>3, ItemTypes

\* A ledger without a credit of the generation gets one only from the stage
\* before, or through the gate.
LEMMA EmptiedStays ==
    ASSUME BaseInv, CreditsExact, [Next]_vars, NEW g \in Generations, NEW n \in Nat, ~InGate(g),
           Emptied(g, n)
    PROVE  Emptied(g, n)'
<1>0. TypeInv /\ WorkInv
  BY DEF BaseInv
<1>1. ASSUME NEW s \in Stages, s <= n, From(s, g) PROVE FALSE
  <2>1. CASE s = 1
    BY <1>1, <2>1 DEF From
  <2>2. CASE s # 1
    <3>1. s - 1 \in Stages /\ Held(s - 1, g)
      BY <1>1, <2>2 DEF From
    <3>2. s - 1 <= n
      BY <1>1, ConstantTypes DEF Stages
    <3>3. credit[s - 1][g] = 0
      BY <3>1, <3>2 DEF Emptied
    <3> QED
      BY <1>0, <3>1, <3>3, CreditHeld
  <2> QED
    BY <2>1, <2>2
<1> SUFFICES ASSUME NEW t \in Stages, t <= n
             PROVE  credit'[t][g] = 0
  BY DEF Emptied
<1>2. credit[t][g] = 0
  BY DEF Emptied
<1>3. CASE Steady
  BY <1>2, <1>3 DEF Steady
<1>4. ASSUME NEW s \in Stages, NEW x \in Items, Enters(s, x), From(s, x.gen)
      PROVE  credit'[t][g] = 0
  <2>1. credit'[t][g] = credit[t][g] + (IF t = s /\ g = x.gen THEN 1 ELSE 0)
    BY <1>0, <1>4, ItemTypes, AcquiredCounts DEF Enters
  <2> QED
    BY <1>1, <1>2, <1>4, <2>1
<1>5. ASSUME NEW s \in Stages, NEW h \in Generations, Leaks(s, h), From(s, h)
      PROVE  credit'[t][g] = 0
  <2>1. credit'[t][g] = credit[t][g] + (IF t = s /\ g = h THEN 1 ELSE 0)
    BY <1>0, <1>5, AcquiredCounts DEF Leaks
  <2> QED
    BY <1>1, <1>2, <1>5, <2>1
<1>6. ASSUME NEW s \in Stages, NEW h, credit' = ReleasedIfAcquired(s, h)
      PROVE  credit'[t][g] = 0
  BY <1>0, <1>2, <1>6 DEF ReleasedIfAcquired, TypeInv
<1>7. ASSUME NEW s \in Stages, DrainStage(s) PROVE credit'[t][g] = 0
  <2>1. OnEdge(s, g) \in Nat
    BY <1>0, EdgeCounts
  <2> QED
    BY <1>0, <1>2, <1>7, <2>1 DEF DrainStage, TypeInv
<1>8. ASSUME NEW s \in Stages, Receive(s) \/ FinishMessage(s) PROVE credit'[t][g] = 0
  <2>1. credit' = credit \/ \E h : credit' = ReleasedIfAcquired(s, h)
    BY <1>8 DEF Receive, FinishMessage
  <2> QED
    BY <1>2, <1>6, <2>1
<1> QED
  BY <1>3, <1>4, <1>5, <1>7, <1>8, EdgeEffects

\* What the drain has found empty stays so through every step of the others.
LEMMA DrainNext ==
    ASSUME BaseInv, CreditsExact, DrainInv, [Next]_vars
    PROVE  DrainInv'
<1>0. TypeInv /\ WorkInv /\ GateInv
  BY DEF BaseInv
<1> DEFINE D == drain.at # "rest" /\ drain.why \in {"stop", "block"} /\ drain.bad = FALSE
<1>1. D => drain.gen \in Generations /\ drain.gen # active
  BY <1>0 DEF GateInv
<1>2. D /\ ~InGate(drain.gen) => \A g : g = drain.gen => ~InGate(g)'
  BY <1>1, GateStays
<1>3. D /\ ~InGate(drain.gen) /\ coalesced.gen # drain.gen => coalesced'.gen # drain.gen
  BY <1>1, SlotStays
<1>4. ASSUME D, ~InGate(drain.gen), NEW n \in Nat, Emptied(drain.gen, n)
      PROVE  \A g : g = drain.gen => Emptied(g, n)'
  BY <1>1, <1>4, EmptiedStays
<1>5. drain.edge \in Stages /\ Last \in Nat /\ drain.edge \in Nat /\ drain.edge - 1 \in Nat
  <2>1. drain.edge \in Stages
    BY <1>0 DEF TypeInv, DrainStates
  <2> QED
    BY <2>1, ConstantTypes DEF Stages, Last
<1>6. CASE drain' = drain
  <2> SUFFICES ASSUME D PROVE DrainInv'
    BY <1>0, <1>6 DEF DrainInv, TypeInv, DrainStates
  <2>1. ~InGate(drain.gen) => ~InGate(drain.gen)'
    BY <1>2, <1>6
  <2>2. drain.at = "credits" => Emptied(drain.gen, drain.edge - 1)'
    BY <1>4, <1>5, <1>6 DEF DrainInv
  <2>3. drain.at \in {"slot empty", "buffers", "stages"} => Emptied(drain.gen, Last)'
    BY <1>4, <1>5, <1>6 DEF DrainInv
  <2> QED
    BY <1>3, <1>6, <2>1, <2>2, <2>3 DEF DrainInv
<1>7. ASSUME NEW why \in {"stop", "block", "fault"}, Invalidate(why) PROVE DrainInv'
  <2>1. why \in {"stop", "block"} => active # NoGeneration
    BY <1>0, <1>7 DEF Invalidate, GateInv
  <2>2. drain' = [AtRest EXCEPT !.at = IF active = NoGeneration THEN "buffers" ELSE "cancel",
                                !.gen = active, !.why = why]
    BY <1>7 DEF Invalidate
  <2>3. drain'.why = why /\ drain'.edge = 1 /\ drain'.bad = FALSE
        /\ drain'.at = IF active = NoGeneration THEN "buffers" ELSE "cancel"
    BY <2>2, RestTypes DEF DrainStates
  <2> QED
    BY <2>1, <2>3 DEF DrainInv
<1>8. CASE StopFaulted
  <2>1. drain'.why = "reset" /\ drain'.at = "buffers"
    BY <1>8, RestTypes DEF StopFaulted, DrainStates
  <2> QED
    BY <2>1 DEF DrainInv
<1>9. CASE DrainCancel
  BY <1>0, <1>9 DEF DrainCancel, DrainInv, TypeInv, DrainStates
<1>10. CASE DrainWaits
  <2>0. credit' = credit /\ coalesced' = coalesced
        /\ \A g : (InGate(g)' <=> InGate(g)) /\ \A n : (Emptied(g, n)' <=> Emptied(g, n))
    BY <1>10 DEF DrainWaits, ingressVars, edgeVars, stageVars, InGate, Emptied
  <2>1. CASE drain.at = "operations" /\ ~InGate(drain.gen) /\ drain' = [drain EXCEPT !.at = "credits"]
    <3>1. drain'.at = "credits" /\ drain'.gen = drain.gen /\ drain'.edge = drain.edge
          /\ drain'.why = drain.why /\ drain'.bad = drain.bad
      BY <1>0, <2>1 DEF TypeInv, DrainStates
    <3>2. Emptied(drain.gen, 0)
      BY ConstantTypes DEF Emptied, Stages
    <3> QED
      BY <2>0, <2>1, <3>1, <3>2 DEF DrainInv
  <2>6. D /\ drain.at = "credits" /\ credit[drain.edge][drain.gen] = 0 =>
           Emptied(drain.gen, drain.edge)
    BY <1>5, ConstantTypes DEF DrainInv, Emptied, Stages
  <2>2. CASE drain.at = "credits" /\ credit[drain.edge][drain.gen] = 0
             /\ drain.edge = Last /\ drain' = [drain EXCEPT !.at = "slot empty"]
    <3>1. drain'.at = "slot empty" /\ drain'.gen = drain.gen
          /\ drain'.why = drain.why /\ drain'.bad = drain.bad
      BY <1>0, <2>2 DEF TypeInv, DrainStates
    <3> QED
      BY <2>0, <2>2, <2>6, <3>1 DEF DrainInv
  <2>3. CASE drain.at = "credits" /\ credit[drain.edge][drain.gen] = 0
             /\ drain' = [drain EXCEPT !.edge = @ + 1]
    <3>1. drain'.at = "credits" /\ drain'.gen = drain.gen /\ drain'.edge = drain.edge + 1
          /\ drain'.why = drain.why /\ drain'.bad = drain.bad
      BY <1>0, <2>3 DEF TypeInv, DrainStates
    <3>2. (drain.edge + 1) - 1 = drain.edge
      BY <1>5
    <3> QED
      BY <2>0, <2>3, <2>6, <3>1, <3>2 DEF DrainInv
  <2>4. CASE drain.at = "slot empty"
             /\ drain' = [drain EXCEPT !.at = "buffers", !.bad = (coalesced.gen = drain.gen)]
    <3>1. drain'.at = "buffers" /\ drain'.gen = drain.gen
          /\ drain'.why = drain.why /\ drain'.bad = (coalesced.gen = drain.gen)
      BY <1>0, <2>4 DEF TypeInv, DrainStates
    <3>2. drain.bad = FALSE
      BY <2>4 DEF DrainInv
    <3> QED
      BY <2>0, <2>4, <3>1, <3>2 DEF DrainInv
  <2>5. CASE drain' = [drain EXCEPT !.at = "buffers", !.bad = TRUE]
    <3>1. drain'.bad = TRUE /\ drain'.at = "buffers"
      BY <1>0, <2>5 DEF TypeInv, DrainStates
    <3> QED
      BY <3>1 DEF DrainInv
  <2> QED
    BY <1>10, <2>1, <2>2, <2>3, <2>4, <2>5 DEF DrainWaits
<1>11. CASE DrainBuffers
  <2>0. /\ drain.at \in {"buffers", "stages"} /\ drain'.at = "stages" /\ drain'.gen = drain.gen
        /\ drain'.why = drain.why /\ drain'.bad = drain.bad
    BY <1>0, <1>11 DEF DrainBuffers, TypeInv, DrainStates
  <2>1. \A g : (InGate(g)' <=> InGate(g)) /\ \A n : (Emptied(g, n)' <=> Emptied(g, n))
    BY <1>11 DEF DrainBuffers, edgeVars, InGate, Emptied
  <2> QED
    BY <1>3, <2>0, <2>1 DEF DrainInv
<1>12. CASE DrainEnds
  <2>1. drain'.at = "rest" /\ drain'.bad = FALSE
    BY <1>12, RestTypes DEF DrainEnds, Conclude
  <2> QED
    BY <2>1 DEF DrainInv
<1>13. \/ drain' = drain \/ StopFaulted \/ DrainStep
       \/ \E why \in {"stop", "block", "fault"} : Invalidate(why)
  BY DEF Next, IngressStep, StageStep, MessageStep, Receive, PollFails, Process, SendOutput,
         FinishMessage, PersistBegin, PersistEnd, DrainStage, SubmitBegin, SubmitCheck, SubmitOffer,
         FlushBegin, FlushCoalesced, IngressLeave, Open, PauseOrResume, FaultAgain, controlVars, vars
<1> QED
  BY <1>6, <1>7, <1>8, <1>9, <1>10, <1>11, <1>12, <1>13 DEF DrainStep

\* No drain is under way at first.
LEMMA DrainInit ==
    ASSUME Init
    PROVE  DrainInv
BY RestTypes DEF Init, DrainInv

\* Nothing of the generation is left where the drain found nothing.
LEMMA EmptiedNothing ==
    ASSUME BaseInv, CreditsExact, NEW g \in Generations, Emptied(g, Last), ~InGate(g),
           coalesced.gen # g
    PROVE  NothingOf(g)
<1>1. ASSUME NEW s \in Stages PROVE OnEdge(s, g) = 0 /\ ~Held(s, g)
  <2>1. credit[s][g] = 0
    BY ConstantTypes DEF Emptied, Stages, Last
  <2>2. OnEdge(s, g) \in Nat /\ ~(Held(s, g) \/ OnEdge(s, g) > 0)
    BY <2>1, EdgeCounts, CreditHeld DEF BaseInv
  <2> QED
    BY <2>2
<1> QED
  BY <1>1 DEF NothingOf

\* A stop or a safety block that does not end in a fault leaves nothing of the
\* old generation in the pipeline.
THEOREM DrainsComplete == Spec => DrainComplete
<1>1. Init => DrainInv
  BY DrainInit
<1>2. BaseInv /\ CreditsExact /\ DrainInv /\ [Next]_vars => DrainInv'
  BY DrainNext
<1>3. BaseInv /\ CreditsExact /\ DrainInv /\ [Next]_vars =>
        (drain.at # "rest" /\ drain'.at = "rest" /\ drain.why \in {"stop", "block"}
           /\ state' # "FAULTED" => NothingOf(drain.gen))
  <2> SUFFICES ASSUME BaseInv, CreditsExact, DrainInv, [Next]_vars, drain.at # "rest",
                      drain'.at = "rest", drain.why \in {"stop", "block"}, state' # "FAULTED"
               PROVE  NothingOf(drain.gen)
    OBVIOUS
  <2>1. TypeInv /\ GateInv
    BY DEF BaseInv
  <2>2. DrainEnds
    <3>1. drain' = drain \/ drain.at = "rest" \/ DrainStep
      BY DEF Next, IngressStep, StageStep, MessageStep, Receive, PollFails, Process, SendOutput,
             FinishMessage, PersistBegin, PersistEnd, DrainStage, SubmitBegin, SubmitCheck,
             SubmitOffer, FlushBegin, FlushCoalesced, IngressLeave, Open, PauseOrResume, FaultAgain,
             Invalidate, StopFaulted, controlVars, vars
    <3>2. DrainCancel => drain'.at # "rest"
      BY <2>1 DEF DrainCancel, TypeInv, DrainStates
    <3>3. DrainWaits => drain'.at # "rest"
      <4>1. ASSUME NEW a \in {"credits", "slot empty", "buffers"}, NEW e, NEW b,
                   \/ drain' = [drain EXCEPT !.at = a]
                   \/ drain' = [drain EXCEPT !.edge = e]
                   \/ drain' = [drain EXCEPT !.at = a, !.bad = b]
            PROVE  drain'.at # "rest"
        <5>1. CASE drain' = [drain EXCEPT !.at = a]
          BY <2>1, <5>1 DEF TypeInv, DrainStates
        <5>2. CASE drain' = [drain EXCEPT !.edge = e]
          BY <2>1, <5>2 DEF TypeInv, DrainStates
        <5>3. CASE drain' = [drain EXCEPT !.at = a, !.bad = b]
          BY <2>1, <5>3 DEF TypeInv, DrainStates
        <5> QED
          BY <4>1, <5>1, <5>2, <5>3
      <4> QED
        BY <4>1 DEF DrainWaits
    <3>4. DrainBuffers => drain'.at # "rest"
      BY <2>1 DEF DrainBuffers, TypeInv, DrainStates
    <3> QED
      BY <3>1, <3>2, <3>3, <3>4 DEF DrainStep
  <2>3. drain.at = "stages" /\ drain.bad = FALSE
    BY <2>1, <2>2 DEF DrainEnds, Conclude, TypeInv, DrainStates
  <2>4. drain.gen \in Generations /\ Emptied(drain.gen, Last) /\ ~InGate(drain.gen)
        /\ coalesced.gen # drain.gen
    BY <2>1, <2>3 DEF DrainInv, GateInv
  <2> QED
    BY <2>4, EmptiedNothing
<1> QED
  BY <1>1, <1>2, <1>3, BaseInvariance, LedgersExact, PTL DEF Spec, DrainComplete

\* A record is stored only while its generation is the active one.
THEOREM OnlyCurrentStored == Spec => StoredCurrent
<1>1. BaseInv /\ [Next]_vars => \A x \in stored' \ stored : Current(x.gen)
  <2> SUFFICES ASSUME BaseInv, [Next]_vars, NEW x \in stored' \ stored
               PROVE  Current(x.gen)
    OBVIOUS
  <2>1. PersistEnd
    BY DEF Next, IngressStep, StageStep, MessageStep, DrainStep, Receive, PollFails, Process,
           SendOutput, FinishMessage, PersistBegin, DrainStage, SubmitBegin, SubmitCheck,
           SubmitOffer, FlushBegin, FlushCoalesced, IngressLeave, Open, PauseOrResume, Invalidate,
           FaultAgain, StopFaulted, DrainCancel, DrainWaits, DrainBuffers, DrainEnds, history, vars
  <2>2. x = stage[Last].item /\ stage[Last].at = "committing"
    BY <2>1 DEF PersistEnd
  <2> QED
    BY <2>2 DEF BaseInv, CommitInv
<1> QED
  BY <1>1, BaseInvariance, PTL DEF Spec, StoredCurrent

-----------------------------------------------------------------------------
(* A record is in one place.                                               *)

\* What the sockets, the stages, the slot, the storage and the submission keep.
SocketsKeep ==
    \A s \in Stages, i \in Nat : Filled(s, i)' => Filled(s, i) /\ Queues(s, i)' = Queues(s, i)
StagesKeep == \A s \in Stages : Working(s)' => Working(s) /\ Works(s)' = Works(s)
SlotKeeps == coalesced' \in {coalesced, NoItem}
SubmissionKeeps == Submitting' => Submitting /\ ingress'.item.id = ingress.item.id

\* One more position of socket s is filled, with record id.
SocketGets(s, id) ==
    \E n \in Nat :
        /\ ~Filled(s, n)
        /\ \A t \in Stages, i \in Nat :
              Filled(t, i)' => \/ Filled(t, i) /\ Queues(t, i)' = Queues(t, i)
                               \/ t = s /\ i = n /\ Queues(t, i)' = id

\* Identifiers of places are numbers.
LEMMA Identifiers ==
    ASSUME BaseInv
    PROVE  /\ \A s \in Stages, i \in Nat : Filled(s, i) => Queues(s, i) \in Nat \ {0}
           /\ \A s \in Stages : Working(s) => Works(s) \in Nat \ {0}
           /\ \A x \in stored : x.id \in Nat \ {0}
           /\ coalesced.id \in Nat /\ submitted \in Nat
           /\ (Submitting => ingress.item.id \in Nat \ {0})
<1>1. TypeInv /\ WorkInv
  BY DEF BaseInv
<1>2. \A x \in Items : x.id \in Nat \ {0}
  BY ItemTypes, ConstantTypes
<1>3. ASSUME NEW s \in Stages, NEW i \in Nat, Filled(s, i) PROVE Queues(s, i) \in Nat \ {0}
  <2>1. queue[s] \in Seq(Items) /\ i \in 1 .. Len(queue[s])
    BY <1>1, <1>3 DEF TypeInv, Filled
  <2>2. queue[s][i] \in Items
    BY <2>1
  <2> QED
    BY <1>2, <2>2 DEF Queues
<1>4. ASSUME NEW s \in Stages, Working(s) PROVE Works(s) \in Nat \ {0}
  BY <1>1, <1>2, <1>4 DEF WorkInv, Working, Works
<1>5. \A x \in stored : x.id \in Nat \ {0}
  BY <1>1, <1>2 DEF TypeInv
<1>6. coalesced.id \in Nat /\ submitted \in Nat
  BY <1>1, ItemTypes, ConstantTypes DEF TypeInv
<1>7. Submitting => ingress.item.id \in Nat \ {0}
  BY <1>1, <1>2 DEF WorkInv, Submitting
<1> QED
  BY <1>3, <1>4, <1>5, <1>6, <1>7

\* Sockets that get a message, lose their first one or lose all.
LEMMA SentPlaces ==
    ASSUME BaseInv, NEW s \in Stages, NEW x \in Items, queue' = Sent(s, x)
    PROVE  SocketGets(s, x.id)
<1>0. queue[s] \in Seq(Items) /\ Len(queue[s]) \in Nat
  BY DEF BaseInv, TypeInv
<1>1. ~Filled(s, Len(queue[s]) + 1)
  BY <1>0 DEF Filled
<1>2. ASSUME NEW t \in Stages, NEW i \in Nat, Filled(t, i)'
      PROVE  \/ Filled(t, i) /\ Queues(t, i)' = Queues(t, i)
             \/ t = s /\ i = Len(queue[s]) + 1 /\ Queues(t, i)' = x.id
  <2>1. CASE t # s
    <3>1. queue'[t] = queue[t]
      BY <2>1 DEF BaseInv, TypeInv, Sent
    <3> QED
      BY <1>2, <3>1 DEF Filled, Queues
  <2>2. CASE t = s
    <3>1. queue'[t] = Append(queue[t], x)
      BY <2>2 DEF BaseInv, TypeInv, Sent
    <3>2. i \in 1 .. (Len(queue[t]) + 1)
      BY <1>0, <1>2, <2>2, <3>1 DEF Filled
    <3>3. CASE i = Len(queue[t]) + 1
      BY <1>0, <2>2, <3>1, <3>3 DEF Queues
    <3>4. CASE i \in 1 .. Len(queue[t])
      BY <1>0, <2>2, <3>1, <3>4 DEF Filled, Queues
    <3> QED
      BY <1>0, <2>2, <3>2, <3>3, <3>4
  <2> QED
    BY <2>1, <2>2
<1>3. Len(queue[s]) + 1 \in Nat
  BY <1>0
<1> QED
  BY <1>1, <1>2, <1>3 DEF SocketGets

\* The positions of a socket that loses its head move down by one.
LEMMA ReceivedPlaces ==
    ASSUME BaseInv, NEW s \in Stages, Receive(s)
    PROVE  /\ Filled(s, 1) /\ Queues(s, 1) = Head(queue[s]).id
           /\ \A t \in Stages, i \in Nat :
                 Filled(t, i)' => IF t = s THEN Filled(t, i + 1) /\ i # 0 /\ Queues(t, i)' = Queues(t, i + 1)
                                           ELSE Filled(t, i) /\ Queues(t, i)' = Queues(t, i)
<1>0. queue[s] \in Seq(Items) /\ Len(queue[s]) \in Nat \ {0} /\ queue[s] # << >>
  BY DEF BaseInv, TypeInv, Receive
<1>1. Filled(s, 1) /\ Queues(s, 1) = Head(queue[s]).id
  BY <1>0 DEF Filled, Queues
<1>2. ASSUME NEW t \in Stages, NEW i \in Nat, Filled(t, i)', t # s
      PROVE  Filled(t, i) /\ Queues(t, i)' = Queues(t, i)
  <2>1. queue'[t] = queue[t]
    BY <1>2 DEF BaseInv, TypeInv, Receive
  <2> QED
    BY <1>2, <2>1 DEF Filled, Queues
<1>3. ASSUME NEW i \in Nat, Filled(s, i)'
      PROVE  Filled(s, i + 1) /\ i # 0 /\ Queues(s, i)' = Queues(s, i + 1)
  <2>1. queue'[s] = Tail(queue[s])
    BY DEF BaseInv, TypeInv, Receive
  <2>2. i \in 1 .. (Len(queue[s]) - 1)
    BY <1>0, <1>3, <2>1 DEF Filled
  <2>3. i + 1 \in 1 .. Len(queue[s]) /\ Tail(queue[s])[i] = queue[s][i + 1]
    BY <1>0, <2>2
  <2> QED
    BY <2>1, <2>2, <2>3 DEF Filled, Queues
<1> QED
  BY <1>1, <1>2, <1>3

\* A drained socket fills no position.
LEMMA DrainedPlaces ==
    ASSUME BaseInv, NEW s \in Stages, DrainStage(s)
    PROVE  SocketsKeep
<1> SUFFICES ASSUME NEW t \in Stages, NEW i \in Nat, Filled(t, i)'
             PROVE  Filled(t, i) /\ Queues(t, i)' = Queues(t, i)
  BY DEF SocketsKeep
<1>1. queue'[t] = IF t = s THEN << >> ELSE queue[t]
  BY DEF BaseInv, TypeInv, DrainStage
<1>2. CASE t = s
  BY <1>1, <1>2 DEF Filled
<1>3. CASE t # s
  BY <1>1, <1>3 DEF Filled, Queues
<1> QED
  BY <1>2, <1>3

\* Places that only lose records stay apart.
LEMMA PlacesKept ==
    ASSUME BaseInv, PlacesInv, SocketsKeep, StagesKeep, SlotKeeps, SubmissionKeeps,
           stored' = stored, submitted' = submitted
    PROVE  PlacesInv'
<1> USE Identifiers, ItemTypes
    DEF PlacesInv, SocketsKeep, StagesKeep, SlotKeeps, SubmissionKeeps
<1>1. QueuesApart'
  BY DEF QueuesApart
<1>2. StagesApart'
  BY DEF StagesApart
<1>3. SlotApart'
  BY DEF SlotApart
<1>4. StoreApart'
  BY DEF StoreApart
<1>5. SubmissionApart'
  BY DEF SubmissionApart
<1>6. Drawn'
  BY DEF Drawn
<1> QED
  BY <1>1, <1>2, <1>3, <1>4, <1>5, <1>6

\* A submission begins with a new identifier.
LEMMA PlacesSubmitted ==
    ASSUME BaseInv, PlacesInv, SocketsKeep, StagesKeep, SlotKeeps, stored' = stored,
           submitted' = submitted + 1, ingress'.item.id = submitted + 1
    PROVE  PlacesInv'
<1> USE Identifiers, ItemTypes
    DEF PlacesInv, SocketsKeep, StagesKeep, SlotKeeps, Drawn
<1>1. QueuesApart'
  BY DEF QueuesApart
<1>2. StagesApart'
  BY DEF StagesApart
<1>3. SlotApart'
  BY DEF SlotApart
<1>4. StoreApart'
  BY DEF StoreApart
<1>5. SubmissionApart'
  BY DEF SubmissionApart
<1>6. Drawn'
  BY DEF Drawn
<1> QED
  BY <1>1, <1>2, <1>3, <1>4, <1>5, <1>6

\* A record goes from the submission, the slot or a stage to the end of a socket.
LEMMA PlacesSent ==
    ASSUME BaseInv, PlacesInv, NEW r \in Stages, NEW id \in Nat \ {0}, SocketGets(r, id),
           StagesKeep, SlotKeeps, SubmissionKeeps, stored' = stored, submitted' = submitted,
           \/ Submitting /\ id = ingress.item.id /\ ~Submitting' /\ coalesced' = coalesced
           \/ id = coalesced.id /\ coalesced' = NoItem
           \/ \E p \in Stages : Working(p) /\ id = Works(p) /\ ~Working(p)'
    PROVE  PlacesInv'
<1>0. PICK n \in Nat :
        /\ ~Filled(r, n)
        /\ \A t \in Stages, i \in Nat :
              Filled(t, i)' => \/ Filled(t, i) /\ Queues(t, i)' = Queues(t, i)
                               \/ t = r /\ i = n /\ Queues(t, i)' = id
  BY DEF SocketGets
<1>a. /\ \A t \in Stages, i \in Nat : Filled(t, i) => Queues(t, i) # id
      /\ \A t \in Stages : Working(t)' => Works(t)' # id
      /\ coalesced'.id # id
      /\ \A x \in stored : x.id # id
      /\ (Submitting' => ingress'.item.id # id)
      /\ id <= submitted
  BY Identifiers, ItemTypes DEF PlacesInv, StagesApart, SlotApart, StoreApart, SubmissionApart, Drawn,
         StagesKeep, SlotKeeps, SubmissionKeeps
<1> USE <1>0, <1>a, Identifiers, ItemTypes
    DEF PlacesInv, StagesKeep, SlotKeeps, SubmissionKeeps
<1>1. QueuesApart'
  BY DEF QueuesApart
<1>2. StagesApart'
  BY DEF StagesApart
<1>3. SlotApart'
  BY DEF SlotApart
<1>4. StoreApart'
  BY DEF StoreApart
<1>5. SubmissionApart'
  BY DEF SubmissionApart
<1>6. Drawn'
  BY DEF Drawn
<1> QED
  BY <1>1, <1>2, <1>3, <1>4, <1>5, <1>6

\* The submission goes to the slot.
LEMMA PlacesSlotted ==
    ASSUME BaseInv, PlacesInv, SocketsKeep, StagesKeep, Submitting, ~Submitting',
           coalesced' = ingress.item, stored' = stored, submitted' = submitted
    PROVE  PlacesInv'
<1> USE Identifiers, ItemTypes
    DEF PlacesInv, SocketsKeep, StagesKeep, SubmissionApart
<1>1. QueuesApart'
  BY DEF QueuesApart
<1>2. StagesApart'
  BY DEF StagesApart
<1>3. SlotApart'
  BY DEF SlotApart
<1>4. StoreApart'
  BY DEF StoreApart
<1>5. SubmissionApart'
  BY DEF SubmissionApart
<1>6. Drawn'
  BY DEF Drawn
<1> QED
  BY <1>1, <1>2, <1>3, <1>4, <1>5, <1>6

\* The first message of a socket is dropped, or goes to the stage.
LEMMA PlacesReceived ==
    ASSUME BaseInv, PlacesInv, NEW r \in Stages, Receive(r)
    PROVE  PlacesInv'
<1>0. coalesced' = coalesced /\ ingress' = ingress /\ submitted' = submitted /\ stored' = stored
  BY DEF Receive, ingressVars, history
<1>a. \A s \in Stages :
         Working(s)' => \/ Working(s) /\ Works(s)' = Works(s)
                        \/ s = r /\ ~Working(s) /\ Works(s)' = Queues(r, 1)
  <2>1. ASSUME NEW s \in Stages, Working(s)'
        PROVE  \/ Working(s) /\ Works(s)' = Works(s)
               \/ s = r /\ ~Working(s) /\ Works(s)' = Queues(r, 1)
    <3>1. CASE stage'[s] = stage[s]
      BY <2>1, <3>1 DEF Working, Works
    <3>2. CASE stage' = Took(r, Head(queue[r])) /\ s = r
      <4>1. stage'[s].item = Head(queue[r])
        BY <3>2 DEF Took, BaseInv, TypeInv
      <4>2. stage[s].at = "idle"
        BY <3>2 DEF Receive
      <4> QED
        BY <3>2, <4>1, <4>2, ReceivedPlaces DEF Working, Works
    <3>3. stage' = stage \/ stage' = Took(r, Head(queue[r]))
      BY DEF Receive, Took
    <3>4. stage' = Took(r, Head(queue[r])) /\ s # r => stage'[s] = stage[s]
      BY DEF Took, BaseInv, TypeInv
    <3> QED
      BY <2>1, <3>1, <3>2, <3>3, <3>4
  <2> QED
    BY <2>1
<1>b. /\ Filled(r, 1)
      /\ \A t \in Stages, i \in Nat :
            Filled(t, i)' => IF t = r THEN Filled(t, i + 1) /\ i # 0 /\ Queues(t, i)' = Queues(t, i + 1)
                                      ELSE Filled(t, i) /\ Queues(t, i)' = Queues(t, i)
  BY ReceivedPlaces
<1>c. Submitting' = Submitting
  BY <1>0 DEF Submitting
<1>d. \A i \in Nat : i + 1 \in Nat /\ (i # 0 => i + 1 # 1) /\ \A j \in Nat : i + 1 = j + 1 => i = j
  OBVIOUS
<1> USE <1>0, <1>a, <1>b, <1>c, <1>d, Identifiers
    DEF PlacesInv
<1>1. QueuesApart'
  BY DEF QueuesApart
<1>2. StagesApart'
  <2>1. \A s, t \in Stages : Working(s)' /\ Working(t)' /\ Works(s)' = Works(t)' => s = t
    BY DEF StagesApart
  <2>2. ASSUME NEW s \in Stages, NEW t \in Stages, NEW i \in Nat, Working(s)', Filled(t, i)'
        PROVE  Works(s)' # Queues(t, i)'
    <3>1. CASE Working(s) /\ Works(s)' = Works(s)
      BY <2>2, <3>1 DEF StagesApart
    <3>2. CASE s = r /\ Works(s)' = Queues(r, 1)
      BY <2>2, <3>2 DEF QueuesApart
    <3> QED
      BY <2>2, <3>1, <3>2
  <2> QED
    BY <2>1, <2>2 DEF StagesApart
<1>3. SlotApart'
  BY DEF SlotApart
<1>4. StoreApart'
  BY DEF StoreApart
<1>5. SubmissionApart'
  BY DEF SubmissionApart
<1>6. Drawn'
  BY DEF Drawn
<1> QED
  BY <1>1, <1>2, <1>3, <1>4, <1>5, <1>6

\* The last stage's record goes to the storage.
LEMMA PlacesStored ==
    ASSUME BaseInv, PlacesInv, SocketsKeep, StagesKeep, SubmissionKeeps, coalesced' = coalesced,
           submitted' = submitted, NEW r \in Stages, Working(r), ~Working(r)',
           stored' = stored \cup {stage[r].item}
    PROVE  PlacesInv'
<1>0. stage[r].item.id = Works(r)
  BY DEF Works
<1> USE <1>0, Identifiers
    DEF PlacesInv, SocketsKeep, StagesKeep, SubmissionKeeps
<1>1. QueuesApart'
  BY DEF QueuesApart
<1>2. StagesApart'
  BY DEF StagesApart
<1>3. SlotApart'
  BY DEF SlotApart
<1>4. StoreApart'
  <2>1. ASSUME NEW x \in stored' PROVE x \in stored \/ x.id = Works(r)
    OBVIOUS
  <2>2. \A x \in stored', s \in Stages, i \in Nat : Filled(s, i)' => x.id # Queues(s, i)'
    BY <2>1 DEF StoreApart, StagesApart
  <2>3. \A x \in stored', s \in Stages : Working(s)' => x.id # Works(s)'
    BY <2>1 DEF StoreApart, StagesApart
  <2>4. \A x \in stored' : x.id # coalesced'.id
    BY <2>1 DEF StoreApart, SlotApart
  <2> QED
    BY <2>2, <2>3, <2>4 DEF StoreApart
<1>5. SubmissionApart'
  BY DEF SubmissionApart
<1>6. Drawn'
  BY DEF Drawn
<1> QED
  BY <1>1, <1>2, <1>3, <1>4, <1>5, <1>6

\* A step that sends no message keeps what the sockets have.
LEMMA SameSockets ==
    ASSUME queue' = queue
    PROVE  SocketsKeep
BY DEF SocketsKeep, Filled, Queues

\* Stages that stay as they are keep their records.
LEMMA SameStages ==
    ASSUME stage' = stage
    PROVE  StagesKeep
BY DEF StagesKeep, Working, Works

\* A stage that goes on with its item, or is done with it.
LEMMA StageGoesOn ==
    ASSUME BaseInv, NEW s \in Stages, Working(s),
           NEW a \in {"sending", "committing", "finishing"}, stage' = Went(s, a)
    PROVE  StagesKeep /\ (a = "finishing" => ~Working(s)')
<1>1. ASSUME NEW t \in Stages, Working(t)'
      PROVE  Working(t) /\ Works(t)' = Works(t)
  <2>1. stage'[t].item = stage[t].item /\ (t # s => stage'[t].at = stage[t].at)
    BY DEF Went, BaseInv, TypeInv, StageStates
  <2> QED
    BY <1>1, <2>1 DEF Working, Works
<1>2. a = "finishing" => ~Working(s)'
  BY DEF Went, BaseInv, TypeInv, StageStates, Working
<1> QED
  BY <1>1, <1>2 DEF StagesKeep

\* Every step moves at most one record, and moves it to one place.
LEMMA PlacesNext ==
    ASSUME BaseInv, PlacesInv, [Next]_vars
    PROVE  PlacesInv'
<1>0. TypeInv /\ WorkInv
  BY DEF BaseInv
<1>1. CASE SubmitBegin
  <2>1. SocketsKeep /\ StagesKeep /\ SlotKeeps /\ stored' = stored
    BY <1>1, SameSockets, SameStages DEF SubmitBegin, edgeVars, stageVars, history, SlotKeeps
  <2>2. submitted' = submitted + 1 /\ ingress'.item.id = submitted + 1
    BY <1>1 DEF SubmitBegin
  <2> QED
    BY <2>1, <2>2, PlacesSubmitted
<1>2. CASE SubmitCheck \/ FlushBegin \/ IngressLeave
  <2>1. SocketsKeep /\ StagesKeep /\ SlotKeeps /\ stored' = stored /\ submitted' = submitted
    BY <1>2, SameSockets, SameStages
       DEF SubmitCheck, FlushBegin, IngressLeave, edgeVars, stageVars, history, SlotKeeps
  <2>2. SubmissionKeeps
    <3>1. CASE SubmitCheck
      BY <1>0, <3>1 DEF SubmitCheck, SubmissionKeeps, Submitting, TypeInv, IngressStates
    <3>2. CASE FlushBegin \/ IngressLeave
      BY <3>2 DEF FlushBegin, IngressLeave, SubmissionKeeps, Submitting
    <3> QED
      BY <1>2, <3>1, <3>2
  <2> QED
    BY <2>1, <2>2, PlacesKept
<1>3. CASE SubmitOffer
  <2>1. StagesKeep /\ stored' = stored /\ submitted' = submitted /\ 1 \in Stages
    BY <1>3, SameStages, StageTypes DEF SubmitOffer, stageVars
  <2>2. Submitting /\ ~Submitting' /\ ingress.item \in Items /\ ingress.item.id \in Nat \ {0}
    BY <1>0, <1>3, Identifiers DEF SubmitOffer, Submitting, WorkInv, TypeInv, IngressStates
  <2>3. SubmissionKeeps
    BY <2>2 DEF SubmissionKeeps
  <2>4. CASE queue' = Sent(1, ingress.item) /\ coalesced' = coalesced
    <3>1. SocketGets(1, ingress.item.id)
      BY <2>1, <2>2, <2>4, SentPlaces
    <3>2. SlotKeeps
      BY <2>4 DEF SlotKeeps
    <3> QED
      BY <2>1, <2>2, <2>3, <2>4, <3>1, <3>2, PlacesSent
  <2>5. CASE queue' = queue /\ coalesced' = coalesced
    BY <2>1, <2>3, <2>5, SameSockets, PlacesKept DEF SlotKeeps
  <2>6. CASE queue' = queue /\ coalesced' = ingress.item
    BY <2>1, <2>2, <2>6, SameSockets, PlacesSlotted
  <2> QED
    BY <1>3, <2>4, <2>5, <2>6 DEF SubmitOffer, HandleOverload, edgeVars, Sent
<1>4. CASE FlushCoalesced
  <2>1. StagesKeep /\ stored' = stored /\ submitted' = submitted /\ 1 \in Stages
    BY <1>4, SameStages, StageTypes DEF FlushCoalesced, stageVars
  <2>2. SubmissionKeeps
    BY <1>0, <1>4 DEF FlushCoalesced, SubmissionKeeps, Submitting, TypeInv, IngressStates
  <2>3. CASE coalesced # NoItem /\ queue' = Sent(1, coalesced) /\ coalesced' = NoItem
    <3>1. coalesced \in Items /\ coalesced.id \in Nat \ {0}
      BY <1>0, <2>3, ItemTypes, ConstantTypes DEF WorkInv
    <3>2. SocketGets(1, coalesced.id)
      BY <2>1, <2>3, <3>1, SentPlaces
    <3>3. SlotKeeps
      BY <2>3 DEF SlotKeeps
    <3> QED
      BY <2>1, <2>2, <2>3, <3>1, <3>2, <3>3, PlacesSent
  <2>4. CASE queue' = queue /\ coalesced' \in {coalesced, NoItem}
    BY <2>1, <2>2, <2>4, SameSockets, PlacesKept DEF SlotKeeps
  <2> QED
    BY <1>4, <2>3, <2>4 DEF FlushCoalesced, edgeVars, Sent
<1>5. ASSUME NEW s \in Stages, Receive(s) PROVE PlacesInv'
  BY <1>5, PlacesReceived
<1>6. ASSUME NEW s \in Stages, SendOutput(s) PROVE PlacesInv'
  <2>1. stored' = stored /\ submitted' = submitted /\ coalesced' = coalesced /\ ingress' = ingress
        /\ s + 1 \in Stages /\ stage' = Went(s, "finishing") /\ Working(s)
    BY <1>6, StageTypes DEF SendOutput, ingressVars, Went, Working
  <2>2. StagesKeep /\ ~Working(s)'
    BY <2>1, StageGoesOn
  <2>3. SlotKeeps /\ SubmissionKeeps
    BY <2>1 DEF SlotKeeps, SubmissionKeeps, Submitting
  <2>4. CASE queue' = Sent(s + 1, stage[s].item)
    <3>1. stage[s].item \in Items /\ stage[s].item.id = Works(s) /\ Works(s) \in Nat \ {0}
      BY <1>0, <2>1, Identifiers DEF WorkInv, Working, Works
    <3>2. SocketGets(s + 1, Works(s))
      BY <2>1, <2>4, <3>1, SentPlaces
    <3> QED
      BY <2>1, <2>2, <2>3, <3>1, <3>2, PlacesSent
  <2>5. CASE queue' = queue
    BY <2>1, <2>2, <2>3, <2>5, SameSockets, PlacesKept
  <2> QED
    BY <1>6, <2>4, <2>5 DEF SendOutput, edgeVars, Sent
<1>7. ASSUME NEW s \in Stages, Process(s) PROVE PlacesInv'
  <2>1. stored' = stored /\ submitted' = submitted /\ coalesced' = coalesced /\ ingress' = ingress
        /\ queue' = queue /\ Working(s)
        /\ (stage' = Went(s, "sending") \/ stage' = Went(s, "finishing"))
    BY <1>7 DEF Process, ingressVars, edgeVars, history, Went, Working
  <2>2. StagesKeep
    BY <2>1, StageGoesOn
  <2>3. SlotKeeps /\ SubmissionKeeps
    BY <2>1 DEF SlotKeeps, SubmissionKeeps, Submitting
  <2> QED
    BY <2>1, <2>2, <2>3, SameSockets, PlacesKept
<1>8. CASE PersistBegin
  <2>1. stored' = stored /\ submitted' = submitted /\ coalesced' = coalesced /\ ingress' = ingress
        /\ queue' = queue /\ Last \in Stages /\ Working(Last)
        /\ (stage' = Went(Last, "committing") \/ stage' = Went(Last, "finishing"))
    BY <1>8, StageTypes DEF PersistBegin, ingressVars, edgeVars, history, Went, Working
  <2>2. StagesKeep
    BY <2>1, StageGoesOn
  <2>3. SlotKeeps /\ SubmissionKeeps
    BY <2>1 DEF SlotKeeps, SubmissionKeeps, Submitting
  <2> QED
    BY <2>1, <2>2, <2>3, SameSockets, PlacesKept
<1>9. CASE PersistEnd
  <2>1. submitted' = submitted /\ coalesced' = coalesced /\ ingress' = ingress /\ queue' = queue
        /\ Last \in Stages /\ Working(Last) /\ stage' = Went(Last, "finishing")
        /\ (stored' = stored \/ stored' = stored \cup {stage[Last].item})
    BY <1>9, StageTypes DEF PersistEnd, ingressVars, edgeVars, Went, Working
  <2>2. StagesKeep /\ ~Working(Last)'
    BY <2>1, StageGoesOn
  <2>3. SlotKeeps /\ SubmissionKeeps
    BY <2>1 DEF SlotKeeps, SubmissionKeeps, Submitting
  <2> QED
    BY <2>1, <2>2, <2>3, SameSockets, PlacesKept, PlacesStored
<1>10. ASSUME NEW s \in Stages, FinishMessage(s) PROVE PlacesInv'
  <2>1. stored' = stored /\ submitted' = submitted /\ coalesced' = coalesced /\ ingress' = ingress
        /\ queue' = queue
    BY <1>10 DEF FinishMessage, ingressVars, history
  <2>2. ASSUME NEW t \in Stages, Working(t)' PROVE Working(t) /\ Works(t)' = Works(t)
    <3>1. t # s /\ stage'[t] = stage[t]
      BY <1>0, <1>10, <2>2 DEF FinishMessage, TypeInv, Working
    <3> QED
      BY <2>2, <3>1 DEF Working, Works
  <2>3. StagesKeep
    BY <2>2 DEF StagesKeep
  <2>4. SlotKeeps /\ SubmissionKeeps
    BY <2>1 DEF SlotKeeps, SubmissionKeeps, Submitting
  <2> QED
    BY <2>1, <2>3, <2>4, SameSockets, PlacesKept
<1>11. ASSUME NEW s \in Stages, DrainStage(s) PROVE PlacesInv'
  <2>1. stored' = stored /\ submitted' = submitted /\ coalesced' = coalesced /\ ingress' = ingress
        /\ stage' = stage
    BY <1>11 DEF DrainStage, ingressVars, history
  <2>2. SlotKeeps /\ SubmissionKeeps
    BY <2>1 DEF SlotKeeps, SubmissionKeeps, Submitting
  <2> QED
    BY <1>11, <2>1, <2>2, SameStages, DrainedPlaces, PlacesKept
<1>12. CASE UNCHANGED <<ingress, submitted, queue, stage, stored>> /\ coalesced' \in {coalesced, NoItem}
  <2>1. SlotKeeps /\ SubmissionKeeps
    BY <1>12 DEF SlotKeeps, SubmissionKeeps, Submitting
  <2> QED
    BY <1>12, <2>1, SameSockets, SameStages, PlacesKept
<1>13. CASE \/ Open \/ PauseOrResume \/ FaultAgain \/ StopFaulted \/ DrainStep \/ UNCHANGED vars
            \/ (\E s \in Stages : PollFails(s))
            \/ \E why \in {"stop", "block", "fault"} : Invalidate(why)
  BY <1>12, <1>13
     DEF PollFails, Open, PauseOrResume, Invalidate, FaultAgain, StopFaulted, DrainStep, DrainCancel,
         DrainWaits, DrainBuffers, DrainEnds, ClearCoalesced, ingressVars, edgeVars, stageVars,
         history, vars
<1> QED
  BY <1>1, <1>2, <1>3, <1>4, <1>5, <1>6, <1>7, <1>8, <1>9, <1>10, <1>11, <1>13
     DEF Next, IngressStep, StageStep, MessageStep

\* No record is anywhere at first.
LEMMA PlacesInit ==
    ASSUME Init
    PROVE  PlacesInv
<1>1. \A s \in Stages, i \in Nat : ~Filled(s, i)
  BY DEF Init, Filled
<1>2. \A s \in Stages : ~Working(s)
  BY DEF Init, Working
<1>3. stored = {} /\ ~Submitting /\ coalesced.id = 0 /\ submitted = 0
  BY ItemTypes DEF Init, Submitting
<1> QED
  BY <1>1, <1>2, <1>3
     DEF PlacesInv, QueuesApart, StagesApart, SlotApart, StoreApart, SubmissionApart, Drawn

\* A set whose elements are equal has at most one.
LEMMA AtMostOne ==
    ASSUME NEW S, \A x, y \in S : x = y
    PROVE  Cardinality(S) \in {0, 1} /\ (S = {} => Cardinality(S) = 0)
<1>1. CASE S = {}
  BY <1>1, FS_EmptySet
<1>2. CASE S # {}
  <2>1. PICK x \in S : S = {x}
    BY <1>2
  <2>2. Cardinality({x}) = 1
    BY FS_Singleton, Zenon
  <2> QED
    BY <2>1, <2>2
<1> QED
  BY <1>1, <1>2

\* With the places apart, the four counts of a record add up to one at most.
LEMMA PlacesOnce ==
    ASSUME BaseInv, PlacesInv
    PROVE  ItemOnce
<1> SUFFICES ASSUME NEW id \in 1 .. submitted
             PROVE  Cardinality({s \in Stages : stage[s].at \in {"processing", "sending", "committing"}
                                                  /\ stage[s].item.id = id})
                    + Cardinality({p \in Stages \X (1..(RawCapacity + StageCapacity)) :
                                      p[2] <= Len(queue[p[1]]) /\ queue[p[1]][p[2]].id = id})
                    + (IF coalesced.id = id THEN 1 ELSE 0)
                    + (IF \E x \in stored : x.id = id THEN 1 ELSE 0) <= 1
  BY DEF ItemOnce
<1> DEFINE A == {s \in Stages : stage[s].at \in {"processing", "sending", "committing"}
                                  /\ stage[s].item.id = id}
           B == {p \in Stages \X (1..(RawCapacity + StageCapacity)) :
                    p[2] <= Len(queue[p[1]]) /\ queue[p[1]][p[2]].id = id}
<1>1. \A s \in A : s \in Stages /\ Working(s) /\ Works(s) = id
  BY DEF Working, Works
<1>2. ASSUME NEW p \in B
      PROVE  p[1] \in Stages /\ p[2] \in Nat /\ Filled(p[1], p[2]) /\ Queues(p[1], p[2]) = id
             /\ p = <<p[1], p[2]>>
  <2>1. p[1] \in Stages /\ p[2] \in 1..(RawCapacity + StageCapacity) /\ p = <<p[1], p[2]>>
        /\ p[2] <= Len(queue[p[1]]) /\ queue[p[1]][p[2]].id = id
    OBVIOUS
  <2>2. Len(queue[p[1]]) \in Nat
    BY <2>1 DEF BaseInv, TypeInv
  <2> QED
    BY <2>1, <2>2, ConstantTypes DEF Filled, Queues
<1> HIDE DEF A, B
<1>3. \A s, t \in A : s = t
  BY <1>1 DEF PlacesInv, StagesApart
<1>4. \A p, q \in B : p = q
  BY <1>2 DEF PlacesInv, QueuesApart
<1>5. A # {} => B = {} /\ coalesced.id # id /\ ~\E x \in stored : x.id = id
  BY <1>1, <1>2 DEF PlacesInv, StagesApart, SlotApart, StoreApart
<1>6. B # {} => coalesced.id # id /\ ~\E x \in stored : x.id = id
  BY <1>2 DEF PlacesInv, SlotApart, StoreApart
<1>7. coalesced.id = id => ~\E x \in stored : x.id = id
  BY DEF PlacesInv, StoreApart
<1>8. Cardinality(A) \in {0, 1} /\ Cardinality(B) \in {0, 1}
      /\ (A = {} => Cardinality(A) = 0) /\ (B = {} => Cardinality(B) = 0)
  BY <1>3, <1>4, AtMostOne
<1>9. Cardinality(A) + Cardinality(B) + (IF coalesced.id = id THEN 1 ELSE 0)
        + (IF \E x \in stored : x.id = id THEN 1 ELSE 0) <= 1
  BY <1>5, <1>6, <1>7, <1>8
<1> QED
  BY <1>9 DEF A, B

\* A record is in at most one place: the slot, one socket, one stage or the
\* storage.
THEOREM RecordsInOnePlace == Spec => []ItemOnce
<1>1. Init => PlacesInv
  BY PlacesInit
<1>2. BaseInv /\ PlacesInv /\ [Next]_vars => PlacesInv'
  BY PlacesNext
<1>3. BaseInv /\ PlacesInv => ItemOnce
  BY PlacesOnce
<1> QED
  BY <1>1, <1>2, <1>3, BaseInvariance, PTL DEF Spec

=============================================================================
