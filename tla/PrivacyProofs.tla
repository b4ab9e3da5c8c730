---------------------------- MODULE PrivacyProofs ----------------------------
(***************************************************************************)
(* What the machine may look at, keep and show, for every set of contexts, *)
(* jobs, records and providers:                                            *)
(*   - Policy: no guarded work starts that the rules of its moment forbid; *)
(*     PolicyInv ties every authorisation a job holds to the engine's      *)
(*     generation;                                                         *)
(*   - SessionDetection: a session is reported unlocked only if logind's   *)
(*     hint was false since the query began; DetectionInv ties the hint and*)
(*     the answer of the query under way to that history;                  *)
(*   - AdaptiveCapture: a change is captured only after it lasted, a frame *)
(*     is dropped only near the one that was kept; AdaptiveInv ties the    *)
(*     pending change to what every poll saw and the span to what was kept;*)
(*   - Retrieval: what leaves and what is cited was judged; AnswerInv      *)
(*     follows a question through its phases.                              *)
(* The four components share no state.                                     *)
(***************************************************************************)
EXTENDS Policy, SessionDetection, AdaptiveCapture, Retrieval, FiniteSetTheorems, TLAPS

-----------------------------------------------------------------------------
(* PolicyEngine and PolicyGuard.                                           *)

\* Markers, the engine's state, contexts at their time, authorizations, jobs.
MarkedValues == UNION {{c["window"], c["workspace"]} : c \in Contexts}
Markers == [scope : {"window", "workspace"}, value : MarkedValues, expires : Int, generation : Int]
EngineStates ==
    [config : Configurations, healthy : BOOLEAN, privacy : BOOLEAN, locked : BOOLEAN,
     temporary : SUBSET Markers]
Timed(c, t, g) == [c EXCEPT !.at = t, !.generation = g]
TimedContexts ==
    {None} \cup {Timed(s[1], s[2], s[3]) : s \in Contexts \X Int \X Int}
Grants == {None} \cup [generation : Int, config : Configurations, capture : Int]
JobPlaces == {"idle", "authorized", "acting", "captured", "approved", "persisting"}
JobStates ==
    [at : JobPlaces, ctx : TimedContexts, op : {None, "screenshot", "remote-provider"},
     auth : Grants, later : TimedContexts]

EngineInv ==
    /\ policy \in EngineStates
    /\ generation \in 1 .. MaxPolicyGeneration
    /\ clock \in Nat /\ captureGeneration \in Nat
    /\ jobs \in [PolicyJobs -> JobStates]

\* The policy p allows the operation in the context, of the context's time.
Permits(p, op, c) ==
    Evaluate([p EXCEPT !.temporary = {m \in p.temporary : m.expires > c.at}], op, c).allowed

\* While the generation of its authorization is current, the policy in force still
\* permits what a job was authorized for, and what it evaluated again.
JobInv(j) ==
    /\ jobs[j].at # "idle" =>
          jobs[j].auth.generation \in Int /\ jobs[j].auth.generation <= generation
    /\ jobs[j].at # "idle" /\ jobs[j].auth.generation = generation =>
          Permits(policy, jobs[j].op, jobs[j].ctx)
    /\ jobs[j].at = "approved" /\ jobs[j].auth.generation = generation =>
          Permits(policy, "screenshot", jobs[j].later)

PolicyInv == EngineInv /\ \A j \in PolicyJobs : JobInv(j)

\* A change of the engine moves the generation, so that it ends every authorization.
LEMMA ChangedKeeps ==
    ASSUME PolicyInv, NEW new \in EngineStates, Changed(new)
    PROVE  PolicyInv'
<1>1. EngineInv'
  BY PolicyAssumption DEF PolicyInv, EngineInv, Changed
<1>2. ASSUME NEW j \in PolicyJobs PROVE JobInv(j)'
  <2>1. JobInv(j) /\ jobs' = jobs /\ generation \in Int /\ generation' = generation + 1
    BY DEF PolicyInv, EngineInv, Changed
  <2> QED BY <2>1 DEF JobInv
<1> QED BY <1>1, <1>2 DEF PolicyInv

\* Privacy mode, session lock, markers and configurations are changes.
LEMMA SettingsKeep ==
    ASSUME PolicyInv,
           \/ \E b \in BOOLEAN : SetPrivacyMode(b) \/ SetSessionLocked(b)
           \/ \E scope \in {"window", "workspace"}, ctx \in Contexts :
                 MarkCurrentSensitive(scope, ctx, 1)
           \/ \E scopes \in {{"window"}, {"window", "workspace"}} : ClearTemporary(scopes)
           \/ \E config \in Configurations \cup {BrokenConfiguration} : ReplacePolicy(config)
    PROVE  PolicyInv'
<1>1. policy \in EngineStates /\ clock \in Int /\ captureGeneration \in Int
  BY ONLY PolicyInv, SMTT(30) DEF PolicyInv, EngineInv
<1>2. ASSUME NEW b \in BOOLEAN, SetPrivacyMode(b) \/ SetSessionLocked(b) PROVE PolicyInv'
  <2>1. \A T \in SUBSET Markers :
           /\ [policy EXCEPT !.privacy = b, !.temporary = T] \in EngineStates
           /\ [policy EXCEPT !.locked = b, !.temporary = T] \in EngineStates
    BY <1>1 DEF EngineStates
  <2>2. (IF b THEN {} ELSE policy.temporary) \in SUBSET Markers
    BY <1>1 DEF EngineStates
  <2>3. \E new \in EngineStates : Changed(new)
    BY <1>2, <2>1, <2>2, Zenon DEF SetPrivacyMode, SetSessionLocked
  <2> QED BY <2>3, ChangedKeeps
<1>3. ASSUME NEW scope \in {"window", "workspace"}, NEW ctx \in Contexts,
             MarkCurrentSensitive(scope, ctx, 1)
      PROVE  PolicyInv'
  <2> DEFINE marker == [scope |-> scope, value |-> ctx[scope], expires |-> clock + 1,
                        generation |-> captureGeneration]
             marked == {m \in policy.temporary : m.scope # scope} \cup {marker}
  <2>1. ctx[scope] \in MarkedValues
    BY DEF MarkedValues
  <2>2. marker \in Markers
    BY <1>1, <2>1 DEF Markers
  <2>3. marked \in SUBSET Markers
    BY <1>1, <2>2 DEF EngineStates
  <2>4. Changed([policy EXCEPT !.temporary = marked])
    BY <1>3 DEF MarkCurrentSensitive
  <2> HIDE DEF marked
  <2>5. [policy EXCEPT !.temporary = marked] \in EngineStates
    BY <1>1, <2>3 DEF EngineStates
  <2> QED BY <2>4, <2>5, ChangedKeeps
<1>4. ASSUME NEW scopes, ClearTemporary(scopes) PROVE PolicyInv'
  <2> DEFINE left == {m \in policy.temporary : m.scope \notin scopes}
  <2>1. left \in SUBSET Markers
    BY <1>1 DEF EngineStates
  <2>2. Changed([policy EXCEPT !.temporary = left])
    BY <1>4 DEF ClearTemporary
  <2> HIDE DEF left
  <2>3. [policy EXCEPT !.temporary = left] \in EngineStates
    BY <1>1, <2>1 DEF EngineStates
  <2> QED BY <2>2, <2>3, ChangedKeeps
<1>5. ASSUME NEW config \in Configurations \cup {BrokenConfiguration}, ReplacePolicy(config)
      PROVE  PolicyInv'
  <2>1. [policy EXCEPT !.healthy = FALSE] \in EngineStates
    BY <1>1 DEF EngineStates
  <2>2. config \in Configurations =>
           [policy EXCEPT !.config = config, !.healthy = TRUE, !.temporary = {}] \in EngineStates
    BY <1>1 DEF EngineStates
  <2> QED BY <1>5, <2>1, <2>2, ChangedKeeps DEF ReplacePolicy
<1> QED BY <1>2, <1>3, <1>4, <1>5

\* What a snapshot does to the engine: nothing when no marker ran out, and otherwise a
\* new generation; evaluated again at the same time it is the same.
LEMMA SnapshotEffect ==
    ASSUME PolicyInv, TakesSnapshot
    PROVE  /\ policy' \in EngineStates
           /\ policy' = Snapshot(clock)
           /\ generation' \in 1 .. MaxPolicyGeneration
           /\ generation' = SnapshotGeneration
           /\ \/ policy' = policy /\ generation' = generation
              \/ generation' = generation + 1
           /\ [policy' EXCEPT !.temporary = {m \in policy'.temporary : m.expires > clock}] = policy'
<1>1. policy \in EngineStates /\ generation \in 1 .. MaxPolicyGeneration
  BY DEF PolicyInv, EngineInv
<1>2. policy' = [policy EXCEPT !.temporary = Live] /\ generation' = SnapshotGeneration
  BY DEF TakesSnapshot, Snapshot, Live
<1>3. Live \in SUBSET Markers
  BY <1>1 DEF Live, EngineStates
<1>4. policy' \in EngineStates /\ policy'.temporary = Live
  BY <1>1, <1>2, <1>3 DEF EngineStates
<1>5. generation' \in 1 .. MaxPolicyGeneration
  BY <1>1, <1>2, PolicyAssumption DEF SnapshotGeneration, TakesSnapshot
<1>6. Live = policy.temporary => policy' = policy
  BY <1>1, <1>2 DEF EngineStates
<1>7. {m \in Live : m.expires > clock} = Live
  BY DEF Live
<1>8. [policy' EXCEPT !.temporary = {m \in policy'.temporary : m.expires > clock}] = policy'
  <2>1. [policy' EXCEPT !.temporary = policy'.temporary] = policy'
    BY <1>4 DEF EngineStates
  <2> QED BY <1>4, <1>7, <2>1
<1> QED BY <1>2, <1>4, <1>5, <1>6, <1>8 DEF SnapshotGeneration, TakesSnapshot

\* A context is stamped with the time and the generation of the moment.
LEMMA Stamped ==
    ASSUME PolicyInv, NEW ctx \in Contexts
    PROVE  At(ctx) \in TimedContexts /\ At(ctx).at = clock
<1>1. {"at", "generation"} \subseteq DOMAIN ctx
  BY PolicyAssumption
<1>2. At(ctx) \in TimedContexts
  <2>1. <<ctx, clock, captureGeneration>> \in Contexts \X Int \X Int
    BY DEF PolicyInv, EngineInv
  <2>2. At(ctx) = Timed(ctx, clock, captureGeneration)
    BY DEF At, Timed
  <2> QED BY <2>1, <2>2 DEF TimedContexts
<1>3. At(ctx).at = clock
  BY <1>1 DEF At
<1> QED BY <1>2, <1>3

\* Evaluating a snapshot with a stamped context is asking the engine it leaves.
LEMMA EvaluatedIsPermitted ==
    ASSUME PolicyInv, TakesSnapshot, NEW ctx \in Contexts, NEW op,
           Evaluate(Snapshot(clock), op, At(ctx)).allowed
    PROVE  Permits(policy', op, At(ctx))
<1>1. [policy' EXCEPT !.temporary = {m \in policy'.temporary : m.expires > At(ctx).at}] = policy'
  BY SnapshotEffect, Stamped
<1>2. policy' = Snapshot(clock)
  BY SnapshotEffect
<1> QED BY <1>1, <1>2, Zenon DEF Permits

\* A job that a snapshot does not touch keeps what it was granted.
LEMMA OthersKeep ==
    ASSUME PolicyInv, TakesSnapshot, NEW j \in PolicyJobs, jobs'[j] = jobs[j]
    PROVE  JobInv(j)'
<1>1. CASE policy' = policy /\ generation' = generation
  BY <1>1 DEF PolicyInv, JobInv
<1>2. CASE generation' = generation + 1
  <2>1. JobInv(j) /\ generation \in Int
    BY DEF PolicyInv, EngineInv
  <2> QED BY <1>2, <2>1 DEF JobInv
<1> QED BY <1>1, <1>2, SnapshotEffect

\* authorize: a grant of the generation that the snapshot leaves.
LEMMA AuthorizeKeeps ==
    ASSUME PolicyInv, NEW k \in PolicyJobs, NEW op \in {"screenshot", "remote-provider"},
           NEW ctx \in Contexts, Authorize(k, op, ctx) \/ AuthorizeDenied(k, op, ctx)
    PROVE  PolicyInv'
<1>1. TakesSnapshot /\ UNCHANGED <<clock, captureGeneration>>
  BY DEF Authorize, AuthorizeDenied
<1>2. CASE Authorize(k, op, ctx)
  <2> DEFINE grant == [generation |-> SnapshotGeneration, config |-> policy.config,
                       capture |-> captureGeneration]
             job == [at |-> "authorized", ctx |-> At(ctx), op |-> op, later |-> None,
                     auth |-> grant]
  <2>1. jobs' = [jobs EXCEPT ![k] = job]
    BY <1>2 DEF Authorize
  <2>2. grant \in Grants /\ grant.generation = generation'
    BY <1>1, SnapshotEffect DEF PolicyInv, EngineInv, EngineStates, Grants
  <2>3. None \in TimedContexts
    BY DEF TimedContexts
  <2> HIDE DEF grant
  <2>4. job \in JobStates /\ job.at = "authorized" /\ job.ctx = At(ctx) /\ job.op = op
        /\ job.auth = grant
    BY <2>2, <2>3, Stamped DEF JobStates, JobPlaces
  <2> HIDE DEF job
  <2>5. jobs' \in [PolicyJobs -> JobStates] /\ jobs'[k] = job
    BY <2>1, <2>4 DEF PolicyInv, EngineInv
  <2>6. EngineInv'
    BY <1>1, <2>5, SnapshotEffect DEF PolicyInv, EngineInv
  <2>7. Permits(policy', op, At(ctx))
    BY <1>1, <1>2, EvaluatedIsPermitted DEF Authorize
  <2>8. JobInv(k)'
    BY <2>2, <2>4, <2>5, <2>6, <2>7 DEF JobInv, EngineInv
  <2>9. ASSUME NEW j \in PolicyJobs, j # k PROVE JobInv(j)'
    BY <1>1, <2>1, <2>9, OthersKeep DEF PolicyInv, EngineInv
  <2> QED BY <2>6, <2>8, <2>9 DEF PolicyInv
<1>3. CASE AuthorizeDenied(k, op, ctx)
  <2>1. jobs' = jobs
    BY <1>3 DEF AuthorizeDenied
  <2>2. EngineInv'
    BY <1>1, <2>1, SnapshotEffect DEF PolicyInv, EngineInv
  <2> QED BY <1>1, <2>1, <2>2, OthersKeep DEF PolicyInv
<1> QED BY <1>2, <1>3

\* The state of a job that ended.
LEMMA IdleJob == Idle \in JobStates /\ Idle.at = "idle"
<1>1. None \in TimedContexts /\ None \in Grants
  BY DEF TimedContexts, Grants
<1> QED BY <1>1 DEF Idle, JobStates, JobPlaces

\* persist: the second evaluation, with the context of that moment.
LEMMA PersistEvaluateKeeps ==
    ASSUME PolicyInv, NEW k \in PolicyJobs, NEW ctx \in Contexts, PersistEvaluate(k, ctx)
    PROVE  PolicyInv'
<1>1. TakesSnapshot /\ UNCHANGED <<clock, captureGeneration>> /\ jobs[k].at = "captured"
  BY DEF PersistEvaluate
<1>2. jobs \in [PolicyJobs -> JobStates]
  BY DEF PolicyInv, EngineInv
<1>3. CASE /\ Evaluate(Snapshot(clock), "screenshot", At(ctx)).allowed
           /\ jobs' = [jobs EXCEPT ![k].at = "approved", ![k].later = At(ctx)]
  <2>1. At(ctx) \in TimedContexts
    BY Stamped
  <2>2. /\ jobs' \in [PolicyJobs -> JobStates]
        /\ jobs'[k].at = "approved" /\ jobs'[k].later = At(ctx)
        /\ jobs'[k].op = jobs[k].op /\ jobs'[k].ctx = jobs[k].ctx /\ jobs'[k].auth = jobs[k].auth
        /\ \A j \in PolicyJobs \ {k} : jobs'[j] = jobs[j]
    BY <1>2, <1>3, <2>1 DEF JobStates, JobPlaces
  <2>3. EngineInv'
    BY <1>1, <2>2, SnapshotEffect DEF PolicyInv, EngineInv
  <2>4. Permits(policy', "screenshot", At(ctx))
    BY <1>1, <1>3, EvaluatedIsPermitted
  <2>5. JobInv(k)'
    <3>1. JobInv(k) /\ generation \in Int
      BY DEF PolicyInv, EngineInv
    <3>2. CASE policy' = policy /\ generation' = generation
      BY <1>1, <2>2, <2>4, <3>1, <3>2 DEF JobInv
    <3>3. CASE generation' = generation + 1
      BY <1>1, <2>2, <3>1, <3>3 DEF JobInv
    <3> QED BY <1>1, <3>2, <3>3, SnapshotEffect
  <2>6. ASSUME NEW j \in PolicyJobs, j # k PROVE JobInv(j)'
    BY <1>1, <2>2, <2>6, OthersKeep
  <2> QED BY <2>3, <2>5, <2>6 DEF PolicyInv
<1>4. CASE jobs' = [jobs EXCEPT ![k] = Idle]
  <2>1. /\ jobs' \in [PolicyJobs -> JobStates] /\ jobs'[k].at = "idle"
        /\ \A j \in PolicyJobs \ {k} : jobs'[j] = jobs[j]
    BY <1>2, <1>4, IdleJob
  <2>2. EngineInv'
    BY <1>1, <2>1, SnapshotEffect DEF PolicyInv, EngineInv
  <2>3. JobInv(k)'
    BY <2>1 DEF JobInv
  <2>4. ASSUME NEW j \in PolicyJobs, j # k PROVE JobInv(j)'
    BY <1>1, <2>1, <2>4, OthersKeep
  <2> QED BY <2>2, <2>3, <2>4 DEF PolicyInv
<1> QED BY <1>3, <1>4 DEF PersistEvaluate

\* A job that goes on under the same policy and the same authorization, or ends.
LEMMA JobKeeps ==
    ASSUME PolicyInv, NEW k \in PolicyJobs, NEW place \in JobPlaces \ {"idle", "approved"},
           jobs[k].at # "idle",
           \/ jobs' = [jobs EXCEPT ![k].at = place]
           \/ jobs' = [jobs EXCEPT ![k] = Idle],
           UNCHANGED <<policy, generation, clock, captureGeneration>>
    PROVE  PolicyInv'
<1>1. jobs \in [PolicyJobs -> JobStates]
  BY DEF PolicyInv, EngineInv
<1>2. /\ jobs' \in [PolicyJobs -> JobStates]
      /\ \/ /\ jobs'[k].at = place
            /\ jobs'[k].op = jobs[k].op /\ jobs'[k].ctx = jobs[k].ctx
            /\ jobs'[k].auth = jobs[k].auth
         \/ jobs'[k].at = "idle"
      /\ \A j \in PolicyJobs \ {k} : jobs'[j] = jobs[j]
  <2>1. CASE jobs' = [jobs EXCEPT ![k].at = place]
    BY <1>1, <2>1 DEF JobStates
  <2>2. CASE jobs' = [jobs EXCEPT ![k] = Idle]
    BY <1>1, <2>2, IdleJob
  <2> QED BY <2>1, <2>2
<1>3. EngineInv'
  BY <1>2 DEF PolicyInv, EngineInv
<1>4. ASSUME NEW j \in PolicyJobs PROVE JobInv(j)'
  <2>1. JobInv(j)
    BY DEF PolicyInv
  <2> QED BY <1>2, <2>1 DEF JobInv
<1> QED BY <1>3, <1>4 DEF PolicyInv

\* The guard, and the end of an action.
LEMMA InvokeKeeps ==
    ASSUME PolicyInv, NEW k \in PolicyJobs,
           CaptureInvoke(k) \/ PersistInvoke(k) \/ ActionEnds(k)
    PROVE  PolicyInv'
<1>1. CASE CaptureInvoke(k) \/ PersistInvoke(k)
  BY <1>1, JobKeeps DEF CaptureInvoke, PersistInvoke, GuardInvoke, JobPlaces
<1>2. CASE ActionEnds(k)
  <2>1. \/ jobs' = [jobs EXCEPT ![k].at = "captured"]
        \/ jobs' = [jobs EXCEPT ![k] = Idle]
    BY <1>2 DEF ActionEnds
  <2> QED BY <1>2, <2>1, JobKeeps DEF ActionEnds, JobPlaces
<1> QED BY <1>1, <1>2

\* Time passes, and the lifecycle's generation moves.
LEMMA PassesKeeps ==
    ASSUME PolicyInv, Passes
    PROVE  PolicyInv'
<1>1. EngineInv'
  BY DEF PolicyInv, EngineInv, Passes
<1>2. ASSUME NEW j \in PolicyJobs PROVE JobInv(j)'
  BY DEF PolicyInv, JobInv, Passes
<1> QED BY <1>1, <1>2 DEF PolicyInv

\* No job runs.
LEMMA InitPolicyInv == PolicyInit => PolicyInv
<1> SUFFICES ASSUME PolicyInit PROVE PolicyInv
  OBVIOUS
<1>1. (CHOOSE c \in Configurations : TRUE) \in Configurations
  BY PolicyAssumption
<1>2. policy \in EngineStates
  BY <1>1 DEF PolicyInit, EngineStates
<1>3. EngineInv
  BY <1>2, IdleJob, PolicyAssumption DEF PolicyInit, EngineInv
<1>4. ASSUME NEW j \in PolicyJobs PROVE JobInv(j)
  BY IdleJob DEF PolicyInit, JobInv
<1> QED BY <1>3, <1>4 DEF PolicyInv

\* Every step keeps the invariant.
LEMMA NextPolicyInv == PolicyInv /\ [PolicyNext]_policyVars => PolicyInv'
<1> SUFFICES ASSUME PolicyInv, [PolicyNext]_policyVars PROVE PolicyInv'
  OBVIOUS
<1>1. CASE UNCHANGED policyVars
  BY <1>1 DEF PolicyInv, EngineInv, JobInv, policyVars
<1>2. ASSUME NEW j \in PolicyJobs,
             \/ \E op \in {"screenshot", "remote-provider"}, ctx \in Contexts :
                   Authorize(j, op, ctx) \/ AuthorizeDenied(j, op, ctx)
             \/ CaptureInvoke(j) \/ ActionEnds(j) \/ PersistInvoke(j)
             \/ \E ctx \in Contexts : PersistEvaluate(j, ctx)
      PROVE  PolicyInv'
  BY <1>2, AuthorizeKeeps, InvokeKeeps, PersistEvaluateKeeps
<1> QED BY <1>1, <1>2, PassesKeeps, SettingsKeep DEF PolicyNext

\* What the guard starts, the policy in force permits.
LEMMA StartsPermitted ==
    ASSUME PolicyInv, [PolicyNext]_policyVars, NEW j \in PolicyJobs,
           jobs'[j].at \in {"acting", "persisting"}, jobs[j].at # jobs'[j].at
    PROVE  /\ Permits(policy, jobs[j].op, jobs[j].ctx)
           /\ jobs[j].at = "approved" => Permits(policy, "screenshot", jobs[j].later)
<1>1. jobs \in [PolicyJobs -> JobStates] /\ JobInv(j)
  BY DEF PolicyInv, EngineInv
<1>2. PICK k \in PolicyJobs :
        \/ \E op, ctx : Authorize(k, op, ctx)
        \/ CaptureInvoke(k) \/ ActionEnds(k) \/ PersistInvoke(k)
        \/ \E ctx : PersistEvaluate(k, ctx)
  <2>1. jobs' # jobs
    OBVIOUS
  <2>2. ~Passes /\ \A new : ~Changed(new)
    BY <2>1 DEF Passes, Changed
  <2>3. \A b : ~SetPrivacyMode(b) /\ ~SetSessionLocked(b)
    BY <2>2, Zenon DEF SetPrivacyMode, SetSessionLocked
  <2>4. \A scope, ctx : ~MarkCurrentSensitive(scope, ctx, 1)
    BY <2>2, Zenon DEF MarkCurrentSensitive
  <2>5. /\ \A scopes : ~ClearTemporary(scopes)
        /\ \A config : ~ReplacePolicy(config)
    BY <2>2, Zenon DEF ClearTemporary, ReplacePolicy
  <2>6. \A k, op, ctx : ~AuthorizeDenied(k, op, ctx)
    BY <2>1 DEF AuthorizeDenied
  <2> QED BY <2>1, <2>2, <2>3, <2>4, <2>5, <2>6, Zenon DEF PolicyNext, policyVars
<1>3. CASE \E op, ctx : Authorize(k, op, ctx)
  BY <1>1, <1>3 DEF Authorize
<1>4. CASE CaptureInvoke(k) \/ PersistInvoke(k)
  <2>1. /\ k = j /\ AuthorizationCurrent(j)
        /\ jobs[j].at \in {"authorized", "approved"}
    BY <1>1, <1>4 DEF CaptureInvoke, PersistInvoke, GuardInvoke, Idle
  <2> QED BY <1>1, <2>1 DEF JobInv, AuthorizationCurrent
<1>5. CASE ActionEnds(k)
  <2>1. \/ jobs' = [jobs EXCEPT ![k].at = "captured"]
        \/ jobs' = [jobs EXCEPT ![k] = Idle]
    BY <1>5 DEF ActionEnds
  <2>2. CASE jobs' = [jobs EXCEPT ![k].at = "captured"]
    BY <1>1, <2>2 DEF JobStates
  <2>3. CASE jobs' = [jobs EXCEPT ![k] = Idle]
    BY <1>1, <2>3, IdleJob
  <2> QED BY <2>1, <2>2, <2>3
<1>6. CASE \E ctx : PersistEvaluate(k, ctx)
  <2>1. \/ \E ctx : jobs' = [jobs EXCEPT ![k].at = "approved", ![k].later = ctx]
        \/ jobs' = [jobs EXCEPT ![k] = Idle]
    BY <1>6 DEF PersistEvaluate
  <2>2. ASSUME NEW ctx, jobs' = [jobs EXCEPT ![k].at = "approved", ![k].later = ctx]
        PROVE  FALSE
    BY <1>1, <2>2 DEF JobStates
  <2>3. CASE jobs' = [jobs EXCEPT ![k] = Idle]
    BY <1>1, <2>3, IdleJob
  <2> QED BY <2>1, <2>2, <2>3
<1> QED BY <1>2, <1>3, <1>4, <1>5, <1>6

\* When the guard lets a capture, a persist or downstream work begin, the policy in
\* force allows it for the context it was authorized for and evaluated in: every
\* change that can turn an allow into a deny moves the generation.
THEOREM GuardActsOnPolicy == PolicySpec => PolicyGoverns
<1>1. PolicyInit => PolicyInv
  BY InitPolicyInv
<1>2. PolicyInv /\ [PolicyNext]_policyVars => PolicyInv'
  BY NextPolicyInv
<1>3. PolicyInv => PolicyTypeOK
  <2> SUFFICES ASSUME PolicyInv PROVE PolicyTypeOK
    OBVIOUS
  <2>1. generation \in 1 .. MaxPolicyGeneration /\ policy.config \in Configurations
    BY DEF PolicyInv, EngineInv, EngineStates
  <2>2. ASSUME NEW j \in PolicyJobs
        PROVE  /\ jobs[j].at \in JobPlaces
               /\ jobs[j].at # "idle" => jobs[j].auth.generation <= generation
    BY DEF PolicyInv, EngineInv, JobInv, JobStates
  <2> QED BY <2>1, <2>2 DEF PolicyTypeOK, JobPlaces
<1>4. PolicyInv /\ [PolicyNext]_policyVars =>
        [\A j \in PolicyJobs :
          jobs'[j].at \in {"acting", "persisting"} /\ jobs[j].at # jobs'[j].at =>
              /\ Evaluate(Snapshot(jobs[j].ctx.at), jobs[j].op, jobs[j].ctx).allowed
              /\ jobs[j].at = "approved" =>
                    Evaluate(Snapshot(jobs[j].later.at), "screenshot", jobs[j].later).allowed]_policyVars
  BY StartsPermitted DEF Permits, Snapshot
<1> QED BY <1>1, <1>2, <1>3, <1>4, PTL DEF PolicySpec, PolicyGoverns, ActsOnCurrentPolicy


-----------------------------------------------------------------------------
(* LogindLockStateSource and BusctlLogindSignalMonitor.                    *)

\* A hint that is false now has been false since the query began, and a query that read a
\* released hint read it after it began: only the beginning of another query forgets.
ReadIsFree == (~hint => free) /\ (query = "UNLOCKED" => free)

DetectionInv ==
    /\ DetectionTypeOK
    /\ signals \in Seq({"Lock", "Unlock"})
    /\ ReadIsFree

\* Every step of the lock source keeps what was read and what it means.
LEMMA DetectionStep ==
    ASSUME DetectionInv, [DetectionNext]_logindVars
    PROVE  DetectionInv' /\ (seen' = "UNLOCKED" /\ seen # "UNLOCKED" => free)
<1> USE DetectionAssumption DEF DetectionInv, DetectionTypeOK, ReadIsFree
<1>1. CASE Environment
  <2>1. ASSUME NEW s \in {"Lock", "Unlock"}, Len(signals) < MaxSignals,
               signals' = Append(signals, s)
        PROVE  signals' \in Seq({"Lock", "Unlock"}) /\ Len(signals') <= MaxSignals
    BY <2>1
  <2>2. signals' \in Seq({"Lock", "Unlock"}) /\ Len(signals') <= MaxSignals
    BY <1>1, <2>1 DEF Environment
  <2>3. hint' \in BOOLEAN /\ free' \in BOOLEAN /\ (free => free')
    BY <1>1, Zenon DEF Environment
  <2> QED BY <1>1, <2>2, <2>3 DEF Environment
<1>2. CASE ObserveBegin
  BY <1>2 DEF ObserveBegin
<1>3. CASE ResolvePath
  BY <1>3 DEF ResolvePath
<1>4. CASE AskHint
  BY <1>4 DEF AskHint
<1>5. CASE ObserveEnd
  BY <1>5 DEF ObserveEnd
<1>6. CASE ObserveFails
  BY <1>6 DEF ObserveFails
<1>7. CASE Signal
  <2>1. signals' \in Seq({"Lock", "Unlock"}) /\ Len(signals') <= MaxSignals
    BY <1>7 DEF Signal
  <2> QED BY <1>7, <2>1 DEF Signal, SignalState
<1>8. CASE MonitorEnds
  BY <1>8 DEF MonitorEnds
<1>9. CASE UNCHANGED logindVars
  BY <1>9 DEF logindVars
<1> QED
  BY <1>1, <1>2, <1>3, <1>4, <1>5, <1>6, <1>7, <1>8, <1>9 DEF DetectionNext

\* The lock watcher reports an unlocked session only when logind's hint was released at
\* some time since the query that reports it began, whatever signals arrive meanwhile,
\* however often the session path is forgotten and whenever the monitor dies
\* (LogindLockStateSource.observe, signal_observation).
THEOREM LockReportsProven == DetectionSpec => DetectionSound
<1>1. DetectionInit => DetectionInv
  <2>1. << >> \in Seq({"Lock", "Unlock"}) /\ Len(<< >>) = 0
    OBVIOUS
  <2>2. DetectionInit => ReadIsFree
    BY DetectionAssumption DEF DetectionInit, ReadIsFree
  <2>3. DetectionInit => DetectionTypeOK
    <3> SUFFICES ASSUME DetectionInit PROVE DetectionTypeOK
      OBVIOUS
    <3>1. Len(signals) <= MaxSignals
      BY <2>1, DetectionAssumption DEF DetectionInit
    <3> QED BY <3>1 DEF DetectionInit, DetectionTypeOK
  <2> QED BY <2>1, <2>2, <2>3 DEF DetectionInit, DetectionInv
<1>2. DetectionInv /\ [DetectionNext]_logindVars
         => DetectionInv' /\ (seen' = "UNLOCKED" /\ seen # "UNLOCKED" => free)
  BY DetectionStep
<1>3. DetectionInv => DetectionTypeOK
  BY DEF DetectionInv
<1> QED BY <1>1, <1>2, <1>3, PTL DEF DetectionSpec, DetectionSound, UnlockedIsProven

-----------------------------------------------------------------------------
(* AdaptiveCaptureController and AdaptiveCaptureFlow.                      *)

Moments == [context : DedupContexts, at : Int]
Flows == [context : DedupContexts, at : Int, trigger : {"cadence", "context-change"}]

AdaptiveShapes ==
    /\ ticks \in Int
    /\ last \in {None} \cup Moments
    /\ pending \in {None} \cup Moments
    /\ keySince \in {None} \cup Moments
    /\ flow \in {None} \cup Flows

\* A pending change is the context every poll has seen since it was noted, or longer.
PendingSeen ==
    /\ keySince # None => keySince.at <= ticks
    /\ pending # None =>
          keySince # None /\ keySince.context = pending.context /\ keySince.at <= pending.at

\* The span to compare with is that of the frame admitted last.
SpanIsKept == span # None => kept = span

AdaptiveInv == AdaptiveShapes /\ AdaptiveTypeOK /\ DebounceHolds /\ PendingSeen /\ SpanIsKept

\* A poll sees the context of the one before, or another since now.
LEMMA ObserveSees ==
    ASSUME AdaptiveInv, NEW c \in DedupContexts, Observe(c)
    PROVE  /\ keySince' \in Moments /\ keySince' # None /\ keySince'.context = c
           /\ keySince'.at <= ticks
           /\ keySince # None /\ keySince.context = c => keySince' = keySince
<1>1. [context |-> c, at |-> ticks] \in Moments
  BY DEF AdaptiveInv, AdaptiveShapes, Moments
<1>2. [context |-> c, at |-> ticks] # None
  BY <1>1, AdaptiveAssumption DEF Moments
<1> QED BY <1>1, <1>2 DEF AdaptiveInv, AdaptiveShapes, PendingSeen, Observe, Moments

\* Two contexts of the last scope with the same key are the same.
LEMMA SameContext ==
    ASSUME NEW c \in DedupContexts, NEW d \in DedupContexts, c.scope = d.scope, c.key = d.key
    PROVE  c = d
BY DEF DedupContexts

\* A poll that captures nothing keeps the debounce honest.
LEMMA PollSkipsKeeps ==
    ASSUME AdaptiveInv, NEW c \in DedupContexts, PollSkips(c)
    PROVE  AdaptiveInv'
<1>1. last # None /\ last \in Moments /\ c.scope = last.context.scope
  BY DEF PollSkips, Trigger, AdaptiveInv, AdaptiveShapes
<1>2. CASE c.key = last.context.key
  BY <1>1, <1>2, ObserveSees
  DEF PollSkips, PendingAfterPoll, AdaptiveInv, AdaptiveShapes, AdaptiveTypeOK, DebounceHolds,
      PendingSeen, SpanIsKept
<1>3. CASE c.key # last.context.key /\ SamePending(c)
  <2>1. pending' = pending /\ pending # None /\ pending.context = c
    BY <1>1, <1>3, SameContext
    DEF PollSkips, PendingAfterPoll, SamePending, AdaptiveInv, AdaptiveShapes, AdaptiveTypeOK, Moments
  <2>2. keySince' = keySince
    BY <2>1, ObserveSees DEF PollSkips, AdaptiveInv, PendingSeen
  <2> QED BY <2>1, <2>2
    DEF PollSkips, AdaptiveInv, AdaptiveShapes, AdaptiveTypeOK, DebounceHolds, PendingSeen, SpanIsKept
<1>4. CASE c.key # last.context.key /\ ~SamePending(c)
  <2>1. pending' = [context |-> c, at |-> ticks] /\ pending' \in Moments
    BY <1>1, <1>4 DEF PollSkips, PendingAfterPoll, AdaptiveInv, AdaptiveShapes, Moments
  <2>2. keySince' \in Moments /\ keySince' # None /\ keySince'.context = c /\ keySince'.at <= ticks
    BY ObserveSees DEF PollSkips
  <2> QED BY <1>1, <1>4, <2>1, <2>2
    DEF PollSkips, AdaptiveInv, AdaptiveShapes, AdaptiveTypeOK, DebounceHolds, PendingSeen,
        SpanIsKept, Moments
<1> QED BY <1>2, <1>3, <1>4

\* A capture for a changed context starts when the debounce time has passed.
LEMMA CaptureStartsKeeps ==
    ASSUME AdaptiveInv, NEW c \in DedupContexts, CaptureStarts(c)
    PROVE  AdaptiveInv'
<1>1. Trigger(c) \in {"cadence", "context-change"}
  BY DEF CaptureStarts, Trigger
<1>2. flow' \in Flows /\ flow'.context = c /\ flow'.at = ticks /\ flow'.trigger = Trigger(c)
  BY <1>1 DEF CaptureStarts, Flows, AdaptiveInv, AdaptiveShapes
<1>3. last' \in Moments
  BY DEF CaptureStarts, Moments, AdaptiveInv, AdaptiveShapes
<1>4. keySince' \in Moments
  BY ObserveSees DEF CaptureStarts
<1>5. AdaptiveShapes'
  BY <1>2, <1>3, <1>4 DEF CaptureStarts, AdaptiveInv, AdaptiveShapes
<1>6. AdaptiveTypeOK' /\ PendingSeen' /\ SpanIsKept'
  BY ObserveSees DEF CaptureStarts, AdaptiveInv, AdaptiveTypeOK, PendingSeen, SpanIsKept
<1>7. DebounceHolds'
  <2> SUFFICES ASSUME Trigger(c) = "context-change"
               PROVE  keySince'.context = c /\ ticks - keySince'.at >= Debounce
    BY <1>2 DEF DebounceHolds
  <2>1. /\ last # None /\ c.scope = last.context.scope
        /\ SamePending(c) /\ ticks - pending.at >= Debounce
    BY DEF Trigger
  <2>2. pending # None /\ pending.context = c
    BY <2>1, SameContext DEF SamePending, AdaptiveInv, AdaptiveShapes, AdaptiveTypeOK, Moments
  <2>3. keySince' = keySince
    BY <2>2, ObserveSees DEF CaptureStarts, AdaptiveInv, PendingSeen
  <2> QED BY <2>1, <2>2, <2>3, AdaptiveAssumption
    DEF AdaptiveInv, AdaptiveShapes, PendingSeen, Moments
<1> QED BY <1>5, <1>6, <1>7 DEF AdaptiveInv

\* Every step of the controller keeps the invariant.
LEMMA AdaptiveStep ==
    ASSUME AdaptiveInv, [AdaptiveNext]_adaptiveVars
    PROVE  AdaptiveInv'
<1> USE DEF AdaptiveInv, AdaptiveShapes, DebounceHolds, PendingSeen, SpanIsKept
<1>1. CASE Tick
  BY <1>1 DEF Tick, AdaptiveTypeOK, Moments
<1>2. CASE NoteOverload
  BY <1>2, AdaptiveAssumption DEF NoteOverload, AdaptiveTypeOK, Multipliers
<1>3. CASE NoteSuccess
  BY <1>3, AdaptiveAssumption DEF NoteSuccess, AdaptiveTypeOK, Multipliers
<1>4. CASE ControllerReset
  BY <1>4, AdaptiveAssumption DEF ControllerReset, AdaptiveTypeOK, Multipliers
<1>5. CASE CaptureFails
  BY <1>5 DEF CaptureFails, AdaptiveTypeOK
<1>6. CASE \E c \in DedupContexts : PollSkips(c) \/ CaptureStarts(c)
  BY <1>6, PollSkipsKeeps, CaptureStartsKeeps
<1>7. CASE FrameClassified
  BY <1>7 DEF FrameClassified, FrameAdmitted, FrameCoalesced, AdaptiveTypeOK
<1>8. CASE UNCHANGED adaptiveVars
  BY <1>8 DEF adaptiveVars, AdaptiveTypeOK
<1> QED
  BY <1>1, <1>2, <1>3, <1>4, <1>5, <1>6, <1>7, <1>8 DEF AdaptiveNext

\* The controller captures a changed context only once every poll of the debounce time
\* has seen it, and drops a frame as a duplicate only when the frame admitted last has its
\* context and differs from it in at most the threshold, through resets and overloads
\* between a capture and its classification (poll, classify_frame).
THEOREM CapturesFaithful == AdaptiveSpec => CaptureFaithful
<1>1. AdaptiveInit => AdaptiveInv
  BY AdaptiveAssumption
  DEF AdaptiveInit, AdaptiveInv, AdaptiveShapes, AdaptiveTypeOK, DebounceHolds, PendingSeen,
      SpanIsKept, Multipliers
<1>2. AdaptiveInv /\ [AdaptiveNext]_adaptiveVars => AdaptiveInv'
  BY AdaptiveStep
<1>3. AdaptiveInv =>
         \A f \in SUBSET Bits :
            FrameCoalesced(f) =>
                /\ kept # None /\ kept.context = flow.context
                /\ Distance(kept.fingerprint, f) <= Threshold
  BY DEF AdaptiveInv, SpanIsKept, FrameCoalesced, SameSpan
<1>4. AdaptiveInv => AdaptiveTypeOK /\ DebounceHolds
  BY DEF AdaptiveInv
<1> QED BY <1>1, <1>2, <1>3, <1>4, PTL DEF AdaptiveSpec, CaptureFaithful, CoalescedIsCovered

-----------------------------------------------------------------------------
(* A question, from its policy decision to its answer.                     *)

AskPhases ==
    {"authorize", "list", "search", "fetch", "permit", "recheck", "evidence", "route", "build",
     "remote", "local", "parse", "answered", "insufficient", "failed"}
Retrieving == {"list", "search", "fetch", "permit", "recheck"}
Sent == {"remote", "parse", "answered", "failed"}

Asks ==
    [phase : AskPhases, q : Questions, authorization : Authorizations, mode : RoutingModes,
     revision : Nat, eligible : BOOLEAN, todo : Seq(AnswerRecords),
     scored : SUBSET AnswerRecords, passages : SUBSET AnswerRecords, batch : Seq(AnswerRecords),
     provider : DOMAIN ProviderOf \cup {None}, attempts : 0 .. MaxAttempts,
     claims : {<< >>} \cup ProviderClaims, permitted : BOOLEAN]

Elements(s) == {s[i] : i \in DOMAIN s}
Distinct(s) == \A i, j \in DOMAIN s : s[i] = s[j] => i = j
Grant(r, remote, rev) == [record |-> r, allowed |-> TRUE, remote |-> remote, revision |-> rev]

AskShape ==
    /\ holdings \subseteq AnswerRecords /\ revision \in 1 .. MaxRevision
    /\ ask = NoQuestion \/ ask \in Asks
    /\ vanished \cap holdings = {}
    /\ ask = NoQuestion =>
          grants = {} /\ vanished = {} /\ outbox = << >> /\ egressAudited = {}

\* The record being judged has been fetched and matches, no record is judged twice, and
\* the answer to it is among the grants.
CandidateInv ==
    /\ Distinct(ask.todo) /\ Elements(ask.todo) \cap ask.passages = {}
    /\ ask.phase = "authorize" => grants = {}
    /\ ask.phase \in {"authorize", "list", "search"} => ask.passages = {}
    /\ ask.phase \in {"permit", "recheck"} =>
          ask.todo # << >> /\ MatchesQuery(ask.q, Head(ask.todo))
    /\ ask.phase = "recheck" => Grant(Head(ask.todo), ask.permitted, ask.revision) \in grants

\* Every passage was judged under the revision of the question, for remote use too when
\* the question is eligible for it, and was still stored afterwards.
PassageInv ==
    /\ \A r \in ask.passages :
          /\ MatchesQuery(ask.q, r) /\ r \notin vanished
          /\ \E remote \in BOOLEAN :
                Grant(r, remote, ask.revision) \in grants /\ (ask.eligible => remote)
    /\ ask.phase \in Retrieving \/ ask.passages # {} => \A g \in grants : g.revision = ask.revision

\* The batch holds passages, and from the evidence table on only those that score enough.
BatchInv ==
    /\ Elements(ask.batch) \subseteq ask.passages
    /\ ask.phase \in Retrieving \cup {"authorize"} => ask.batch = << >>
    /\ ask.phase \in {"route", "build", "remote", "local", "parse", "answered"} =>
          \A r \in Elements(ask.batch) : RecordOf[r].score >= MinimumScore
    /\ ask.phase = "answered" =>
          \A c \in Elements(ask.claims) : \A l \in Elements(c.labels) : l \in DOMAIN ask.batch

\* What the route, the gate and the request builder checked.
Sendable ==
    /\ ask.mode = "remote-explicit" /\ ask.authorization # None
    /\ ask.authorization.provider = ask.provider /\ (ProviderOf[ask.provider].audit => ask.provider \in egressAudited)
    /\ ask.eligible /\ \A r \in Elements(ask.batch) : ~RecordOf[r].secret

EgressInv ==
    /\ ask.phase = "build" => Sendable
    /\ ask.phase = "remote" => Sendable /\ ask.batch # << >> /\ ask.attempts < MaxAttempts
    /\ ask.phase \notin Sent => outbox = << >> /\ ask.attempts = 0
    /\ outbox # << >> => Sendable /\ ask.batch # << >>
    /\ outbox \in Seq({[provider |-> ask.provider, records |-> Elements(ask.batch)]})
    /\ ask.phase = "remote" => Len(outbox) <= ask.attempts
    /\ Len(outbox) <= MaxAttempts

AnswerInv ==
    /\ AskShape
    /\ ask # NoQuestion => CandidateInv /\ PassageInv /\ BatchInv /\ EgressInv

\* The elements of a sequence.
LEMMA ElementsIsToSet == \A s : ToSet(s) = Elements(s)
BY DEF ToSet, Elements

\* A question under way is a record of its own.
LEMMA AskOrNot == \A a \in Asks : a # NoQuestion
<1>1. \A a \in Asks : a.phase # "idle"
  BY DEF Asks, AskPhases
<1>2. NoQuestion.phase = "idle"
  BY DEF NoQuestion
<1> QED BY <1>1, <1>2

\* A list in order holds elements of its set, each once.
LEMMA ListedOnce ==
    ASSUME NEW S, IsFiniteSet(S), NEW s \in SetToSeqs(S)
    PROVE  s \in Seq(S) /\ Distinct(s) /\ Elements(s) \subseteq S
<1>1. Cardinality(S) \in Nat
  BY FS_CardinalityType
<1>2. s \in [1 .. Cardinality(S) -> S]
  BY DEF SetToSeqs
<1>3. Distinct(s)
  BY DEF SetToSeqs, Distinct
<1> QED BY <1>1, <1>2, <1>3 DEF Elements

\* The first n elements of a list are a list of its elements.
LEMMA FirstOnes ==
    ASSUME NEW S, NEW s \in Seq(S), Distinct(s), NEW n \in Nat
    PROVE  UpTo(n, s) \in Seq(S) /\ Distinct(UpTo(n, s)) /\ Elements(UpTo(n, s)) \subseteq Elements(s)
<1> DEFINE m == IF n < Len(s) THEN n ELSE Len(s)
           t == SubSeq(s, 1, m)
<1>1. m \in 0 .. Len(s)
  OBVIOUS
<1> HIDE DEF m
<1>2. t \in Seq(S) /\ DOMAIN t = 1 .. m /\ 1 .. m \subseteq DOMAIN s /\ \A i \in 1 .. m : t[i] = s[i]
  BY <1>1
<1> HIDE DEF t
<1>3. Distinct(t) /\ Elements(t) \subseteq Elements(s)
  BY <1>2 DEF Distinct, Elements
<1> QED BY <1>2, <1>3 DEF t, m, UpTo

\* The head of a list and what is left.
LEMMA HeadAndTail ==
    ASSUME NEW S, NEW s \in Seq(S), s # << >>, Distinct(s)
    PROVE  /\ Head(s) \in Elements(s) /\ Head(s) \in S
           /\ Tail(s) \in Seq(S) /\ Distinct(Tail(s))
           /\ Elements(Tail(s)) \subseteq Elements(s) \ {Head(s)}
<1>1. Len(s) \in Nat \ {0} /\ DOMAIN s = 1 .. Len(s) /\ Head(s) = s[1] /\ s[1] \in S
  OBVIOUS
<1>2. /\ Tail(s) \in Seq(S) /\ DOMAIN Tail(s) = 1 .. (Len(s) - 1)
      /\ \A i \in 1 .. (Len(s) - 1) : Tail(s)[i] = s[i + 1]
  BY <1>1
<1>3. ASSUME NEW i \in DOMAIN Tail(s), NEW j \in DOMAIN Tail(s), Tail(s)[i] = Tail(s)[j]
      PROVE  i = j
  BY <1>1, <1>2, <1>3 DEF Distinct
<1>4. ASSUME NEW i \in DOMAIN Tail(s)
      PROVE  Tail(s)[i] \in Elements(s) /\ Tail(s)[i] # Head(s)
  BY <1>1, <1>2 DEF Distinct, Elements
<1> QED BY <1>1, <1>2, <1>3, <1>4 DEF Distinct, Elements

\* A question begins with nothing.
LEMMA AskKeeps ==
    ASSUME AnswerInv, NEW q \in Questions, NEW a \in Authorizations, NEW m \in RoutingModes, Ask(q, a, m)
    PROVE  AnswerInv'
<1>1. ask' \in Asks
  BY RetrievalAssumption DEF Ask, Asks, AskPhases
<1>2. /\ ask'.phase = "authorize" /\ ask'.todo = << >> /\ ask'.passages = {} /\ ask'.batch = << >>
      /\ ask'.attempts = 0 /\ ask'.claims = << >> /\ ask = NoQuestion
      /\ grants' = {} /\ vanished' = {} /\ outbox' = << >>
      /\ UNCHANGED <<holdings, revision, egressAudited>>
  BY DEF Ask, AnswerInv, AskShape
<1>3. AskShape'
  BY <1>1, <1>2, AskOrNot DEF AnswerInv, AskShape
<1>4. Distinct(<< >>) /\ Elements(<< >>) = {}
  BY DEF Distinct, Elements
<1>5. CandidateInv' /\ PassageInv' /\ BatchInv'
  BY <1>2, <1>4 DEF CandidateInv, PassageInv, BatchInv
<1>6. EgressInv'
  BY <1>2, RetrievalAssumption DEF EgressInv, Sent
<1> QED BY <1>3, <1>5, <1>6 DEF AnswerInv

\* An empty batch ends the retrieval.
LEMMA EmptyBatchKeeps ==
    ASSUME AnswerInv, ask \in Asks, ask.phase \in Retrieving \cup {"authorize"},
           NEW rev \in Nat, EmptyBatch(rev),
           UNCHANGED <<holdings, revision, outbox, egressAudited>>, vanished' \cap holdings = {}
    PROVE  AnswerInv'
<1>1. ask' \in Asks
  <2>1. << >> \in Seq(AnswerRecords) /\ {} \in SUBSET AnswerRecords /\ "evidence" \in AskPhases
    BY DEF AskPhases
  <2> QED BY <2>1 DEF EmptyBatch, Asks
<1>2. /\ ask'.phase = "evidence" /\ ask'.batch = << >> /\ ask'.passages = {}
      /\ ask'.todo = ask.todo /\ ask'.attempts = ask.attempts /\ ask'.provider = ask.provider
  BY DEF EmptyBatch, Asks
<1>3. CandidateInv /\ EgressInv /\ ask.phase \notin Sent
  BY AskOrNot DEF AnswerInv, Retrieving, Sent
<1>4. AskShape'
  BY <1>1, AskOrNot DEF AnswerInv, AskShape
<1>5. Distinct(<< >>) /\ Elements(<< >>) = {}
  BY DEF Distinct, Elements
<1>6. CandidateInv' /\ PassageInv' /\ BatchInv'
  BY <1>2, <1>3, <1>5 DEF CandidateInv, PassageInv, BatchInv, Retrieving
<1>7. EgressInv'
  BY <1>2, <1>3, RetrievalAssumption DEF EgressInv, Sent
<1> QED BY <1>4, <1>6, <1>7 DEF AnswerInv

\* A question fails while it is retrieved: what was gathered is left as it is.
LEMMA RaisesKeeps ==
    ASSUME AnswerInv, ask # NoQuestion, RetrievalRaises
    PROVE  AnswerInv'
<1>1. /\ ask \in Asks /\ CandidateInv /\ PassageInv /\ BatchInv /\ EgressInv /\ AskShape
      /\ ask.phase \in Retrieving \cup {"authorize"} /\ ask.phase \notin Sent
  BY DEF AnswerInv, AskShape, RetrievalRaises, Retrieving, Sent
<1>2. /\ ask' \in Asks /\ ask'.phase = "failed" /\ ask'.batch = ask.batch
      /\ ask'.passages = ask.passages /\ ask'.todo = ask.todo /\ ask'.q = ask.q
      /\ ask'.revision = ask.revision /\ ask'.eligible = ask.eligible
      /\ ask'.attempts = ask.attempts /\ ask'.provider = ask.provider
  BY <1>1 DEF RetrievalRaises, Fails, Asks, AskPhases
<1>3. UNCHANGED <<holdings, revision, grants, vanished, outbox, egressAudited>>
  BY DEF RetrievalRaises
<1>4. AskShape'
  BY <1>1, <1>2, <1>3, AskOrNot DEF AskShape
<1>5. CandidateInv' /\ PassageInv' /\ BatchInv'
  BY <1>1, <1>2, <1>3 DEF CandidateInv, PassageInv, BatchInv, Retrieving, MatchesQuery
<1>6. EgressInv'
  BY <1>1, <1>2, <1>3, RetrievalAssumption DEF EgressInv, Sent
<1> QED BY <1>4, <1>5, <1>6 DEF AnswerInv

\* The question's policy decision, the candidates and the semantic scores.
LEMMA SearchKeeps ==
    ASSUME AnswerInv, ask # NoQuestion,
           \/ \E allowed, remote \in BOOLEAN : AuthorizeQuery(allowed, remote)
           \/ ListStep
           \/ \E hits \in SUBSET AnswerRecords : SemanticScores(hits)
    PROVE  AnswerInv'
<1>1. ask \in Asks /\ CandidateInv /\ PassageInv /\ BatchInv /\ EgressInv /\ revision \in Nat
      /\ holdings \subseteq AnswerRecords /\ vanished \cap holdings = {} /\ ask.revision \in Nat
  BY RetrievalAssumption DEF AnswerInv, AskShape, Asks
<1>2. ASSUME NEW allowed \in BOOLEAN, NEW remote \in BOOLEAN, AuthorizeQuery(allowed, remote)
      PROVE  AnswerInv'
  <2>1. CASE EmptyBatch(revision)
    BY <1>1, <1>2, <2>1, EmptyBatchKeeps DEF AuthorizeQuery
  <2>2. CASE ask' = [ask EXCEPT !.phase = "list", !.eligible = remote, !.revision = revision]
    <3>1. ask' \in Asks
      BY <1>1, <2>2 DEF Asks, AskPhases
    <3>2. /\ ask'.phase = "list" /\ ask'.batch = ask.batch /\ ask'.passages = ask.passages
          /\ ask'.todo = ask.todo /\ ask'.attempts = ask.attempts /\ ask'.provider = ask.provider
          /\ ask.phase = "authorize"
      BY <1>1, <1>2, <2>2 DEF Asks, AuthorizeQuery
    <3>3. AskShape'
      BY <1>2, <3>1, AskOrNot DEF AnswerInv, AskShape, AuthorizeQuery
    <3>4. CandidateInv' /\ PassageInv'
      BY <1>1, <1>2, <3>2 DEF CandidateInv, PassageInv, AuthorizeQuery
    <3>5. BatchInv'
      BY <1>1, <3>2 DEF BatchInv, Retrieving
    <3>6. EgressInv'
      BY <1>1, <1>2, <3>2 DEF EgressInv, Sent, AuthorizeQuery
    <3> QED BY <3>3, <3>4, <3>5, <3>6 DEF AnswerInv
  <2> QED BY <1>2, <2>1, <2>2 DEF AuthorizeQuery
<1>3. CASE ListStep
  <2>1. PICK list \in ListCandidates(ask.q) : ask' = [ask EXCEPT !.phase = "search", !.todo = list]
    BY <1>3 DEF ListStep
  <2>2. list \in Seq(AnswerRecords) /\ Distinct(list)
    <3> DEFINE S == {r \in holdings : RecordOf[r].day \in ask.q.startDay .. ask.q.endDay}
    <3>1. PICK s \in SetToSeqs(S) : list = UpTo(ask.q.candidates, s)
      BY <2>1 DEF ListCandidates, InOrder
    <3>2. IsFiniteSet(S) /\ S \subseteq AnswerRecords
      BY <1>1, RetrievalAssumption, FS_Subset
    <3> HIDE DEF S
    <3>3. s \in Seq(S) /\ Distinct(s) /\ ask.q.candidates \in Nat
      BY <1>1, <3>1, <3>2, ListedOnce, RetrievalAssumption DEF Asks
    <3>4. list \in Seq(S) /\ Distinct(list)
      BY <3>1, <3>3, FirstOnes
    <3> QED BY <3>2, <3>4
  <2>3. ask' \in Asks
    BY <1>1, <2>1, <2>2 DEF Asks, AskPhases
  <2>4. /\ ask'.phase = "search" /\ ask'.batch = ask.batch /\ ask'.passages = {} /\ ask'.todo = list
        /\ ask'.attempts = ask.attempts /\ ask'.provider = ask.provider
        /\ ask'.revision = ask.revision /\ ask.phase = "list"
    BY <1>1, <1>3, <2>1 DEF Asks, ListStep, CandidateInv
  <2>5. AskShape'
    BY <1>3, <2>3, AskOrNot DEF AnswerInv, AskShape, ListStep
  <2>6. CandidateInv' /\ PassageInv'
    BY <1>1, <1>3, <2>2, <2>4 DEF CandidateInv, PassageInv, ListStep, Retrieving
  <2>7. BatchInv'
    BY <1>1, <2>4 DEF BatchInv, Retrieving, Elements
  <2>8. EgressInv'
    BY <1>1, <1>3, <2>4 DEF EgressInv, Sent, ListStep
  <2> QED BY <2>5, <2>6, <2>7, <2>8 DEF AnswerInv
<1>4. ASSUME NEW hits \in SUBSET AnswerRecords, SemanticScores(hits) PROVE AnswerInv'
  <2>1. CASE EmptyBatch(ask.revision)
    BY <1>1, <1>4, <2>1, EmptyBatchKeeps DEF SemanticScores, Retrieving
  <2>2. CASE ask' = [ask EXCEPT !.phase = "fetch", !.scored = hits \cap ToSet(ask.todo)]
    <3>1. ask' \in Asks
      BY <1>1, <2>2 DEF Asks, AskPhases
    <3>2. /\ ask'.phase = "fetch" /\ ask'.batch = ask.batch /\ ask'.passages = ask.passages
          /\ ask'.todo = ask.todo /\ ask'.attempts = ask.attempts /\ ask'.provider = ask.provider
          /\ ask'.revision = ask.revision /\ ask'.q = ask.q /\ ask'.eligible = ask.eligible
          /\ ask.phase = "search"
      BY <1>1, <1>4, <2>2 DEF Asks, SemanticScores
    <3>3. AskShape'
      BY <1>4, <3>1, AskOrNot DEF AnswerInv, AskShape, SemanticScores
    <3>4. CandidateInv' /\ PassageInv'
      BY <1>1, <1>4, <3>2 DEF CandidateInv, PassageInv, SemanticScores, Retrieving
    <3>5. BatchInv'
      BY <1>1, <3>2 DEF BatchInv, Retrieving
    <3>6. EgressInv'
      BY <1>1, <1>4, <3>2 DEF EgressInv, Sent, SemanticScores
    <3> QED BY <3>3, <3>4, <3>5, <3>6 DEF AnswerInv
  <2> QED BY <1>4, <2>1, <2>2 DEF SemanticScores
<1> QED BY <1>2, <1>3, <1>4

\* One candidate after the other is fetched, judged and looked at again.
LEMMA FetchKeeps ==
    ASSUME AnswerInv, ask # NoQuestion, FetchCandidate
    PROVE  AnswerInv'
<1>1. ask \in Asks /\ CandidateInv /\ PassageInv /\ BatchInv /\ EgressInv
  BY DEF AnswerInv, AskShape
<1>2. ask.todo \in Seq(AnswerRecords) /\ ask.todo # << >> /\ Distinct(ask.todo) /\ ask.phase = "fetch"
  BY <1>1 DEF Asks, FetchCandidate, CandidateInv
<1>3. /\ Tail(ask.todo) \in Seq(AnswerRecords) /\ Distinct(Tail(ask.todo))
      /\ Elements(Tail(ask.todo)) \subseteq Elements(ask.todo)
  BY <1>2, HeadAndTail
<1>4. \/ ask' = [ask EXCEPT !.phase = "permit"] /\ MatchesQuery(ask.q, Head(ask.todo))
      \/ ask' = [ask EXCEPT !.todo = Tail(ask.todo)]
  BY DEF FetchCandidate
<1>5. ask' \in Asks
  <2>1. CASE ask' = [ask EXCEPT !.phase = "permit"]
    BY <1>1, <2>1 DEF Asks, AskPhases
  <2>2. CASE ask' = [ask EXCEPT !.todo = Tail(ask.todo)]
    BY <1>1, <1>3, <2>2 DEF Asks
  <2> QED BY <1>4, <2>1, <2>2
<1>6. /\ ask'.batch = ask.batch /\ ask'.passages = ask.passages /\ ask'.attempts = ask.attempts
      /\ ask'.provider = ask.provider /\ ask'.revision = ask.revision /\ ask'.q = ask.q
      /\ ask'.eligible = ask.eligible
      /\ \/ ask'.phase = "permit" /\ ask'.todo = ask.todo /\ MatchesQuery(ask.q, Head(ask.todo))
         \/ ask'.phase = "fetch" /\ ask'.todo = Tail(ask.todo)
  BY <1>1, <1>2, <1>4 DEF Asks
<1>7. AskShape'
  BY <1>5, AskOrNot DEF AnswerInv, AskShape, FetchCandidate
<1>8. CandidateInv'
  <2>1. Distinct(ask.todo) /\ Elements(ask.todo) \cap ask.passages = {}
    BY <1>1 DEF CandidateInv
  <2>2. Distinct(ask'.todo) /\ Elements(ask'.todo) \cap ask'.passages = {}
    <3>1. CASE ask'.todo = ask.todo
      BY <1>6, <2>1, <3>1
    <3>2. CASE ask'.todo = Tail(ask.todo)
      BY <1>3, <1>6, <2>1, <3>2
    <3> QED BY <1>6, <3>1, <3>2
  <2>3. ask'.phase \in {"fetch", "permit"}
    BY <1>6
  <2>4. ask'.phase = "permit" => ask'.todo # << >> /\ MatchesQuery(ask'.q, Head(ask'.todo))
    BY <1>2, <1>6, SMTT(30)
  <2> QED BY <2>2, <2>3, <2>4 DEF CandidateInv, MatchesQuery
<1>9. PassageInv'
  <2>1. grants' = grants /\ vanished' = vanished
    BY DEF FetchCandidate
  <2>2. ask.phase \in Retrieving
    BY <1>2 DEF Retrieving
  <2>3. \A r \in ask'.passages : MatchesQuery(ask'.q, r) /\ r \notin vanished'
    BY <1>1, <1>6, <2>1 DEF PassageInv
  <2>4. \A r \in ask'.passages : \E remote \in BOOLEAN :
           Grant(r, remote, ask'.revision) \in grants' /\ (ask'.eligible => remote)
    BY <1>1, <1>6, <2>1 DEF PassageInv
  <2>5. \A g \in grants' : g.revision = ask'.revision
    BY <1>1, <1>6, <2>1, <2>2 DEF PassageInv
  <2> QED BY <2>3, <2>4, <2>5 DEF PassageInv, MatchesQuery
<1>10. BatchInv'
  BY <1>1, <1>2, <1>6 DEF BatchInv, Retrieving
<1>11. EgressInv'
  BY <1>1, <1>2, <1>6 DEF EgressInv, Sent, FetchCandidate
<1> QED BY <1>7, <1>8, <1>9, <1>10, <1>11 DEF AnswerInv

\* The record's decision: another revision ends the retrieval, a grant is remembered.
LEMMA JudgeKeeps ==
    ASSUME AnswerInv, ask # NoQuestion, NEW allowed \in BOOLEAN, NEW remote \in BOOLEAN,
           AuthorizeRecord(allowed, remote)
    PROVE  AnswerInv'
<1> DEFINE r == Head(ask.todo)
           answer == [record |-> r, allowed |-> allowed, remote |-> remote, revision |-> revision]
<1>1. ask \in Asks /\ CandidateInv /\ PassageInv /\ BatchInv /\ EgressInv
      /\ vanished \cap holdings = {} /\ revision \in Nat
  BY RetrievalAssumption DEF AnswerInv, AskShape
<1>2. ask.todo \in Seq(AnswerRecords) /\ ask.todo # << >> /\ Distinct(ask.todo) /\ ask.phase = "permit"
  BY <1>1 DEF Asks, AuthorizeRecord, CandidateInv
<1>3. /\ r \in Elements(ask.todo) /\ Tail(ask.todo) \in Seq(AnswerRecords) /\ Distinct(Tail(ask.todo))
      /\ Elements(Tail(ask.todo)) \subseteq Elements(ask.todo)
  BY <1>2, HeadAndTail
<1>4. /\ grants' = grants \cup {answer} /\ vanished' \subseteq vanished \cup {r}
      /\ vanished' \cap holdings = {} /\ UNCHANGED <<holdings, revision, outbox, egressAudited>>
  BY <1>1 DEF AuthorizeRecord
<1>5. CASE EmptyBatch(revision)
  BY <1>1, <1>2, <1>4, <1>5, EmptyBatchKeeps DEF Retrieving
<1>6. CASE /\ revision = ask.revision
           /\ \/ allowed /\ ask' = [ask EXCEPT !.phase = "recheck", !.permitted = remote]
              \/ ask' = [ask EXCEPT !.phase = "fetch", !.todo = Tail(ask.todo)]
  <2>1. ask' \in Asks
    <3>1. CASE ask' = [ask EXCEPT !.phase = "recheck", !.permitted = remote]
      BY <1>1, <3>1 DEF Asks, AskPhases
    <3>2. CASE ask' = [ask EXCEPT !.phase = "fetch", !.todo = Tail(ask.todo)]
      BY <1>1, <1>3, <3>2 DEF Asks, AskPhases
    <3> QED BY <1>6, <3>1, <3>2
  <2>2. /\ ask'.batch = ask.batch /\ ask'.passages = ask.passages /\ ask'.attempts = ask.attempts
        /\ ask'.provider = ask.provider /\ ask'.revision = ask.revision /\ ask'.q = ask.q
        /\ ask'.eligible = ask.eligible
        /\ \/ ask'.phase = "recheck" /\ ask'.todo = ask.todo /\ ask'.permitted = remote /\ allowed
           \/ ask'.phase = "fetch" /\ ask'.todo = Tail(ask.todo)
    BY <1>1, <1>6 DEF Asks
  <2>3. AskShape'
    BY <1>4, <2>1, AskOrNot DEF AnswerInv, AskShape
  <2>4. allowed => answer = Grant(r, remote, ask.revision)
    BY <1>6 DEF Grant
  <2> HIDE DEF answer
  <2>5. CandidateInv'
    BY <1>1, <1>2, <1>3, <1>4, <2>2, <2>4 DEF CandidateInv, MatchesQuery
  <2>6. r \notin ask.passages
    BY <1>1, <1>3 DEF CandidateInv
  <2>7. answer.revision = ask.revision
    BY <1>6 DEF answer
  <2>8. PassageInv'
    BY <1>1, <1>2, <1>4, <2>2, <2>6, <2>7 DEF PassageInv, Retrieving, MatchesQuery
  <2>9. BatchInv'
    BY <1>1, <1>2, <2>2 DEF BatchInv, Retrieving
  <2>10. EgressInv'
    BY <1>1, <1>2, <1>4, <2>2 DEF EgressInv, Sent
  <2> QED BY <2>3, <2>5, <2>8, <2>9, <2>10 DEF AnswerInv
<1> QED BY <1>5, <1>6 DEF AuthorizeRecord, SameRevision

\* A record joins the passages only while it is still stored.
LEMMA RecheckKeeps ==
    ASSUME AnswerInv, ask # NoQuestion, Recheck
    PROVE  AnswerInv'
<1> DEFINE r == Head(ask.todo)
<1>1. ask \in Asks /\ CandidateInv /\ PassageInv /\ BatchInv /\ EgressInv
      /\ vanished \cap holdings = {}
  BY DEF AnswerInv, AskShape
<1>2. ask.todo \in Seq(AnswerRecords) /\ ask.todo # << >> /\ Distinct(ask.todo) /\ ask.phase = "recheck"
  BY <1>1 DEF Asks, Recheck, CandidateInv
<1>3. /\ r \in Elements(ask.todo) /\ r \in AnswerRecords
      /\ Tail(ask.todo) \in Seq(AnswerRecords) /\ Distinct(Tail(ask.todo))
      /\ Elements(Tail(ask.todo)) \subseteq Elements(ask.todo) \ {r}
  BY <1>2, HeadAndTail
<1>4. /\ MatchesQuery(ask.q, r) /\ Grant(r, ask.permitted, ask.revision) \in grants
      /\ ask.batch = << >> /\ ask.permitted \in BOOLEAN
  BY <1>1, <1>2 DEF CandidateInv, BatchInv, Retrieving, Asks
<1> HIDE DEF r
<1>5. \/ /\ r \in holdings
         /\ ask' = [ask EXCEPT !.phase = "fetch", !.todo = Tail(ask.todo),
                               !.passages = ask.passages \cup {r},
                               !.eligible = ask.eligible /\ ask.permitted]
      \/ ask' = [ask EXCEPT !.phase = "fetch", !.todo = Tail(ask.todo)]
  BY DEF Recheck, StillVisible, Eligible, r
<1>6. ask' \in Asks
  <2>1. /\ ask.passages \cup {r} \in SUBSET AnswerRecords /\ (ask.eligible /\ ask.permitted) \in BOOLEAN
        /\ "fetch" \in AskPhases
    BY <1>1, <1>3 DEF Asks, AskPhases
  <2>2. ASSUME NEW ps \in SUBSET AnswerRecords, NEW e \in BOOLEAN
        PROVE  [ask EXCEPT !.phase = "fetch", !.todo = Tail(ask.todo), !.passages = ps,
                           !.eligible = e] \in Asks
    BY <1>1, <1>3, <2>1 DEF Asks
  <2>3. [ask EXCEPT !.phase = "fetch", !.todo = Tail(ask.todo)] \in Asks
    BY <1>1, <1>3, <2>1 DEF Asks
  <2> QED BY <1>5, <2>1, <2>2, <2>3
<1>7. /\ ask'.batch = ask.batch /\ ask'.attempts = ask.attempts /\ ask'.provider = ask.provider
      /\ ask'.revision = ask.revision /\ ask'.q = ask.q /\ ask'.phase = "fetch"
      /\ ask'.todo = Tail(ask.todo)
      /\ \/ /\ r \in holdings /\ ask'.passages = ask.passages \cup {r}
            /\ ask'.eligible = (ask.eligible /\ ask.permitted)
         \/ ask'.passages = ask.passages /\ ask'.eligible = ask.eligible
  BY <1>1, <1>5 DEF Asks
<1>8. UNCHANGED <<holdings, revision, grants, vanished, outbox, egressAudited>>
  BY DEF Recheck
<1>9. AskShape'
  BY <1>6, <1>8, AskOrNot DEF AnswerInv, AskShape
<1>10. CandidateInv'
  BY <1>1, <1>3, <1>7, <1>8 DEF CandidateInv
<1>11. PassageInv'
  <2>1. \A g \in grants : g.revision = ask.revision
    BY <1>1, <1>2 DEF PassageInv, Retrieving
  <2>2. ask'.eligible \in BOOLEAN /\ ask.eligible \in BOOLEAN /\ (ask'.eligible => ask.eligible)
        /\ (r \in ask'.passages /\ r \notin ask.passages => r \in holdings /\ (ask'.eligible => ask.permitted))
    BY <1>1, <1>6, <1>7 DEF Asks
  <2>3. ASSUME NEW p \in ask'.passages
        PROVE  /\ MatchesQuery(ask.q, p) /\ p \notin vanished
               /\ \E remote \in BOOLEAN :
                     Grant(p, remote, ask.revision) \in grants /\ (ask'.eligible => remote)
    <3>1. CASE p \in ask.passages
      BY <1>1, <2>2, <3>1 DEF PassageInv
    <3>2. CASE p \notin ask.passages
      BY <1>1, <1>4, <1>7, <2>2, <2>3, <3>2
    <3> QED BY <3>1, <3>2
  <2> QED BY <1>7, <1>8, <2>1, <2>3 DEF PassageInv, MatchesQuery
<1>12. BatchInv'
  BY <1>1, <1>4, <1>7 DEF BatchInv, Elements
<1>13. EgressInv'
  BY <1>1, <1>2, <1>7, <1>8 DEF EgressInv, Sent
<1> QED BY <1>9, <1>10, <1>11, <1>12, <1>13 DEF AnswerInv

\* The ranking and the evidence table only leave passages out.
LEMMA TableKeeps ==
    ASSUME AnswerInv, ask # NoQuestion, BatchReady \/ Evidence
    PROVE  AnswerInv'
<1>1. ask \in Asks /\ CandidateInv /\ PassageInv /\ BatchInv /\ EgressInv
  BY DEF AnswerInv, AskShape
<1>2. ASSUME NEW list \in Seq(AnswerRecords), NEW next \in {"evidence", "insufficient", "route"},
             Elements(list) \subseteq ask.passages,
             next = "route" => \A r \in Elements(list) : RecordOf[r].score >= MinimumScore,
             ask.phase \in {"fetch", "evidence"},
             ask' = [ask EXCEPT !.phase = next, !.batch = list],
             UNCHANGED <<holdings, revision, grants, vanished, outbox, egressAudited>>
      PROVE  AnswerInv'
  <2>1. ask' \in Asks
    BY <1>1, <1>2 DEF Asks, AskPhases
  <2>2. /\ ask'.phase = next /\ ask'.batch = list /\ ask'.passages = ask.passages
        /\ ask'.todo = ask.todo /\ ask'.attempts = ask.attempts /\ ask'.q = ask.q
        /\ ask'.revision = ask.revision /\ ask'.eligible = ask.eligible
    BY <1>1, <1>2 DEF Asks
  <2>3. AskShape'
    BY <1>2, <2>1, AskOrNot DEF AnswerInv, AskShape
  <2>4. CandidateInv'
    BY <1>1, <1>2, <2>2 DEF CandidateInv
  <2>5. PassageInv'
    BY <1>1, <1>2, <2>2 DEF PassageInv, Retrieving, MatchesQuery
  <2>6. BatchInv'
    BY <1>2, <2>2 DEF BatchInv, Retrieving
  <2>7. outbox' = << >> /\ ask'.attempts = 0
    BY <1>1, <1>2, <2>2 DEF EgressInv, Sent
  <2>8. EgressInv'
    BY <1>2, <2>2, <2>7, RetrievalAssumption DEF EgressInv, Sent
  <2> QED BY <2>3, <2>4, <2>5, <2>6, <2>8 DEF AnswerInv
<1>3. IsFiniteSet(ask.passages) /\ ask.passages \subseteq AnswerRecords
  BY <1>1, RetrievalAssumption, FS_Subset DEF Asks
<1>4. CASE BatchReady
  <2>1. PICK list \in Ranked(ask.q, ask.passages) :
           ask' = [ask EXCEPT !.phase = "evidence", !.batch = list]
    BY <1>4 DEF BatchReady
  <2>2. PICK s \in SetToSeqs(ask.passages) : list = UpTo(ask.q.limit, s)
    BY <2>1 DEF Ranked, InOrder
  <2>3. s \in Seq(ask.passages) /\ Distinct(s) /\ Elements(s) \subseteq ask.passages /\ ask.q.limit \in Nat
    BY <1>1, <1>3, ListedOnce, RetrievalAssumption DEF Asks
  <2>4. list \in Seq(ask.passages) /\ Elements(list) \subseteq ask.passages
    BY <2>2, <2>3, FirstOnes
  <2>5. list \in Seq(AnswerRecords)
    BY <1>3, <2>4
  <2> QED BY <1>2, <1>4, <2>1, <2>4, <2>5 DEF BatchReady
<1>5. CASE Evidence
  <2>1. PICK list \in EvidenceTable(ask.batch) :
           ask' = [ask EXCEPT !.phase = IF list = << >> THEN "insufficient" ELSE "route",
                              !.batch = list]
    BY <1>5 DEF Evidence
  <2> DEFINE S == {r \in Elements(ask.batch) : RecordOf[r].score >= MinimumScore}
  <2>2. list \in SetToSeqs(S)
    BY <2>1, ElementsIsToSet DEF EvidenceTable, InOrder
  <2>3. IsFiniteSet(S) /\ S \subseteq ask.passages
    BY <1>1, <1>3, FS_Subset DEF BatchInv
  <2>4. list \in Seq(S) /\ Elements(list) \subseteq S
    BY <2>2, <2>3, ListedOnce
  <2>5. list \in Seq(AnswerRecords) /\ Elements(list) \subseteq ask.passages
        /\ \A r \in Elements(list) : RecordOf[r].score >= MinimumScore
    <3>1. S \subseteq AnswerRecords
      BY <1>3, <2>3
    <3>2. \A r \in S : RecordOf[r].score >= MinimumScore
      OBVIOUS
    <3> HIDE DEF S
    <3> QED BY <2>3, <2>4, <3>1, <3>2
  <2>6. ask.phase = "evidence"
        /\ UNCHANGED <<holdings, revision, grants, vanished, outbox, egressAudited>>
    BY <1>5 DEF Evidence
  <2>7. CASE list = << >>
    BY <1>2, <2>1, <2>5, <2>6, <2>7
  <2>8. CASE list # << >>
    BY <1>2, <2>1, <2>5, <2>6, <2>8
  <2> QED BY <2>7, <2>8
<1> QED BY <1>4, <1>5

\* A remote provider is routed to only where the owner named it.
LEMMA RouteSound ==
    ASSUME NEW mode, NEW authorization, NEW p, p = RouteOf(mode, authorization), p # None
    PROVE  /\ p \in DOMAIN ProviderOf
           /\ Remote(p) => /\ mode = "remote-explicit" /\ authorization # None
                           /\ authorization.provider = p
<1> DEFINE local == {x \in DOMAIN ProviderOf : Usable(x, "local")}
           remote == {x \in DOMAIN ProviderOf : Usable(x, "remote")}
<1>1. CASE mode # "remote-explicit"
  <2>1. local # {} /\ p = CHOOSE x \in local : TRUE
    BY <1>1 DEF RouteOf
  <2>2. p \in local
    BY <2>1, Zenon
  <2> QED BY <2>2 DEF Usable, Remote
<1>2. CASE mode = "remote-explicit"
  <2>1. authorization # None /\ p = authorization.provider /\ p \in remote
    BY <1>2 DEF RouteOf
  <2> QED BY <1>2, <2>1
<1> QED BY <1>1, <1>2

\* A step that only moves the question on: what was retrieved stays as it is.
LEMMA MovesOn ==
    ASSUME AnswerInv, ask \in Asks, ask' \in Asks,
           ask'.q = ask.q /\ ask'.revision = ask.revision /\ ask'.eligible = ask.eligible,
           ask'.todo = ask.todo /\ ask'.passages = ask.passages /\ ask'.batch = ask.batch,
           ask.phase \in {"route", "build", "remote", "local", "parse"},
           ask'.phase \in {"build", "remote", "local", "parse", "answered", "failed"},
           ask'.phase = "answered" =>
              \A c \in Elements(ask'.claims) : \A l \in Elements(c.labels) : l \in DOMAIN ask.batch,
           UNCHANGED <<holdings, revision, grants, vanished>>, EgressInv'
    PROVE  AnswerInv'
<1>1. CandidateInv /\ PassageInv /\ BatchInv
  BY AskOrNot DEF AnswerInv
<1>2. AskShape'
  BY AskOrNot DEF AnswerInv, AskShape
<1>3. CandidateInv'
  BY <1>1 DEF CandidateInv
<1>4. PassageInv'
  BY <1>1 DEF PassageInv, Retrieving, MatchesQuery
<1>5. BatchInv'
  BY <1>1 DEF BatchInv, Retrieving
<1> QED BY <1>2, <1>3, <1>4, <1>5 DEF AnswerInv

\* The route and the gate: a question goes to a remote provider only with what both checked.
LEMMA RouteKeeps ==
    ASSUME AnswerInv, ask # NoQuestion, Route
    PROVE  AnswerInv'
<1> DEFINE p == RouteOf(ask.mode, ask.authorization)
<1>1. ask \in Asks /\ EgressInv /\ ask.phase = "route"
  BY DEF AnswerInv, AskShape, Route
<1>2. outbox' = << >> /\ ask.attempts = 0 /\ UNCHANGED <<holdings, revision, grants, vanished>>
  BY <1>1 DEF EgressInv, Sent, Route
<1>3. CASE ask' = [ask EXCEPT !.phase = "failed"]
  <2>1. ask' = [ask EXCEPT !.phase = "failed"]
    BY <1>3
  <2>2. ask' \in Asks
    BY <1>1, <2>1, Zenon DEF Asks, AskPhases
  <2>3. /\ ask'.q = ask.q /\ ask'.revision = ask.revision /\ ask'.eligible = ask.eligible
        /\ ask'.todo = ask.todo /\ ask'.passages = ask.passages /\ ask'.batch = ask.batch
        /\ ask'.phase = "failed"
    BY <1>1, <2>1 DEF Asks
  <2>4. EgressInv'
    BY <1>2, <2>3, RetrievalAssumption DEF EgressInv, Sent
  <2> QED BY <1>1, <1>2, <2>2, <2>3, <2>4, MovesOn
<1>4. CASE /\ MayGenerate(p)
           /\ ask' = [ask EXCEPT !.provider = p, !.phase = IF Remote(p) THEN "build" ELSE "local"]
           /\ egressAudited' = egressAudited \cup (IF AuditsFirst(p) THEN {p} ELSE {})
  <2>1. p # None
    BY <1>4 DEF MayGenerate
  <2>2. /\ p \in DOMAIN ProviderOf
        /\ Remote(p) => /\ ask.mode = "remote-explicit" /\ ask.authorization # None
                        /\ ask.authorization.provider = p
    BY <2>1, RouteSound
  <2>3. Remote(p) => ask.eligible /\ \A r \in Elements(ask.batch) : ~RecordOf[r].secret
    BY <1>4, ElementsIsToSet DEF MayGenerate, MayLeave, GateApproves
  <2>4. \/ /\ Remote(p) /\ ask' = [ask EXCEPT !.provider = p, !.phase = "build"]
           /\ (ProviderOf[p].audit => p \in egressAudited')
        \/ ask' = [ask EXCEPT !.provider = p, !.phase = "local"]
    BY <1>4 DEF AuditsFirst
  <2> HIDE DEF p
  <2>5. ask' \in Asks
    <3>1. ASSUME NEW phase \in AskPhases, NEW provider \in DOMAIN ProviderOf \cup {None}
          PROVE  [ask EXCEPT !.provider = provider, !.phase = phase] \in Asks
      BY <1>1 DEF Asks
    <3>2. "build" \in AskPhases /\ "local" \in AskPhases
      BY DEF AskPhases
    <3>3. ask' = [ask EXCEPT !.provider = p, !.phase = "build"]
             \/ ask' = [ask EXCEPT !.provider = p, !.phase = "local"]
      BY <2>4
    <3>4. p \in DOMAIN ProviderOf \cup {None}
      BY <2>2
    <3>5. /\ [ask EXCEPT !.provider = p, !.phase = "build"] \in Asks
          /\ [ask EXCEPT !.provider = p, !.phase = "local"] \in Asks
      BY ONLY <3>1, <3>2, <3>4, Zenon
    <3> QED BY ONLY <3>3, <3>5, Zenon
  <2>6. /\ ask'.q = ask.q /\ ask'.revision = ask.revision /\ ask'.eligible = ask.eligible
        /\ ask'.todo = ask.todo /\ ask'.passages = ask.passages /\ ask'.batch = ask.batch
        /\ ask'.mode = ask.mode /\ ask'.authorization = ask.authorization
        /\ ask'.provider = p /\ ask'.attempts = 0
        /\ \/ ask'.phase = "build" /\ Remote(p) /\ (ProviderOf[p].audit => p \in egressAudited')
           \/ ask'.phase = "local"
    <3>1. CASE ask' = [ask EXCEPT !.provider = p, !.phase = "build"]
      <4>1. Remote(p) /\ (ProviderOf[p].audit => p \in egressAudited')
        <5>1. "build" # "local"
          OBVIOUS
        <5>2. [ask EXCEPT !.provider = p, !.phase = "build"].phase = "build"
              /\ [ask EXCEPT !.provider = p, !.phase = "local"].phase = "local"
          BY <1>1 DEF Asks
        <5> QED BY ONLY <2>4, <3>1, <5>1, <5>2, Zenon
      <4> QED BY <1>1, <1>2, <3>1, <4>1 DEF Asks
    <3>2. CASE ask' = [ask EXCEPT !.provider = p, !.phase = "local"]
      BY <1>1, <1>2, <3>2 DEF Asks
    <3> QED BY <2>4, <3>1, <3>2
  <2>7. ask'.phase = "build" => Sendable'
    BY <2>2, <2>3, <2>6 DEF Sendable
  <2>8. EgressInv'
    BY <1>2, <2>6, <2>7, RetrievalAssumption DEF EgressInv, Sent
  <2> QED BY <1>1, <1>2, <2>5, <2>6, <2>8, MovesOn
<1> QED BY <1>3, <1>4 DEF Route, Fails

\* A request is built from what was approved, or the question fails.
LEMMA BuildKeeps ==
    ASSUME AnswerInv, ask # NoQuestion,
           \/ \E credential \in BOOLEAN : BuildRequest(credential)
           \/ \E answered \in BOOLEAN : LocalGenerate(answered)
    PROVE  AnswerInv'
<1>1. /\ ask \in Asks /\ EgressInv /\ ask.phase \in {"build", "local"} /\ outbox' = outbox
      /\ UNCHANGED <<holdings, revision, grants, vanished, egressAudited>>
  BY DEF AnswerInv, AskShape, BuildRequest, LocalGenerate
<1>2. outbox = << >> /\ ask.attempts = 0
  BY <1>1 DEF EgressInv, Sent
<1>3. PICK next \in {"remote", "parse", "failed"} :
         /\ ask' = [ask EXCEPT !.phase = next]
         /\ next = "remote" => ask.phase = "build" /\ ask.batch # << >>
  BY DEF BuildRequest, LocalGenerate, RequestBuilds, Fails
<1>4. ask' \in Asks
  BY <1>1, <1>3 DEF Asks, AskPhases
<1>5. /\ ask'.q = ask.q /\ ask'.revision = ask.revision /\ ask'.eligible = ask.eligible
      /\ ask'.todo = ask.todo /\ ask'.passages = ask.passages /\ ask'.batch = ask.batch
      /\ ask'.mode = ask.mode /\ ask'.authorization = ask.authorization
      /\ ask'.provider = ask.provider /\ ask'.attempts = 0 /\ ask'.phase = next
  BY <1>1, <1>2, <1>3 DEF Asks
<1>6. next = "remote" => Sendable' /\ ask'.batch # << >>
  BY <1>1, <1>3, <1>5 DEF EgressInv, Sendable
<1>7. EgressInv'
  BY <1>1, <1>2, <1>5, <1>6, RetrievalAssumption DEF EgressInv, Sent
<1> QED BY <1>1, <1>4, <1>5, <1>7, MovesOn

\* One attempt sends the same request again, and no more of them than are allowed.
LEMMA AttemptKeeps ==
    ASSUME AnswerInv, ask # NoQuestion, NEW x \in Exchanges, NEW expired \in BOOLEAN,
           Attempt(x, expired)
    PROVE  AnswerInv'
<1> DEFINE one == [provider |-> ask.provider, records |-> Elements(ask.batch)]
<1>1. /\ ask \in Asks /\ EgressInv /\ ask.phase = "remote"
      /\ UNCHANGED <<holdings, revision, grants, vanished, egressAudited>>
  BY DEF AnswerInv, AskShape, Attempt
<1>2. /\ Sendable /\ ask.batch # << >> /\ ask.attempts \in Nat /\ ask.attempts < MaxAttempts
      /\ outbox \in Seq({one}) /\ Len(outbox) <= ask.attempts /\ MaxAttempts \in Nat
  BY <1>1, RetrievalAssumption DEF EgressInv, Asks
<1>3. outbox' = outbox \/ outbox' = Append(outbox, one)
  BY ElementsIsToSet DEF Attempt, WireRequest
<1> DEFINE t == Transported(x)
           n == ask.attempts + 1
<1>4. \/ ask' = [ask EXCEPT !.phase = "parse", !.attempts = n]
      \/ AttemptsLeft(n) /\ ask' = [ask EXCEPT !.attempts = n]
      \/ ask' = [ask EXCEPT !.phase = "failed"]
  <2>1. CASE t.reason = None /\ ~expired
    BY <2>1 DEF Attempt, Fails
  <2>2. CASE ~(t.reason = None /\ ~expired) /\ t.reason \in TransientReasons /\ AttemptsLeft(n) /\ ~expired
    BY <2>2 DEF Attempt, Fails
  <2>3. CASE ~(t.reason = None /\ ~expired) /\ ~(t.reason \in TransientReasons /\ AttemptsLeft(n) /\ ~expired)
    BY <2>3 DEF Attempt, Fails
  <2> QED BY <2>1, <2>2, <2>3
<1>5. n \in 0 .. MaxAttempts
  BY <1>2
<1>6. ask' \in Asks
  <2>1. CASE ask' = [ask EXCEPT !.phase = "parse", !.attempts = n]
    BY <1>1, <1>5, <2>1 DEF Asks, AskPhases
  <2>2. CASE ask' = [ask EXCEPT !.attempts = n]
    BY <1>1, <1>5, <2>2 DEF Asks
  <2>3. CASE ask' = [ask EXCEPT !.phase = "failed"]
    BY <1>1, <2>3 DEF Asks, AskPhases
  <2> QED BY <1>4, <2>1, <2>2, <2>3
<1>7. /\ ask'.q = ask.q /\ ask'.revision = ask.revision /\ ask'.eligible = ask.eligible
      /\ ask'.todo = ask.todo /\ ask'.passages = ask.passages /\ ask'.batch = ask.batch
      /\ ask'.mode = ask.mode /\ ask'.authorization = ask.authorization
      /\ ask'.provider = ask.provider
      /\ \/ ask'.phase \in {"parse", "failed"}
         \/ ask'.phase = "remote" /\ ask'.attempts = n /\ AttemptsLeft(n)
  <2>1. CASE ask' = [ask EXCEPT !.phase = "parse", !.attempts = n]
    BY <1>1, <2>1 DEF Asks
  <2>2. CASE AttemptsLeft(n) /\ ask' = [ask EXCEPT !.attempts = n]
    BY <1>1, <2>2 DEF Asks
  <2>3. CASE ask' = [ask EXCEPT !.phase = "failed"]
    BY <1>1, <2>3 DEF Asks
  <2> QED BY <1>4, <2>1, <2>2, <2>3
<1>8. Sendable'
  BY <1>1, <1>2, <1>7 DEF Sendable
<1>9. outbox' \in Seq({one}) /\ Len(outbox') <= n
  <2>1. one \in {one}
    OBVIOUS
  <2> HIDE DEF one
  <2>2. outbox \in Seq({one}) /\ Append(outbox, one) \in Seq({one})
    BY <1>2, <2>1
  <2>3. Len(Append(outbox, one)) = Len(outbox) + 1
    BY <2>2
  <2> QED BY <1>2, <1>3, <2>2, <2>3, SMTT(30)
<1>10. one' = one
  BY <1>7
<1> HIDE DEF one
<1>11. EgressInv'
  <2>1. outbox' \in Seq({one'})
    BY <1>9, <1>10
  <2>2. outbox' \in Seq({[provider |-> ask.provider, records |-> Elements(ask.batch)]})'
    BY <2>1 DEF one
  <2>3. ask'.phase = "remote" => ask'.attempts < MaxAttempts /\ Len(outbox') <= ask'.attempts
    BY <1>7, <1>9 DEF AttemptsLeft
  <2>4. Len(outbox') <= MaxAttempts
    BY <1>2, <1>9, <2>1
  <2> HIDE DEF n
  <2> QED BY <1>2, <1>7, <1>8, <2>2, <2>3, <2>4 DEF EgressInv, Sent
<1> QED BY <1>1, <1>6, <1>7, <1>11, MovesOn

\* An answer is kept only with labels of the evidence table.
LEMMA ParseKeeps ==
    ASSUME AnswerInv, ask # NoQuestion, NEW p \in DOMAIN ProviderOf, NEW claims \in ProviderClaims,
           ParseClaims(p, claims)
    PROVE  AnswerInv'
<1>1. /\ ask \in Asks /\ EgressInv /\ ask.phase = "parse" /\ outbox' = outbox
      /\ UNCHANGED <<holdings, revision, grants, vanished, egressAudited>>
  BY DEF AnswerInv, AskShape, ParseClaims
<1>2. \/ /\ ask' = [ask EXCEPT !.phase = "answered", !.claims = claims]
         /\ \A c \in Elements(claims) : LabelsKnown(c.labels)
      \/ ask' = [ask EXCEPT !.phase = "failed"]
  BY ElementsIsToSet DEF ParseClaims
<1>3. ask' \in Asks
  <2>1. CASE ask' = [ask EXCEPT !.phase = "answered", !.claims = claims]
    <3> HIDE DEF ProviderClaims
    <3> QED BY <1>1, <2>1 DEF Asks, AskPhases
  <2>2. CASE ask' = [ask EXCEPT !.phase = "failed"]
    BY <1>1, <2>2 DEF Asks, AskPhases
  <2> QED BY <1>2, <2>1, <2>2
<1>4. /\ ask'.q = ask.q /\ ask'.revision = ask.revision /\ ask'.eligible = ask.eligible
      /\ ask'.todo = ask.todo /\ ask'.passages = ask.passages /\ ask'.batch = ask.batch
      /\ ask'.mode = ask.mode /\ ask'.authorization = ask.authorization
      /\ ask'.provider = ask.provider /\ ask'.attempts = ask.attempts
      /\ \/ /\ ask'.phase = "answered" /\ ask'.claims = claims
            /\ \A c \in Elements(claims) : LabelsKnown(c.labels)
         \/ ask'.phase = "failed"
  <2>1. CASE ask' = [ask EXCEPT !.phase = "failed"]
    BY <1>1, <2>1 DEF Asks
  <2>2. CASE /\ ask' = [ask EXCEPT !.phase = "answered", !.claims = claims]
             /\ \A c \in Elements(claims) : LabelsKnown(c.labels)
    BY <1>1, <2>2 DEF Asks
  <2> QED BY <1>2, <2>1, <2>2
<1>5. ask'.phase = "answered" =>
         \A c \in Elements(ask'.claims) : \A l \in Elements(c.labels) : l \in DOMAIN ask.batch
  BY <1>4, ElementsIsToSet DEF LabelsKnown
<1>6. EgressInv'
  BY <1>1, <1>4 DEF EgressInv, Sent, Sendable
<1> QED BY <1>1, <1>3, <1>4, <1>5, <1>6, MovesOn

\* The end of a question, and what others do meanwhile.
LEMMA AroundKeeps ==
    ASSUME AnswerInv,
           \/ Reset
           \/ \E r \in AnswerRecords : DeleteStored(r)
           \/ RevisePolicy
           \/ UNCHANGED answerVars
    PROVE  AnswerInv'
<1>1. CASE Reset
  BY <1>1 DEF Reset, AnswerInv, AskShape
<1>2. CASE UNCHANGED <<ask, grants, vanished, outbox, egressAudited>>
           /\ holdings' \subseteq holdings /\ revision' \in 1 .. MaxRevision
  <2>1. AskShape'
    BY <1>2 DEF AnswerInv, AskShape
  <2>2. ask # NoQuestion => (CandidateInv /\ PassageInv /\ BatchInv /\ EgressInv)'
    BY <1>2 DEF AnswerInv, CandidateInv, PassageInv, BatchInv, EgressInv, Sendable, MatchesQuery
  <2> QED BY <1>2, <2>1, <2>2 DEF AnswerInv
<1>3. revision \in 1 .. MaxRevision
  BY DEF AnswerInv, AskShape
<1> QED BY <1>1, <1>2, <1>3, RetrievalAssumption DEF DeleteStored, RevisePolicy, answerVars

\* What leaves the process and what is cited follows.
LEMMA AnswerInvSuffices ==
    ASSUME AnswerInv
    PROVE  AnswersJudged
<1>1. CASE ask = NoQuestion
  BY <1>1, RetrievalAssumption DEF AnswerInv, AskShape, AnswersJudged, AnswerTypeOK,
     NothingLeavesUnasked, CitesJudgedEvidence
<1>2. CASE ask # NoQuestion
  <2>1. ask \in Asks /\ AskShape /\ CandidateInv /\ PassageInv /\ BatchInv /\ EgressInv
    BY <1>2 DEF AnswerInv, AskShape
  <2>2. AnswerTypeOK
    BY <2>1, ElementsIsToSet DEF AnswerTypeOK, AskShape, Asks, AskPhases, BatchInv, EgressInv
  <2>3. NothingLeavesUnasked
    <3> SUFFICES ASSUME NEW i \in DOMAIN outbox
                 PROVE  /\ ask.mode = "remote-explicit" /\ ask.authorization # None
                        /\ outbox[i].provider = ask.authorization.provider
                        /\ ProviderOf[outbox[i].provider].audit => outbox[i].provider \in egressAudited
                        /\ \A r \in outbox[i].records :
                            /\ ~RecordOf[r].secret
                            /\ [record |-> r, allowed |-> TRUE, remote |-> TRUE,
                                revision |-> ask.revision] \in grants
                        /\ \A g \in grants : g.revision = ask.revision
      BY DEF NothingLeavesUnasked
    <3> DEFINE one == [provider |-> ask.provider, records |-> Elements(ask.batch)]
    <3>1. outbox \in Seq({one}) /\ outbox # << >>
      BY <2>1 DEF EgressInv
    <3>2. outbox[i] \in {one}
      <4> HIDE DEF one
      <4> QED BY <3>1
    <3>3. outbox[i].provider = ask.provider /\ outbox[i].records = Elements(ask.batch)
      BY <3>2
    <3>4. Sendable /\ ask.batch # << >> /\ ask.batch \in Seq(AnswerRecords)
      BY <2>1, <3>1 DEF EgressInv, Asks
    <3>5. Elements(ask.batch) # {} /\ Elements(ask.batch) \subseteq ask.passages
      <4>1. 1 \in DOMAIN ask.batch
        BY <3>4
      <4> QED BY <2>1, <4>1 DEF BatchInv, Elements
    <3>6. \A r \in Elements(ask.batch) : Grant(r, TRUE, ask.revision) \in grants
      BY <2>1, <3>4, <3>5 DEF PassageInv, Sendable
    <3>7. \A g \in grants : g.revision = ask.revision
      BY <2>1, <3>5 DEF PassageInv
    <3> QED BY <3>3, <3>4, <3>6, <3>7 DEF Sendable, Grant
  <2>4. CitesJudgedEvidence
    <3> SUFFICES ASSUME ask.phase = "answered",
                        NEW c \in Elements(ask.claims), NEW l \in Elements(c.labels)
                 PROVE  /\ l \in DOMAIN ask.batch
                        /\ \E g \in grants : g.record = ask.batch[l] /\ g.allowed /\ g.revision = ask.revision
                        /\ MatchesQuery(ask.q, ask.batch[l])
                        /\ RecordOf[ask.batch[l]].score >= MinimumScore
                        /\ ask.batch[l] \notin vanished
      BY ElementsIsToSet DEF CitesJudgedEvidence
    <3>1. l \in DOMAIN ask.batch
      BY <2>1 DEF BatchInv
    <3> DEFINE r == ask.batch[l]
    <3>2. r \in Elements(ask.batch)
      BY <3>1 DEF Elements
    <3> HIDE DEF r
    <3>3. r \in ask.passages /\ RecordOf[r].score >= MinimumScore
      BY <2>1, <3>2 DEF BatchInv
    <3>4. MatchesQuery(ask.q, r) /\ r \notin vanished
          /\ \E remote \in BOOLEAN : Grant(r, remote, ask.revision) \in grants
      BY <2>1, <3>3 DEF PassageInv
    <3>5. \E g \in grants : g.record = r /\ g.allowed /\ g.revision = ask.revision
      BY <3>4 DEF Grant
    <3> QED BY <3>1, <3>3, <3>4, <3>5 DEF r
  <2> QED BY <2>2, <2>3, <2>4 DEF AnswersJudged
<1> QED BY <1>1, <1>2

\* Whatever is deleted and however the policy is revised while a question is answered
\* (AnsweringService.answer, answering/service.py), evidence leaves only for the provider
\* the owner authorised, audited where its client has an audit, judged record by record for remote use and without a
\* secret; and an answer cites only evidence judged under the revision it reports.
THEOREM EvidenceJudged == AnswerSpec => []AnswersJudged
<1>1. AnswerInit => AnswerInv
  BY RetrievalAssumption DEF AnswerInit, AnswerInv, AskShape
<1>2. AnswerInv /\ [AnswerNext]_answerVars => AnswerInv'
  <2> SUFFICES ASSUME AnswerInv, [AnswerNext]_answerVars
               PROVE  AnswerInv'
    OBVIOUS
  <2>1. ASSUME NEW q \in Questions, NEW a \in Authorizations, NEW m \in RoutingModes, Ask(q, a, m)
        PROVE  AnswerInv'
    BY <2>1, AskKeeps
  <2>2. ASSUME ask # NoQuestion,
               \/ \E allowed, remote \in BOOLEAN : AuthorizeQuery(allowed, remote)
               \/ ListStep
               \/ \E hits \in SUBSET AnswerRecords : SemanticScores(hits)
        PROVE  AnswerInv'
    BY <2>2, SearchKeeps
  <2>3. ASSUME ask # NoQuestion, FetchCandidate \/ RetrievalRaises
        PROVE  AnswerInv'
    BY <2>3, FetchKeeps, RaisesKeeps
  <2>4. ASSUME ask # NoQuestion, NEW allowed \in BOOLEAN, NEW remote \in BOOLEAN,
               AuthorizeRecord(allowed, remote)
        PROVE  AnswerInv'
    BY <2>4, JudgeKeeps
  <2>5. ASSUME ask # NoQuestion, Recheck
        PROVE  AnswerInv'
    BY <2>5, RecheckKeeps
  <2>6. ASSUME ask # NoQuestion, BatchReady \/ Evidence
        PROVE  AnswerInv'
    BY <2>6, TableKeeps
  <2>7. ASSUME ask # NoQuestion, Route
        PROVE  AnswerInv'
    BY <2>7, RouteKeeps
  <2>8. ASSUME ask # NoQuestion,
               \/ \E credential \in BOOLEAN : BuildRequest(credential)
               \/ \E answered \in BOOLEAN : LocalGenerate(answered)
        PROVE  AnswerInv'
    BY <2>8, BuildKeeps
  <2>9. ASSUME ask # NoQuestion, NEW x \in Exchanges, NEW expired \in BOOLEAN, Attempt(x, expired)
        PROVE  AnswerInv'
    BY <2>9, AttemptKeeps
  <2>10. ASSUME ask # NoQuestion, NEW p \in DOMAIN ProviderOf, NEW c \in ProviderClaims,
                ParseClaims(p, c)
         PROVE  AnswerInv'
    BY <2>10, ParseKeeps
  <2>11. CASE \/ Reset
              \/ \E r \in AnswerRecords : DeleteStored(r)
              \/ RevisePolicy
              \/ UNCHANGED answerVars
    BY <2>11, AroundKeeps
  <2> QED BY <2>1, <2>2, <2>3, <2>4, <2>5, <2>6, <2>7, <2>8, <2>9, <2>10, <2>11 DEF AnswerNext
<1>3. AnswerInv => AnswersJudged
  BY AnswerInvSuffices
<1> QED BY <1>1, <1>2, <1>3, PTL DEF AnswerSpec
=============================================================================
