------------------------- MODULE SessionSafetyProofs -------------------------
(***************************************************************************)
(* Proofs about SessionSafety, for every environment, every bound on the   *)
(* inbox and every instance of the lifecycle.                              *)
(*                                                                         *)
(* The composition takes only steps of Lifecycle, so everything proved of  *)
(* the lifecycle holds of it.  On top of that the invariant follows the    *)
(* controller's last request: whatever timed out, the actor's latch will   *)
(* end up where that request puts it, and until then the policy is locked. *)
(***************************************************************************)
EXTENDS SessionSafety, LifecycleProofs

\* What the controller asks for: a block, or the release of one.
Request == [block : {TRUE}, reason : BlockReasons] \cup [block : {FALSE}, reason : ReleaseReasons]

ControllerState ==
    [lock : LockStates, idle : IdleStates, grace : BOOLEAN, manual : BOOLEAN,
     uncertain : BOOLEAN, blocked : BOOLEAN, reason : BlockReasons \cup {None}]

\* The types, with the requests in the inbox.
SafetyTypes ==
    /\ SafetyTypeOK
    /\ after \in {"done", "reconcile"}
    /\ requests \in Seq(Request)
    /\ ctlPhase = "asking" => asked \in Request
    /\ serving \in BOOLEAN
    /\ policyLocked \in BOOLEAN

\* The request that the actor will have served last, once it has served all.
LastAsked == requests[Len(requests)]

\* While the controller waits, its request is the last one in the inbox, or it
\* has been served and, if it was a block, the latch holds.
AskInv ==
    ctlPhase = "asking" =>
        /\ requests # << >> => LastAsked = asked
        /\ requests = << >> /\ asked.block => autoReason # None
        /\ after = "reconcile" => asked.block
        /\ ~asked.block => DesiredBlockReason(ctl, settings) = None

\* The actor works for the controller only after it has emptied the inbox, and
\* an answer is there only while the controller waits for it.
AnswerInv ==
    /\ serving => ctlPhase = "asking" /\ requests = << >> /\ answer = None
                 /\ phase \in {"lock", "emit", "drain"}
    /\ answer # None => ctlPhase = "asking" /\ requests = << >>

\* A session not known to be unlocked has the policy locked, unless a preflight
\* wrote the policy after the controller did.
LockInv == ctl.lock # "UNLOCKED" => policyLocked \/ policyBy = "preflight"

\* At rest the controller's idle block is latched, and one that it wants is
\* latched or on its way, with the policy locked until it arrives.
IdleInv ==
    ctlPhase = "idle" =>
        /\ ctl.blocked /\ ctl.reason = "IDLE" => requests = << >> /\ autoReason # None
        /\ DesiredBlockReason(ctl, settings) = "IDLE" =>
              /\ requests # << >> => LastAsked.block
              /\ requests = << >> => autoReason # None
              /\ requests # << >> => policyLocked \/ policyBy = "preflight"

\* The inductive invariant of the composition.
SafetyInv == IInv /\ SafetyTypes /\ AskInv /\ AnswerInv /\ LockInv /\ IdleInv

-----------------------------------------------------------------------------
(* The controller's decisions.                                             *)

\* _desired_block_reason looks at the observations and latches, never at the
\* block that was applied, and puts the lock before idling.
LEMMA DesiredFacts ==
    ASSUME NEW c \in ControllerState, NEW s
    PROVE  /\ DesiredBlockReason(c, s) \in BlockReasons \cup {None}
           /\ DesiredBlockReason(c, s) = "SESSION_LOCKED" <=> c.lock # "UNLOCKED"
           /\ \A d \in ControllerState :
                 /\ d.lock = c.lock /\ d.idle = c.idle /\ d.grace = c.grace
                 /\ d.manual = c.manual /\ d.uncertain = c.uncertain
                 => DesiredBlockReason(d, s) = DesiredBlockReason(c, s)
BY DEF ControllerState, DesiredBlockReason, IdleBlocked, BlockReasons, None

\* _update_resume_latches changes latches only.
LEMMA LatchFacts ==
    ASSUME NEW c \in ControllerState, NEW s, NEW prev
    PROVE  /\ UpdateResumeLatches(c, s, prev) \in ControllerState
           /\ UpdateResumeLatches(c, s, prev).lock = c.lock
           /\ UpdateResumeLatches(c, s, prev).blocked = c.blocked
           /\ UpdateResumeLatches(c, s, prev).reason = c.reason
<1> USE DEF ControllerState, UpdateResumeLatches, IdleStates
<1>1. CASE c.idle = "IDLE"
  BY <1>1
<1>2. CASE c.idle = "UNKNOWN"
  BY <1>2
<1>3. CASE c.idle = "ACTIVE"
  BY <1>3
<1> QED
  BY <1>1, <1>2, <1>3

\* So does the end of the grace period.
LEMMA GraceFacts ==
    ASSUME NEW c0 \in ControllerState, NEW s, NEW c \in AfterGrace(c0, s)
    PROVE  c \in ControllerState /\ c.lock = c0.lock /\ c.blocked = c0.blocked /\ c.reason = c0.reason
BY DEF ControllerState, AfterGrace

\* A request that is asked for is the last in the inbox.
LEMMA AskFacts ==
    ASSUME NEW c, NEW block, NEW reason, NEW k, Ask(c, block, reason, k),
           [block |-> block, reason |-> reason] \in Request,
           requests \in Seq(Request), MaxRequests \in Nat
    PROVE  /\ ctl' = c /\ ctlPhase' = "asking" /\ after' = k
           /\ asked' = [block |-> block, reason |-> reason]
           /\ requests' \in Seq(Request) /\ Len(requests') <= MaxRequests
           /\ requests' # << >> /\ LastAsked' = asked'
<1>1. /\ ctl' = c /\ ctlPhase' = "asking" /\ after' = k
      /\ asked' = [block |-> block, reason |-> reason]
      /\ requests' = Append(requests, asked') /\ Len(requests) < MaxRequests
  BY DEF Ask
<1>2. asked' \in Request
  BY <1>1
<1>3. requests' \in Seq(Request) /\ Len(requests') = Len(requests) + 1
      /\ requests'[Len(requests) + 1] = asked' /\ Len(requests) \in Nat
  BY <1>1, <1>2
<1> QED
  BY <1>1, <1>3 DEF LastAsked

\* What an operation of the controller leaves when it ends or waits.
Reconciled(lock) ==
    /\ ctl' \in ControllerState /\ ctl'.lock = lock
    /\ ctlPhase' \in {"idle", "asking"} /\ after' \in {"done", "reconcile"}
    /\ requests' \in Seq(Request) /\ Len(requests') <= MaxRequests
    /\ ctlPhase' = "asking" => asked' \in Request
    /\ AskInv' /\ IdleInv'

\* _reconcile ends with the block it wants applied, or asks for it.
LEMMA ReconcileFacts ==
    ASSUME NEW c0 \in ControllerState, NEW s, Reconcile(c0, s),
           c0.blocked /\ c0.reason = "IDLE" => requests = << >> /\ autoReason # None,
           requests \in Seq(Request), Len(requests) <= MaxRequests,
           autoReason' = autoReason, settings' = s
    PROVE  Reconciled(c0.lock)
<1> PICK c \in AfterGrace(c0, s) :
        LET desired == DesiredBlockReason(c, s) IN
        \/ desired # None /\ c.blocked /\ c.reason = desired /\ Finish(c)
        \/ desired # None /\ Ask(c, TRUE, desired, "done")
        \/ desired = None /\ ~c.blocked /\ Finish([c EXCEPT !.reason = None])
        \/ desired = None /\ Finish(c)
        \/ desired = None /\ Ask(c, FALSE, IF c.reason = "SESSION_LOCKED" THEN "SESSION_UNLOCKED"
                                            ELSE "ACTIVE", "done")
  BY DEF Reconcile
<1> DEFINE desired == DesiredBlockReason(c, s)
<1>1. /\ c \in ControllerState /\ c.lock = c0.lock
      /\ c.blocked /\ c.reason = "IDLE" => requests = << >> /\ autoReason # None
  BY GraceFacts
<1> DEFINE e == [c EXCEPT !.reason = None]
<1>2. /\ e \in ControllerState /\ e.lock = c.lock /\ e.reason = None
      /\ desired \in BlockReasons \cup {None} /\ DesiredBlockReason(e, s) = desired
  <2>1. /\ e \in ControllerState /\ e.lock = c.lock /\ e.reason = None
        /\ e.idle = c.idle /\ e.grace = c.grace /\ e.manual = c.manual /\ e.uncertain = c.uncertain
    BY <1>1 DEF ControllerState
  <2> HIDE DEF e
  <2> QED
    BY <1>1, <2>1, DesiredFacts
<1>3. ASSUME NEW d \in ControllerState, Finish(d), d.lock = c0.lock,
             d.blocked /\ d.reason = "IDLE" => requests = << >> /\ autoReason # None,
             DesiredBlockReason(d, s) = "IDLE" => d.blocked /\ d.reason = "IDLE"
      PROVE  Reconciled(c0.lock)
  BY <1>3 DEF Finish, Reconciled, AskInv, IdleInv, LastAsked
<1>4. ASSUME NEW b \in BOOLEAN, NEW r, [block |-> b, reason |-> r] \in Request,
             Ask(c, b, r, "done"), ~b => desired = None
      PROVE  Reconciled(c0.lock)
  BY <1>1, <1>4, AskFacts, MaxRequestsAssumption DEF Reconciled, AskInv, IdleInv
<1>5. CASE desired # None /\ c.blocked /\ c.reason = desired /\ Finish(c)
  BY <1>1, <1>3, <1>5
<1>6. CASE desired # None /\ Ask(c, TRUE, desired, "done")
  BY <1>2, <1>4, <1>6 DEF Request
<1>7. CASE desired = None /\ ~c.blocked /\ Finish(e)
  <2> HIDE DEF e
  <2> QED
    BY <1>1, <1>2, <1>3, <1>7 DEF None
<1>8. CASE desired = None /\ Finish(c)
  BY <1>1, <1>3, <1>8 DEF None
<1>9. CASE desired = None /\ Ask(c, FALSE, IF c.reason = "SESSION_LOCKED" THEN "SESSION_UNLOCKED"
                                            ELSE "ACTIVE", "done")
  BY <1>4, <1>9 DEF Request, ReleaseReasons
<1> QED
  BY <1>5, <1>6, <1>7, <1>8, <1>9

-----------------------------------------------------------------------------
(* The controller's operations.                                            *)

\* An operation that ends or waits as Reconciled says keeps the invariant, if it
\* leaves the lifecycle alone and the policy lock follows the observation.
LEMMA ControllerStep ==
    ASSUME SafetyInv, UNCHANGED <<vars, environment, session>>,
           NEW lock, Reconciled(lock), settings' \in environment.settings,
           serving' = FALSE, answer' = None, policyLocked' \in BOOLEAN,
           lock # "UNLOCKED" => policyLocked' \/ policyBy' = "preflight"
    PROVE  SafetyInv'
<1>1. IInv'
  BY IInvStutter DEF SafetyInv
<1>2. SafetyTypes'
  BY DEF SafetyInv, SafetyTypes, SafetyTypeOK, Reconciled, ControllerState
<1>3. AnswerInv'
  BY DEF AnswerInv
<1>4. LockInv'
  BY DEF LockInv, Reconciled
<1> QED
  BY <1>1, <1>2, <1>3, <1>4 DEF SafetyInv, Reconciled

\* A request to block that is asked for while the policy is being locked.
LEMMA AuditBlockFacts ==
    ASSUME SafetyInv, NEW c \in ControllerState, Ask(c, TRUE, "SESSION_LOCKED", "reconcile")
    PROVE  Reconciled(c.lock)
<1>1. [block |-> TRUE, reason |-> "SESSION_LOCKED"] \in Request
  BY DEF Request, BlockReasons
<1>2. requests \in Seq(Request) /\ MaxRequests \in Nat
  BY MaxRequestsAssumption DEF SafetyInv, SafetyTypes
<1>3. /\ ctl' = c /\ ctlPhase' = "asking" /\ after' = "reconcile"
      /\ asked' = [block |-> TRUE, reason |-> "SESSION_LOCKED"]
      /\ requests' \in Seq(Request) /\ Len(requests') <= MaxRequests
      /\ requests' # << >> /\ LastAsked' = asked'
  BY <1>1, <1>2, AskFacts
<1> QED
  BY <1>1, <1>3 DEF Reconciled, AskInv, IdleInv

\* What holds of a controller that is ready for its next operation.
LEMMA ReadyFacts ==
    ASSUME SafetyInv, ControllerReady
    PROVE  /\ ctl \in ControllerState /\ serving = FALSE /\ answer = None
           /\ ctl.blocked /\ ctl.reason = "IDLE" => requests = << >> /\ autoReason # None
           /\ requests \in Seq(Request) /\ Len(requests) <= MaxRequests
           /\ settings \in environment.settings /\ policyLocked \in BOOLEAN
BY DEF SafetyInv, ControllerReady, SafetyTypes, SafetyTypeOK, ControllerState, AnswerInv, IdleInv

\* A lock observation goes to the policy engine and to the lifecycle.
LEMMA ObserveLockStep ==
    ASSUME SafetyInv, ControllerReady, NEW observed \in LockStates, ObserveLock(observed),
           UNCHANGED <<settings, environment>>, ControllerFrame
    PROVE  SafetyInv'
<1> DEFINE c == [ctl EXCEPT !.lock = observed]
<1>1. c \in ControllerState /\ c.lock = observed /\ c.blocked = ctl.blocked /\ c.reason = ctl.reason
  BY ReadyFacts DEF ControllerState
<1>2. UNCHANGED <<vars, environment, session, autoReason>> /\ serving' = FALSE /\ answer' = None
  BY ReadyFacts DEF ControllerFrame, vars, actorVars
<1> HIDE DEF c
<1>3. CASE SetSessionLocked(observed # "UNLOCKED", "controller") /\ Reconcile(c, settings)
  <2>1. Reconciled(observed)
    BY <1>1, <1>2, <1>3, ReadyFacts, ReconcileFacts
  <2> QED
    BY <1>2, <1>3, <2>1, ReadyFacts, ControllerStep DEF SetSessionLocked
<1>4. CASE SetSessionLocked(TRUE, "controller") /\ Ask(c, TRUE, "SESSION_LOCKED", "reconcile")
  <2>1. Reconciled(observed)
    BY <1>1, <1>4, AuditBlockFacts
  <2> QED
    BY <1>2, <1>4, <2>1, ReadyFacts, ControllerStep DEF SetSessionLocked
<1> QED
  BY <1>3, <1>4 DEF ObserveLock, c

\* Operations that reconcile with the lock as it was observed last.
LEMMA ReconcileStep ==
    ASSUME SafetyInv, ControllerReady, NEW c \in ControllerState,
           c.lock = ctl.lock, c.blocked = ctl.blocked, c.reason = ctl.reason,
           Reconcile(c, settings'), settings' \in environment.settings,
           UNCHANGED <<policyVars, environment>>, ControllerFrame
    PROVE  SafetyInv'
<1>1. UNCHANGED <<vars, environment, session, autoReason>> /\ serving' = FALSE /\ answer' = None
  BY ReadyFacts DEF ControllerFrame, vars, actorVars
<1>2. Reconciled(ctl.lock)
  BY <1>1, ReadyFacts, ReconcileFacts
<1>3. policyLocked' \in BOOLEAN /\ (ctl.lock # "UNLOCKED" => policyLocked' \/ policyBy' = "preflight")
  BY ReadyFacts DEF SafetyInv, LockInv, policyVars
<1> QED
  BY <1>1, <1>2, <1>3, ControllerStep

\* apply_lock, apply_idle, replace_idle_settings, acknowledge_idle_resume, refresh.
LEMMA OperationSteps ==
    ASSUME SafetyInv, UNCHANGED environment,
           \/ \E o \in {session, "UNKNOWN"} : ApplyLock(o)
           \/ \E o \in environment.reports : ApplyIdle(o)
           \/ \E s \in environment.settings : ReplaceIdleSettings(s)
           \/ AcknowledgeIdleResume
           \/ Refresh
    PROVE  SafetyInv'
<1>0. /\ environment.sessions \subseteq {"LOCKED", "UNLOCKED"}
      /\ environment.reports \subseteq {"IDLE", "ACTIVE", "UNKNOWN"}
      /\ session \in environment.sessions
  BY EnvironmentsAssumption DEF SafetyInv, SafetyTypes, SafetyTypeOK
<1>1. ASSUME NEW o \in {session, "UNKNOWN"}, ApplyLock(o) PROVE SafetyInv'
  <2>1. o \in LockStates
    BY <1>0 DEF LockStates
  <2> QED
    BY <1>1, <2>1, ObserveLockStep DEF ApplyLock
<1>2. ASSUME NEW o \in IdleStates, NEW s, ControllerReady
      PROVE  LET c == UpdateResumeLatches([ctl EXCEPT !.idle = o], s, ctl.idle)
             IN  c \in ControllerState /\ c.lock = ctl.lock /\ c.blocked = ctl.blocked
                   /\ c.reason = ctl.reason
  <2> DEFINE d == [ctl EXCEPT !.idle = o]
  <2>1. /\ d \in ControllerState /\ d.lock = ctl.lock /\ d.blocked = ctl.blocked
        /\ d.reason = ctl.reason
    BY <1>2, ReadyFacts DEF ControllerState
  <2> HIDE DEF d
  <2>2. LET c == UpdateResumeLatches(d, s, ctl.idle)
        IN  c \in ControllerState /\ c.lock = ctl.lock /\ c.blocked = ctl.blocked
              /\ c.reason = ctl.reason
    BY <2>1, LatchFacts
  <2> QED
    BY <2>2 DEF d
<1>3. ASSUME NEW o \in environment.reports, ApplyIdle(o) PROVE SafetyInv'
  <2> DEFINE c == UpdateResumeLatches([ctl EXCEPT !.idle = o], settings, ctl.idle)
  <2>1. /\ c \in ControllerState /\ c.lock = ctl.lock /\ c.blocked = ctl.blocked
        /\ c.reason = ctl.reason /\ ControllerReady
    BY <1>0, <1>2, <1>3 DEF ApplyIdle, IdleStates
  <2>2. /\ \/ Reconcile(c, settings) /\ UNCHANGED policyVars
           \/ Ask(c, TRUE, "SESSION_LOCKED", "reconcile") /\ SetSessionLocked(TRUE, "controller")
        /\ UNCHANGED settings /\ ControllerFrame
    BY <1>3 DEF ApplyIdle, AuditAndReconcile
  <2> HIDE DEF c
  <2>3. CASE Reconcile(c, settings) /\ UNCHANGED policyVars
    BY <2>1, <2>2, <2>3, ReadyFacts, ReconcileStep
  <2>4. CASE Ask(c, TRUE, "SESSION_LOCKED", "reconcile") /\ SetSessionLocked(TRUE, "controller")
    <3>1. Reconciled(ctl.lock)
      BY <2>1, <2>4, AuditBlockFacts
    <3>2. UNCHANGED <<vars, environment, session>> /\ serving' = FALSE /\ answer' = None
      BY <2>1, <2>2, ReadyFacts DEF ControllerFrame
    <3> QED
      BY <2>1, <2>2, <2>4, <3>1, <3>2, ReadyFacts, ControllerStep DEF SetSessionLocked
  <2> QED
    BY <2>2, <2>3, <2>4
<1>4. ASSUME NEW s \in environment.settings, ReplaceIdleSettings(s) PROVE SafetyInv'
  <2>1. /\ ControllerReady /\ settings' = s /\ UNCHANGED policyVars /\ ControllerFrame
        /\ \/ Reconcile(ctl, s)
           \/ \E o \in environment.reports :
                 Reconcile(UpdateResumeLatches([ctl EXCEPT !.idle = o], s, ctl.idle), s)
    BY <1>4, Zenon DEF ReplaceIdleSettings
  <2>2. CASE Reconcile(ctl, s)
    BY <2>1, <2>2, ReadyFacts, ReconcileStep
  <2>3. ASSUME NEW o \in environment.reports,
               Reconcile(UpdateResumeLatches([ctl EXCEPT !.idle = o], s, ctl.idle), s)
        PROVE  SafetyInv'
    <3>1. o \in IdleStates
      BY <1>0 DEF IdleStates
    <3> DEFINE c == UpdateResumeLatches([ctl EXCEPT !.idle = o], s, ctl.idle)
    <3>2. /\ c \in ControllerState /\ c.lock = ctl.lock /\ c.blocked = ctl.blocked
          /\ c.reason = ctl.reason /\ Reconcile(c, s)
      BY <1>2, <2>1, <2>3, <3>1
    <3> HIDE DEF c
    <3> QED
      BY <2>1, <3>2, ReconcileStep
  <2> QED
    BY <2>1, <2>2, <2>3
<1>5. CASE AcknowledgeIdleResume
  <2> DEFINE c == [ctl EXCEPT !.manual = FALSE]
  <2>1. /\ ControllerReady /\ Reconcile(c, settings) /\ UNCHANGED <<settings, policyVars>>
        /\ ControllerFrame
    BY <1>5 DEF AcknowledgeIdleResume
  <2>2. c \in ControllerState /\ c.lock = ctl.lock /\ c.blocked = ctl.blocked /\ c.reason = ctl.reason
    BY <2>1, ReadyFacts DEF ControllerState
  <2> HIDE DEF c
  <2> QED
    BY <2>1, <2>2, ReadyFacts, ReconcileStep
<1>6. CASE Refresh
  <2>1. CASE Reconcile(ctl, settings) /\ UNCHANGED policyVars
    BY <1>6, <2>1, ReadyFacts, ReconcileStep DEF Refresh
  <2>2. CASE ObserveLock("UNKNOWN")
    BY <1>6, <2>2, ObserveLockStep DEF Refresh, LockStates
  <2> QED
    BY <1>6, <2>1, <2>2 DEF Refresh
<1> QED
  BY <1>1, <1>3, <1>4, <1>5, <1>6

\* The answer arrived, or the ask failed: the rest of the operation.  A refusal
\* and a timeout leave the policy locked, an accepted block the latch set.
LEMMA AskEnds ==
    ASSUME SafetyInv, AskAccepted \/ AskFails, UNCHANGED environment
    PROVE  SafetyInv'
<1> DEFINE done == [ctl EXCEPT !.blocked = asked.block,
                               !.reason = IF asked.block THEN asked.reason ELSE None]
           c == IF answer = "accepted" THEN done ELSE Failed(ctl)
<1>1. /\ ctlPhase = "asking" /\ asked \in Request /\ ctl \in ControllerState
      /\ after \in {"done", "reconcile"} /\ settings \in environment.settings
      /\ requests \in Seq(Request) /\ Len(requests) <= MaxRequests
      /\ AskInv /\ AnswerInv /\ LockInv /\ policyLocked \in BOOLEAN /\ serving \in BOOLEAN
  BY DEF AskAccepted, AskFails, SafetyInv, SafetyTypes, SafetyTypeOK, ControllerState
<1>2. asked.block \in BOOLEAN /\ (asked.block => asked.reason \in BlockReasons)
  BY <1>1 DEF Request
<1>3. /\ c \in ControllerState /\ c.lock = ctl.lock
      /\ c.idle = ctl.idle /\ c.grace = ctl.grace /\ c.manual = ctl.manual
      /\ c.uncertain = ctl.uncertain
      /\ c.blocked /\ c.reason = "IDLE" => answer = "accepted" /\ asked.block
  <2>1. /\ done \in ControllerState /\ done.lock = ctl.lock /\ done.idle = ctl.idle
        /\ done.grace = ctl.grace /\ done.manual = ctl.manual /\ done.uncertain = ctl.uncertain
        /\ done.blocked = asked.block
    BY <1>1, <1>2 DEF ControllerState
  <2>2. /\ Failed(ctl) \in ControllerState /\ Failed(ctl).lock = ctl.lock
        /\ Failed(ctl).idle = ctl.idle /\ Failed(ctl).grace = ctl.grace
        /\ Failed(ctl).manual = ctl.manual /\ Failed(ctl).uncertain = ctl.uncertain
        /\ Failed(ctl).reason = "SESSION_LOCKED"
    BY <1>1 DEF ControllerState, Failed, BlockReasons
  <2> HIDE DEF done
  <2> QED
    BY <2>1, <2>2
<1>4. DesiredBlockReason(c, settings) = DesiredBlockReason(ctl, settings)
  <2> HIDE DEF c
  <2> QED
    BY <1>1, <1>3, DesiredFacts
<1>5. c.blocked /\ c.reason = "IDLE" => requests = << >> /\ autoReason # None
  BY <1>1, <1>3 DEF AskInv, AnswerInv, None
<1>6. /\ UNCHANGED <<vars, environment, session, settings, autoReason>>
      /\ serving' = FALSE /\ answer' = None /\ Continue(c)
      /\ policyLocked' \in BOOLEAN
      /\ ctl.lock # "UNLOCKED" => policyLocked' \/ policyBy' = "preflight"
      /\ answer # "accepted" => policyLocked'
  <2>1. CASE AskAccepted
    <3>1. answer = "accepted" /\ Continue(done) /\ UNCHANGED <<vars, session, settings, serving, policyVars>>
          /\ answer' = None
      BY <2>1 DEF AskAccepted
    <3>2. serving = FALSE
      BY <1>1, <3>1 DEF AnswerInv, None
    <3>3. c = done
      BY <3>1
    <3> HIDE DEF done, c
    <3> QED
      BY <1>1, <3>1, <3>2, <3>3 DEF policyVars, LockInv, vars, actorVars
  <2>2. CASE AskFails
    <3>1. /\ answer # "accepted" /\ Continue(Failed(ctl)) /\ UNCHANGED <<vars, session, settings>>
          /\ answer' = None /\ serving' = FALSE /\ policyLocked' = TRUE /\ policyBy' = "controller"
      BY <2>2 DEF AskFails, SetSessionLocked
    <3>2. c = Failed(ctl)
      BY <3>1
    <3> HIDE DEF c
    <3> QED
      BY <3>1, <3>2 DEF vars, actorVars
  <2> QED
    BY <2>1, <2>2
<1> HIDE DEF c
<1>7. Reconciled(ctl.lock)
  <2>1. CASE after = "reconcile"
    BY <1>1, <1>3, <1>5, <1>6, <2>1, ReconcileFacts DEF Continue
  <2>2. CASE after = "done"
    <3>1. Finish(c)
      BY <1>6, <2>2 DEF Continue
    <3>2. AskInv'
      BY <3>1 DEF Finish, AskInv
    <3>3. DesiredBlockReason(ctl', settings') = "IDLE" => asked.block
      BY <1>1, <1>4, <1>6, <3>1 DEF Finish, AskInv, None
    <3>4. IdleInv'
      <4>1. requests' # << >> => LastAsked' = asked /\ answer # "accepted"
        BY <1>1, <3>1 DEF Finish, AskInv, AnswerInv, LastAsked, None
      <4>2. ctl' = c /\ requests' = requests
        BY <3>1 DEF Finish
      <4> QED
        BY <1>1, <1>5, <1>6, <3>3, <4>1, <4>2 DEF AskInv, IdleInv
    <3> QED
      BY <1>1, <1>3, <3>1, <3>2, <3>4 DEF Finish, Reconciled
  <2> QED
    BY <1>1, <2>1, <2>2
<1> QED
  BY <1>1, <1>6, <1>7, ControllerStep

-----------------------------------------------------------------------------
(* The lifecycle actor.                                                    *)

\* The first and the last element of a sequence whose head is taken.
LEMMA TailFacts ==
    ASSUME NEW S, NEW q \in Seq(S), q # << >>
    PROVE  /\ Head(q) \in S /\ Tail(q) \in Seq(S) /\ Len(Tail(q)) = Len(q) - 1 /\ Len(q) \in Nat
           /\ Tail(q) = << >> => q[Len(q)] = Head(q)
           /\ Tail(q) # << >> => Tail(q)[Len(Tail(q))] = q[Len(q)] /\ Len(q) # 1
<1>1. Len(q) \in Nat \ {0} /\ Head(q) = q[1] /\ Head(q) \in S /\ Tail(q) \in Seq(S)
      /\ Len(Tail(q)) = Len(q) - 1
  OBVIOUS
<1>2. Tail(q) = << >> => Len(q) = 1
  <2>1. \A t \in Seq(S) : t = << >> => Len(t) = 0
    OBVIOUS
  <2> DEFINE n == Len(q)
             m == Len(Tail(q))
  <2>2. n \in Nat /\ m = n - 1 /\ (Tail(q) = << >> => m = 0)
    BY <1>1, <2>1, Zenon
  <2> HIDE DEF n, m
  <2>3. Tail(q) = << >> => n = 1
    BY ONLY <2>2
  <2> QED BY <2>3 DEF n
<1>3. Tail(q) # << >> => Len(q) # 1 /\ Tail(q)[Len(q) - 1] = q[Len(q)]
  BY <1>1
<1> QED
  BY <1>1, <1>2, <1>3

\* Served, a block sets the latch, whatever the handler answers; a handler
\* answers at once, waits for the commit lock or goes on in the audit sink.
LEMMA ServeFacts ==
    ASSUME IInv, NEW r \in Request, IF r.block THEN Block(r.reason) ELSE Unblock(r.reason)
    PROVE  /\ IInv' /\ [Next]_vars /\ phase = "idle"
           /\ r.block => autoReason' # None
           /\ phase' \in {"idle", "lock", "emit"}
           /\ phase' = "idle" => reply' \in {"accepted", "rejected"}
<1>1. CASE r.block
  <2>1. r.reason \in BlockReasons /\ Block(r.reason)
    BY <1>1 DEF Request
  <2>2. Next
    BY <2>1 DEF Next, Command
  <2>3. /\ phase' \in {"idle", "lock", "emit"}
        /\ phase' = "idle" => reply' \in {"accepted", "rejected"}
    BY <2>1 DEF Block, Answer, AwaitCommitLock
  <2>4. autoReason' # None
    BY <2>1 DEF Block, BlockIsRedundant, BlockReasons, None
  <2> QED
    BY <2>1, <2>2, <2>3, <2>4, BlockStep DEF Block, Ready
<1>2. CASE ~r.block
  <2>1. r.reason \in ReleaseReasons /\ Unblock(r.reason)
    BY <1>2 DEF Request
  <2>2. Next
    BY <2>1 DEF Next, Command
  <2>3. /\ phase' \in {"idle", "lock", "emit"}
        /\ phase' = "idle" => reply' \in {"accepted", "rejected"}
    BY <2>1 DEF Unblock, Answer, Emit
  <2> QED
    BY <1>2, <2>1, <2>2, <2>3, UnblockStep DEF Unblock, Ready
<1> QED
  BY <1>1, <1>2

\* The rest of a handler never clears the latch, and answers when it ends.
LEMMA ActorStepFacts ==
    ASSUME IInv, ActorStep
    PROVE  /\ IInv' /\ [Next]_vars
           /\ autoReason # None => autoReason' # None
           /\ phase \in {"lock", "emit", "drain"} =>
                /\ phase' \in {"idle", "lock", "emit", "drain"}
                /\ phase' = "idle" => reply' \in {"accepted", "rejected"}
<1>1. Next
  BY DEF Next
<1>2. autoReason # None => autoReason' # None
  <2>1. CASE PreflightComplete
    BY <2>1 DEF PreflightComplete, BlockReasons, None
  <2>2. CASE LockTaken \/ EmitSucceeds \/ EmitFails \/ DrainSucceeds
    BY <2>2 DEF LockTaken, EmitSucceeds, EmitFails, DrainSucceeds, BlockReasons, None
  <2>3. CASE DrainFails \/ FaultDrainEnds \/ Die
    BY <2>3 DEF DrainFails, FaultDrainEnds, Die
  <2> QED
    BY <2>1, <2>2, <2>3 DEF ActorStep
<1>3. ASSUME phase \in {"lock", "emit", "drain"}
      PROVE  /\ phase' \in {"idle", "lock", "emit", "drain"}
             /\ phase' = "idle" => reply' \in {"accepted", "rejected"}
  <2>1. ~PreflightComplete /\ ~Die
    BY <1>3 DEF PreflightComplete, Ready, Die
  <2>2. CASE EmitSucceeds \/ DrainSucceeds
    BY <2>2 DEF EmitSucceeds, DrainSucceeds, Answer, Emit
  <2>3. CASE EmitFails \/ DrainFails
    BY <2>3 DEF EmitFails, DrainFails, EnterFault, AwaitCommitLock, Answer
  <2>4. CASE FaultDrainEnds
    BY <2>4 DEF FaultDrainEnds, Answer
  <2>5. CASE LockTaken
    BY <2>5 DEF LockTaken, Answer, Emit
  <2> QED
    BY <2>1, <2>2, <2>3, <2>4, <2>5 DEF ActorStep
<1> QED
  BY <1>1, <1>2, <1>3, IInvNext

\* The actor takes the next request from its inbox.
LEMMA ServeStep ==
    ASSUME SafetyInv, ServeRequest, UNCHANGED environment
    PROVE  SafetyInv'
<1> DEFINE r == Head(requests)
<1>1. requests \in Seq(Request) /\ requests # << >> /\ requests' = Tail(requests)
      /\ Len(requests) <= MaxRequests /\ MaxRequests \in Nat
  BY MaxRequestsAssumption DEF SafetyInv, SafetyTypes, SafetyTypeOK, ServeRequest
<1>2. /\ r \in Request /\ requests' \in Seq(Request) /\ Len(requests') <= MaxRequests
      /\ requests' = << >> => LastAsked = r
      /\ requests' # << >> => LastAsked' = LastAsked /\ Len(requests) # 1
  BY <1>1, TailFacts DEF LastAsked
<1>3. /\ IInv' /\ phase = "idle" /\ phase' \in {"idle", "lock", "emit"}
      /\ r.block => autoReason' # None
      /\ phase' = "idle" => reply' \in {"accepted", "rejected"}
  <2>1. IF r.block THEN Block(r.reason) ELSE Unblock(r.reason)
    BY DEF ServeRequest
  <2> HIDE DEF r
  <2> QED
    BY <1>2, <2>1, ServeFacts DEF SafetyInv
<1>4. UNCHANGED <<environment, session, settings, ctl, ctlPhase, after, asked, policyLocked, policyBy>>
  BY DEF ServeRequest, controllerVars, policyVars
<1>5. answer = None /\ serving = FALSE
  BY <1>1, <1>3 DEF SafetyInv, AnswerInv, SafetyTypes
<1>6. /\ serving' \in BOOLEAN /\ answer' \in {None, "accepted", "rejected"}
      /\ serving' => Awaited /\ phase' # "idle" /\ answer' = None
      /\ answer' # None => Awaited
  BY <1>3, <1>5 DEF ServeRequest, Deliver
<1>7. Awaited => ctlPhase = "asking" /\ requests' = << >>
  BY <1>2 DEF Awaited
<1> HIDE DEF r
<1>8. SafetyTypes'
  BY <1>2, <1>4, <1>6 DEF SafetyInv, SafetyTypes, SafetyTypeOK
<1>9. AskInv'
  BY <1>1, <1>2, <1>3, <1>4 DEF SafetyInv, AskInv
<1>10. AnswerInv'
  BY <1>3, <1>4, <1>6, <1>7 DEF AnswerInv
<1>11. LockInv'
  BY <1>4 DEF SafetyInv, LockInv
<1>12. IdleInv'
  BY <1>1, <1>2, <1>3, <1>4 DEF SafetyInv, IdleInv
<1> QED
  BY <1>3, <1>8, <1>9, <1>10, <1>11, <1>12 DEF SafetyInv

\* The actor goes on with a handler, or takes a preflight's completion.
LEMMA LifecycleStepStep ==
    ASSUME SafetyInv, LifecycleStep, UNCHANGED environment
    PROVE  SafetyInv'
<1>1. /\ IInv' /\ (autoReason # None => autoReason' # None)
      /\ phase \in {"lock", "emit", "drain"} =>
           /\ phase' \in {"idle", "lock", "emit", "drain"}
           /\ phase' = "idle" => reply' \in {"accepted", "rejected"}
  BY ActorStepFacts DEF SafetyInv, LifecycleStep
<1>2. UNCHANGED <<environment, session, settings, ctl, ctlPhase, after, asked, requests, policyLocked,
                  policyBy>>
  BY DEF LifecycleStep, controllerVars, policyVars
<1>3. /\ serving' \in BOOLEAN /\ answer' \in {None, "accepted", "rejected"}
      /\ serving' => serving /\ phase' # "idle" /\ answer' = answer
      /\ answer' # None => serving \/ answer' = answer
  BY <1>1 DEF SafetyInv, SafetyTypes, SafetyTypeOK, AnswerInv, LifecycleStep, Deliver
<1>4. SafetyTypes'
  BY <1>2, <1>3 DEF SafetyInv, SafetyTypes, SafetyTypeOK
<1>5. AskInv' /\ LockInv' /\ IdleInv'
  BY <1>1, <1>2 DEF SafetyInv, AskInv, LockInv, IdleInv, LastAsked
<1>6. AnswerInv'
  BY <1>1, <1>2, <1>3 DEF SafetyInv, AnswerInv
<1> QED
  BY <1>1, <1>4, <1>5, <1>6 DEF SafetyInv

\* Steps that leave the controller and its inbox alone.
LEMMA FrameStep ==
    ASSUME SafetyInv, IInv', UNCHANGED <<environment, controllerVars, requests, serving, answer>>,
           session' \in environment.sessions, autoReason' = autoReason,
           ~serving \/ phase' = phase,
           UNCHANGED policyVars \/ (policyBy' = "preflight" /\ policyLocked' \in BOOLEAN)
    PROVE  SafetyInv'
<1>1. UNCHANGED <<environment, settings, ctl, ctlPhase, after, asked, requests, serving, answer>>
  BY DEF controllerVars
<1>2. policyLocked' \in BOOLEAN
      /\ (policyLocked \/ policyBy = "preflight" => policyLocked' \/ policyBy' = "preflight")
  BY DEF SafetyInv, SafetyTypes, policyVars
<1>3. SafetyTypes'
  BY <1>1, <1>2 DEF SafetyInv, SafetyTypes, SafetyTypeOK
<1>4. AskInv' /\ LockInv' /\ IdleInv'
  BY <1>1, <1>2 DEF SafetyInv, AskInv, LockInv, IdleInv, LastAsked
<1>5. AnswerInv'
  BY <1>1 DEF SafetyInv, AnswerInv
<1> QED
  BY <1>3, <1>4, <1>5 DEF SafetyInv

\* Commands of the user, the preflight actor and the desktop.
LEMMA SurroundingSteps ==
    ASSUME SafetyInv, UNCHANGED environment,
           \/ UserCommand
           \/ SafetyPreflightBegin \/ SafetyPreflightPolicy
           \/ \E r \in PreflightResults : SafetyPreflightEnd(r)
           \/ SessionChanges
    PROVE  SafetyInv' /\ [Next]_vars
<1>0. session \in environment.sessions /\ IInv /\ serving \in BOOLEAN
  BY DEF SafetyInv, SafetyTypes, SafetyTypeOK
<1>1. CASE UserCommand
  <2>1. Next
    BY <1>1 DEF UserCommand, Next, Command
  <2>2. autoReason' = autoReason
    BY <1>1 DEF UserCommand, Start, Pause, Resume, Stop, Fault, Shutdown, HandleStop
  <2>3. phase = "idle"
    BY <1>1 DEF UserCommand, Start, Pause, Resume, Stop, Fault, Shutdown, Ready
  <2>4. ~serving
    BY <2>3 DEF SafetyInv, AnswerInv
  <2>5. UNCHANGED <<session, controllerVars, requests, serving, answer, policyVars>>
    BY <1>1 DEF UserCommand, safetyVars
  <2>6. SafetyInv'
    BY <1>0, <2>1, <2>2, <2>4, <2>5, IInvNext, FrameStep
  <2> QED
    BY <2>1, <2>6
<1>2. CASE SafetyPreflightBegin
  <2>1. Next
    BY <1>2 DEF SafetyPreflightBegin, Next, PreflightStep
  <2>2. /\ autoReason' = autoReason /\ phase' = phase
        /\ UNCHANGED <<session, controllerVars, requests, serving, answer, policyVars>>
    BY <1>2 DEF SafetyPreflightBegin, PreflightBegin, actorVars
  <2>3. SafetyInv'
    BY <1>0, <2>1, <2>2, IInvNext, FrameStep
  <2> QED
    BY <2>1, <2>3
<1>3. CASE SafetyPreflightPolicy
  <2>1. /\ UNCHANGED <<vars, session, controllerVars, requests, serving, answer>>
        /\ policyLocked' \in BOOLEAN /\ policyBy' = "preflight"
    BY <1>3 DEF SafetyPreflightPolicy, SetSessionLocked
  <2>2. autoReason' = autoReason /\ phase' = phase
    BY <2>1 DEF vars, actorVars
  <2>3. SafetyInv'
    BY <1>0, <2>1, <2>2, IInvStutter, FrameStep
  <2> QED
    BY <2>1, <2>3
<1>4. ASSUME NEW r \in PreflightResults, SafetyPreflightEnd(r) PROVE SafetyInv' /\ [Next]_vars
  <2>1. Next
    BY <1>4 DEF SafetyPreflightEnd, Next, PreflightStep
  <2>2. /\ autoReason' = autoReason /\ phase' = phase
        /\ UNCHANGED <<session, controllerVars, requests, serving, answer, policyVars>>
    BY <1>4 DEF SafetyPreflightEnd, PreflightEnd, actorVars
  <2>3. SafetyInv'
    BY <1>0, <2>1, <2>2, IInvNext, FrameStep
  <2> QED
    BY <2>1, <2>3
<1>5. CASE SessionChanges
  <2>1. /\ UNCHANGED <<vars, controllerVars, requests, serving, answer, policyVars>>
        /\ session' \in environment.sessions
    BY <1>0, <1>5 DEF SessionChanges
  <2>2. autoReason' = autoReason /\ phase' = phase
    BY <2>1 DEF vars, actorVars
  <2>3. SafetyInv'
    BY <1>0, <2>1, <2>2, IInvStutter, FrameStep
  <2> QED
    BY <2>1, <2>3
<1> QED
  BY <1>1, <1>2, <1>3, <1>4, <1>5

-----------------------------------------------------------------------------
(* The theorems.                                                           *)

\* At the start the policy is locked and nothing has been asked for.
LEMMA SafetyInvInit == SafetyInit => SafetyInv
<1> SUFFICES ASSUME SafetyInit PROVE SafetyInv
  OBVIOUS
<1> USE DEF SafetyInit
<1>1. IInv
  BY IInvInit
<1>2. SafetyTypes
  <2>1. requests \in Seq(Request) /\ Len(requests) = 0
    OBVIOUS
  <2>2. ctl \in [lock : LockStates, idle : IdleStates, grace : BOOLEAN, manual : BOOLEAN,
                 uncertain : BOOLEAN, blocked : BOOLEAN, reason : BlockReasons \cup {None}]
    BY DEF LockStates, IdleStates
  <2>3. Len(requests) <= MaxRequests
    BY <2>1, MaxRequestsAssumption
  <2>4. SafetyTypeOK
    BY <2>2, <2>3 DEF SafetyTypeOK
  <2> QED
    BY <2>1, <2>4 DEF SafetyTypes
<1>3. AskInv /\ AnswerInv /\ LockInv
  BY DEF AskInv, AnswerInv, LockInv
<1>4. IdleInv
  BY DEF IdleInv, DesiredBlockReason
<1> QED
  BY <1>1, <1>2, <1>3, <1>4 DEF SafetyInv

\* Every step keeps the invariant and is a step of the lifecycle, or none of it.
LEMMA SafetyInvNext ==
    ASSUME SafetyInv, [SafetyNext]_<<vars, safetyVars>>
    PROVE  SafetyInv' /\ [Next]_vars
<1>1. CASE UNCHANGED <<vars, safetyVars>>
  <2>1. /\ UNCHANGED <<environment, controllerVars, requests, serving, answer, policyVars>>
        /\ session' = session /\ autoReason' = autoReason /\ phase' = phase /\ UNCHANGED vars
    BY <1>1 DEF safetyVars, vars, actorVars
  <2>2. IInv' /\ session \in environment.sessions
    BY <2>1, IInvStutter DEF SafetyInv, SafetyTypes, SafetyTypeOK
  <2> QED
    BY <2>1, <2>2, FrameStep
<1>2. CASE SafetyNext
  <2>0. UNCHANGED environment
    BY <1>2 DEF SafetyNext
  <2>1. CASE Controller
    <3>1. SafetyInv'
      BY <2>0, <2>1, OperationSteps, AskEnds DEF Controller
    <3>2. UNCHANGED vars
      BY <2>1 DEF Controller, ApplyLock, ApplyIdle, ReplaceIdleSettings, AcknowledgeIdleResume,
                  Refresh, ControllerFrame, AskAccepted, AskFails
    <3> QED
      BY <3>1, <3>2
  <2>2. CASE ServeRequest
    <3>1. [Next]_vars
      <4> DEFINE r == Head(requests)
      <4>1. r \in Request
        BY <2>2, TailFacts DEF SafetyInv, SafetyTypes, ServeRequest
      <4>2. IF r.block THEN Block(r.reason) ELSE Unblock(r.reason)
        BY <2>2 DEF ServeRequest
      <4> HIDE DEF r
      <4> QED
        BY <4>1, <4>2, ServeFacts DEF SafetyInv
    <3> QED
      BY <2>0, <2>2, <3>1, ServeStep
  <2>3. CASE LifecycleStep
    BY <2>0, <2>3, LifecycleStepStep, ActorStepFacts DEF SafetyInv, LifecycleStep
  <2> QED
    BY <1>2, <2>0, <2>1, <2>2, <2>3, SurroundingSteps DEF SafetyNext
<1> QED
  BY <1>1, <1>2

\* The inductive invariant of the composition.
THEOREM SafetyInvariance == SafetySpec => []SafetyInv
<1>1. SafetyInv /\ [SafetyNext]_<<vars, safetyVars>> => SafetyInv'
  BY SafetyInvNext
<1> QED
  BY <1>1, SafetyInvInit, PTL DEF SafetySpec

\* The lifecycle actor that serves the controller and runs the safety preflight
\* is the one of Lifecycle: all that is proved of the gate holds with session
\* safety in place.
THEOREM SafetyImplementsLifecycle == SafetySpec => Spec
<1>1. SafetyInit => Init
  BY DEF SafetyInit
<1>2. SafetyInv /\ [SafetyNext]_<<vars, safetyVars>> => [Next]_vars
  BY SafetyInvNext
<1> QED
  BY <1>1, <1>2, SafetyInvariance, PTL DEF SafetySpec, Spec

\* SessionSafetyController fails closed: a request that is rejected, lost in a
\* timeout or served late, and an audit sink that fails, all leave the latch or
\* the policy lock, for every inbox and every environment.
THEOREM SafetyFailsClosed == SafetySpec => []FailsClosed
<1>1. SafetyInv => FailsClosed
  <2> SUFFICES ASSUME SafetyInv PROVE SafetyTypeOK /\ TwoLayers
    BY DEF FailsClosed
  <2>1. ctl \in ControllerState
    BY DEF SafetyInv, SafetyTypes, SafetyTypeOK, ControllerState
  <2>2. /\ DesiredBlockReason(ctl, settings) \in BlockReasons \cup {None}
        /\ DesiredBlockReason(ctl, settings) = "SESSION_LOCKED" <=> ctl.lock # "UNLOCKED"
    BY <2>1, DesiredFacts
  <2>3. TwoLayers
    BY <2>2 DEF SafetyInv, LockInv, IdleInv, TwoLayers, BlockReasons
  <2> QED
    BY <2>3 DEF SafetyInv, SafetyTypes
<1> QED
  BY <1>1, SafetyInvariance, PTL

\* Once the controller's requests are served, a session it takes for idle is not
\* recorded, whatever was served late: the last request is the one that counts.
THEOREM IdleSessionsNotRecorded == SafetySpec => []IdleStopsRecording
<1>1. SafetyInv => IdleStopsRecording
  BY DEF SafetyInv, IInv, SafetyBlockHolds, IdleInv, IdleStopsRecording, Settled
<1> QED
  BY <1>1, SafetyInvariance, PTL
=============================================================================
