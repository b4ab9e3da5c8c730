---------------------------- MODULE SessionSafety ----------------------------
(***************************************************************************)
(* Session safety (session/safety.py): SessionSafetyController, which turns *)
(* lock and idle observations into automatic capture blocks, composed with  *)
(* the lifecycle actor it asks to apply them and with                       *)
(* SessionSafetyPreflight, which the preflight actor runs at a start.       *)
(*                                                                         *)
(* The controller holds its lock while it asks the lifecycle actor, so it   *)
(* does one operation at a time; the ask has a timeout, but a request that  *)
(* timed out stays in the actor's inbox and is still served.  The session   *)
(* itself (`session') is the environment: observations report its current   *)
(* state or nothing.                                                        *)
(***************************************************************************)
EXTENDS Lifecycle

CONSTANTS
    Environments,  \* what a behaviour may meet: its idle settings, the states of its
                   \* desktop session and the reports of its idle sources
    MaxRequests    \* bound on the requests waiting in the actor's inbox

ResumeBehaviors == {"immediate", "active-grace", "manual"}
ASSUME EnvironmentsAssumption ==
    Environments \subseteq [settings : SUBSET [pausing : BOOLEAN, behavior : ResumeBehaviors],
                            sessions : SUBSET {"LOCKED", "UNLOCKED"},
                            reports : SUBSET {"IDLE", "ACTIVE", "UNKNOWN"}]
ASSUME MaxRequestsAssumption == MaxRequests \in Nat \ {0}

VARIABLES
    environment,   \* the one of this behaviour
    session,       \* the desktop session: "LOCKED" or "UNLOCKED"
    settings,      \* _settings
    ctl,           \* the controller's observations, latches and block
    ctlPhase,      \* "idle", or "asking" while it waits for the actor
    after,         \* what follows the ask: "done", or "reconcile" after an audit failure
    asked,         \* the request it waits for
    requests,      \* requests in the inbox of the lifecycle actor
    serving,       \* the actor is handling the request the controller waits for
    answer,        \* the result of that request
    policyLocked,  \* the policy engine's session lock
    privacy,       \* the policy engine's privacy mode
    pfSample,      \* lock observation of the running preflight; "set" once applied
    policyBy       \* history: who set the policy engine's session lock last

controllerVars == <<settings, ctl, ctlPhase, after, asked>>
policyVars == <<policyLocked, policyBy>>
safetyVars == <<environment, session, controllerVars, requests, serving, answer, policyVars,
                privacy, pfSample>>

LockStates == {"LOCKED", "UNLOCKED", "UNKNOWN"}
IdleStates == {"IDLE", "ACTIVE", "UNKNOWN"}
NoRequest == [block |-> FALSE, reason |-> None]

SafetyInit ==
    /\ Init
    /\ environment \in Environments
    /\ settings \in environment.settings
    /\ session \in environment.sessions
    /\ ctl = [lock |-> "UNKNOWN", idle |-> "UNKNOWN", grace |-> FALSE, manual |-> FALSE,
              uncertain |-> FALSE, blocked |-> FALSE, reason |-> None]
    /\ ctlPhase = "idle"
    /\ after = "done"
    /\ asked = NoRequest
    /\ requests = << >>
    /\ serving = FALSE
    /\ answer = None
    /\ policyLocked = TRUE
    /\ privacy = FALSE
    /\ pfSample = None
    /\ policyBy = "controller"

-----------------------------------------------------------------------------
(* The controller's decisions.                                             *)

\* _update_resume_latches; prev is the idle state before this observation.
UpdateResumeLatches(c, s, prev) ==
    CASE c.idle = "IDLE" -> [c EXCEPT !.grace = FALSE, !.uncertain = FALSE]
      [] c.idle = "UNKNOWN" ->
            IF c.blocked /\ c.reason = "IDLE" THEN [c EXCEPT !.uncertain = TRUE] ELSE c
      [] c.idle = "ACTIVE" ->
            [c EXCEPT !.uncertain = FALSE,
                      !.manual = @ \/ (prev = "IDLE" /\ s.behavior = "manual"),
                      !.grace = @ \/ (prev = "IDLE" /\ s.behavior = "active-grace")]

\* _idle_blocked, once a grace period that is over has been forgotten.
IdleBlocked(c, s) ==
    /\ s.pausing
    /\ \/ c.idle = "IDLE"
       \/ c.uncertain
       \/ s.behavior = "manual" /\ c.manual
       \/ s.behavior = "active-grace" /\ c.grace

DesiredBlockReason(c, s) ==
    IF c.lock # "UNLOCKED" THEN "SESSION_LOCKED"
    ELSE IF IdleBlocked(c, s) THEN "IDLE" ELSE None

\* The grace period is looked at, and dropped if over, only when nothing
\* stronger blocks.
GraceChecked(c, s) ==
    c.lock = "UNLOCKED" /\ s.pausing /\ c.idle # "IDLE" /\ ~c.uncertain
      /\ s.behavior = "active-grace" /\ c.grace

AfterGrace(c, s) == {c} \cup (IF GraceChecked(c, s) THEN {[c EXCEPT !.grace = FALSE]} ELSE {})

Finish(c) ==
    /\ ctl' = c
    /\ ctlPhase' = "idle"
    /\ after' = "done"
    /\ asked' = NoRequest
    /\ UNCHANGED requests

Ask(c, block, reason, k) ==
    /\ Len(requests) < MaxRequests
    /\ ctl' = c
    /\ ctlPhase' = "asking"
    /\ after' = k
    /\ asked' = [block |-> block, reason |-> reason]
    /\ requests' = Append(requests, asked')

\* Mutant of Reconcile: a block that was applied for another reason will do.
ReconcileAnyReason(c0, s) ==
    \E c \in AfterGrace(c0, s) :
        LET desired == DesiredBlockReason(c, s) IN
        \/ /\ desired # None /\ c.blocked
           /\ Finish(c)
        \/ /\ desired # None /\ ~c.blocked
           /\ Ask(c, TRUE, desired, "done")
        \/ /\ desired = None /\ ~c.blocked
           /\ Finish([c EXCEPT !.reason = None])
        \/ /\ desired = None /\ c.blocked /\ ~privacy
           /\ Ask(c, FALSE, IF c.reason = "SESSION_LOCKED" THEN "SESSION_UNLOCKED"
                            ELSE "ACTIVE", "done")

\* _reconcile: nothing to do if the same block was applied, or no block is
\* wanted and none was; privacy mode keeps a block that is no longer wanted.
Reconcile(c0, s) ==
    \E c \in AfterGrace(c0, s) :
        LET desired == DesiredBlockReason(c, s) IN
        \/ /\ desired # None
           /\ c.blocked /\ c.reason = desired
           /\ Finish(c)
        \/ /\ desired # None
           /\ ~(c.blocked /\ c.reason = desired)
           /\ Ask(c, TRUE, desired, "done")
        \/ /\ desired = None
           /\ ~c.blocked
           /\ Finish([c EXCEPT !.reason = None])
        \/ /\ desired = None
           /\ c.blocked /\ privacy
           /\ Finish(c)
        \/ /\ desired = None
           /\ c.blocked /\ ~privacy
           /\ Ask(c, FALSE, IF c.reason = "SESSION_LOCKED" THEN "SESSION_UNLOCKED"
                            ELSE "ACTIVE", "done")

\* The failure branches of _apply_lifecycle.
Failed(c) == [c EXCEPT !.blocked = TRUE, !.reason = "SESSION_LOCKED"]

-----------------------------------------------------------------------------
(* The controller's operations.                                            *)

ControllerReady == ctlPhase = "idle"

SetSessionLocked(locked, who) == policyLocked' = locked /\ policyBy' = who

\* What the controller's own operations leave alone.
ControllerFrame == UNCHANGED <<vars, session, serving, answer, privacy, pfSample>>

\* An observation changed a state, so it is audited: a failing audit sink locks
\* the policy and blocks before the controller reconciles.
AuditAndReconcile(c) ==
    \/ Reconcile(c, settings) /\ UNCHANGED policyVars
    \/ Ask(c, TRUE, "SESSION_LOCKED", "reconcile") /\ SetSessionLocked(TRUE, "controller")

\* Mutant of ObserveLock: the policy engine is locked for LOCKED only.
ObserveLockUnknownOpen(observed) ==
    LET c == [ctl EXCEPT !.lock = observed] IN
    \/ /\ SetSessionLocked(observed = "LOCKED", "controller")
       /\ Reconcile(c, settings)
    \/ /\ ctl.lock # observed
       /\ SetSessionLocked(TRUE, "controller")
       /\ Ask(c, TRUE, "SESSION_LOCKED", "reconcile")

ObserveLock(observed) ==
    LET c == [ctl EXCEPT !.lock = observed] IN
    \/ /\ SetSessionLocked(observed # "UNLOCKED", "controller")
       /\ Reconcile(c, settings)
    \/ /\ ctl.lock # observed
       /\ SetSessionLocked(TRUE, "controller")
       /\ Ask(c, TRUE, "SESSION_LOCKED", "reconcile")

\* apply_lock, with the observation that _normalize_lock made of its argument.
ApplyLock(observed) ==
    /\ ControllerReady
    /\ ObserveLock(observed)
    /\ UNCHANGED settings
    /\ ControllerFrame

\* apply_idle, with the state that _resolve_idle made of its arguments.
ApplyIdle(observed) ==
    /\ ControllerReady
    /\ LET c == UpdateResumeLatches([ctl EXCEPT !.idle = observed], settings, ctl.idle)
       IN  \/ ctl.idle # observed /\ AuditAndReconcile(c)
           \/ ctl.idle = observed /\ Reconcile(c, settings) /\ UNCHANGED policyVars
    /\ UNCHANGED settings
    /\ ControllerFrame

\* The new threshold is applied to the last idle duration, if there is one; it
\* may be too old by now.
ReplaceIdleSettings(s) ==
    /\ ControllerReady
    /\ settings' = s
    /\ \/ Reconcile(ctl, s)
       \/ \E observed \in environment.reports :
            /\ ctl.idle # "UNKNOWN"
            /\ Reconcile(UpdateResumeLatches([ctl EXCEPT !.idle = observed], s, ctl.idle), s)
    /\ UNCHANGED policyVars
    /\ ControllerFrame

AcknowledgeIdleResume ==
    /\ ControllerReady
    /\ Reconcile([ctl EXCEPT !.manual = FALSE], settings)
    /\ UNCHANGED <<settings, policyVars>>
    /\ ControllerFrame

\* An unlocked observation that is too old counts as unknown.
Refresh ==
    /\ ControllerReady
    /\ \/ Reconcile(ctl, settings) /\ UNCHANGED policyVars
       \/ ctl.lock = "UNLOCKED" /\ ObserveLock("UNKNOWN")
    /\ UNCHANGED settings
    /\ ControllerFrame

\* The rest of the operation once _apply_lifecycle has returned.
Continue(c) == IF after = "reconcile" THEN Reconcile(c, settings) ELSE Finish(c)

\* Mutant of AskAccepted: the reason of a release is kept as a block reason.
AskAcceptedKeepsReason ==
    /\ ctlPhase = "asking"
    /\ answer = "accepted"
    /\ answer' = None
    /\ Continue([ctl EXCEPT !.blocked = asked.block, !.reason = asked.reason])
    /\ UNCHANGED <<vars, session, settings, serving, privacy, pfSample, policyVars>>

AskAccepted ==
    /\ ctlPhase = "asking"
    /\ answer = "accepted"
    /\ answer' = None
    /\ Continue([ctl EXCEPT !.blocked = asked.block,
                            !.reason = IF asked.block THEN asked.reason ELSE None])
    /\ UNCHANGED <<vars, session, settings, serving, privacy, pfSample, policyVars>>

\* The request was rejected, or the ask timed out or found the actor dead: the
\* controller falls back to the policy engine's lock and to a block that it has
\* not applied.
AskFails ==
    /\ ctlPhase = "asking"
    /\ answer # "accepted"
    /\ answer' = None
    /\ serving' = FALSE
    /\ Continue(Failed(ctl))
    /\ SetSessionLocked(TRUE, "controller")
    /\ UNCHANGED <<vars, session, settings, privacy, pfSample>>

-----------------------------------------------------------------------------
(* The lifecycle actor, with its inbox.                                    *)

\* When the handler that serves the controller's request ends, its result is
\* set in the future the controller waits on.
Deliver(served) ==
    /\ serving' = (served /\ phase' # "idle")
    /\ answer' = IF served /\ phase' = "idle" THEN reply' ELSE answer

Awaited == ctlPhase = "asking" /\ answer = None /\ ~serving /\ Len(requests) = 1

ServeRequest ==
    /\ requests # << >>
    /\ LET r == Head(requests) IN IF r.block THEN Block(r.reason) ELSE Unblock(r.reason)
    /\ requests' = Tail(requests)
    /\ Deliver(Awaited)
    /\ UNCHANGED <<session, controllerVars, policyVars, privacy, pfSample>>

UserCommand ==
    /\ \/ \E rev \in Revisions : Start(rev)
       \/ Pause
       \/ Resume
       \/ Stop
       \/ Fault
       \/ Shutdown
    /\ UNCHANGED safetyVars

LifecycleStep ==
    /\ ActorStep
    /\ Deliver(serving)
    /\ UNCHANGED <<session, controllerVars, requests, policyVars, privacy, pfSample>>

-----------------------------------------------------------------------------
(* SessionSafetyPreflight.check inside the preflight actor.                *)

SafetyPreflightBegin ==
    /\ PreflightBegin
    /\ pfSample' \in IF pfRunning' # NoGeneration THEN {session, "UNKNOWN"} ELSE {None}
    /\ UNCHANGED <<session, controllerVars, requests, serving, answer, policyVars, privacy>>

SafetyPreflightPolicy ==
    /\ pfRunning # NoGeneration
    /\ pfSample \in LockStates
    /\ SetSessionLocked(pfSample # "UNLOCKED", "preflight")
    /\ pfSample' = IF pfSample = "UNLOCKED" THEN "set-unlocked" ELSE "set-locked"
    /\ UNCHANGED <<vars, session, controllerVars, requests, serving, answer, privacy>>

\* The base check may fail; an idle session is found by the idle sources.  The
\* preflight keeps the idle settings it was built with.
SafetyPreflightEnd(result) ==
    /\ \/ result = "failed"
       \/ result = "SESSION_LOCKED" /\ pfSample = "set-locked"
       \/ result = "IDLE" /\ pfSample = "set-unlocked" /\ \E s \in environment.settings : s.pausing
       \/ result = "ready" /\ pfSample = "set-unlocked"
    /\ pfSample \in {"set-locked", "set-unlocked"}
    /\ PreflightEnd(result)
    /\ pfSample' = None
    /\ UNCHANGED <<session, controllerVars, requests, serving, answer, policyVars, privacy>>

-----------------------------------------------------------------------------
\* The user locks or unlocks the desktop, or toggles privacy mode.
SessionChanges ==
    /\ \/ /\ session' \in environment.sessions \ {session}
          /\ UNCHANGED privacy
       \/ /\ privacy' = ~privacy
          /\ UNCHANGED session
    /\ UNCHANGED <<vars, controllerVars, requests, serving, answer, policyVars, pfSample>>

Controller ==
    \/ \E o \in {session, "UNKNOWN"} : ApplyLock(o)
    \/ \E o \in environment.reports : ApplyIdle(o)
    \/ \E s \in environment.settings : ReplaceIdleSettings(s)
    \/ AcknowledgeIdleResume
    \/ Refresh
    \/ AskAccepted
    \/ AskFails

SafetyNext ==
    /\ UNCHANGED environment
    /\ \/ Controller
       \/ ServeRequest
       \/ UserCommand
       \/ LifecycleStep
       \/ SafetyPreflightBegin
       \/ SafetyPreflightPolicy
       \/ \E r \in PreflightResults : SafetyPreflightEnd(r)
       \/ SessionChanges

SafetySpec == SafetyInit /\ [][SafetyNext]_<<vars, safetyVars>>

-----------------------------------------------------------------------------
(* Properties.                                                             *)

\* Nothing the controller asked for is still on its way: no request is in the
\* inbox, and no block is in a handler that waits for the commit lock.
Settled == ctlPhase = "idle" /\ requests = << >> /\ ~serving /\ ~BlockAwaitsCommit

\* Types of the controller, of its requests and of the policy lock; the inbox
\* bound holds.
SafetyTypeOK ==
    /\ environment \in Environments
    /\ settings \in environment.settings
    /\ session \in environment.sessions
    /\ ctl \in [lock : LockStates, idle : IdleStates, grace : BOOLEAN, manual : BOOLEAN,
                uncertain : BOOLEAN, blocked : BOOLEAN, reason : BlockReasons \cup {None}]
    /\ ctlPhase \in {"idle", "asking"}
    /\ answer \in {None, "accepted", "rejected"}
    /\ Len(requests) <= MaxRequests

\* Two layers stand between capture and a session that the controller wants
\* blocked.  Whenever none of its operations is waiting, the lifecycle latch
\* holds or the policy engine is locked or in privacy mode: a rejected request,
\* one that timed out, one served late and a failing audit sink each leave one
\* of them.  The exception is a start's own preflight that wrote the policy
\* lock after the controller did.
TwoLayers ==
    ctlPhase = "idle" /\ DesiredBlockReason(ctl, settings) # None
      => autoReason # None \/ policyLocked \/ privacy \/ policyBy = "preflight"

\* Session safety fails closed, whatever becomes of the controller's requests: the types
\* hold, with no more requests in the inbox than callers, and one layer always stands.
FailsClosed == SafetyTypeOK /\ TwoLayers

\* Once its requests are served, a session that the controller takes for idle,
\* or that waits for the acknowledgement or the grace period after idling, is
\* not recorded: not even when a release that had timed out is served late.
IdleStopsRecording ==
    Settled /\ DesiredBlockReason(ctl, settings) = "IDLE" => state # "RECORDING"

\* docs/session-safety.md: a session that was observed locked is not recorded.
LockStopsRecording ==
    Settled /\ ctl.lock = "LOCKED" => state # "RECORDING"

=============================================================================
