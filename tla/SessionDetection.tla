-------------------------- MODULE SessionDetection --------------------------
(***************************************************************************)
(* What the daemon learns of the desktop session (session/): the display   *)
(* protocol and the metadata strategies (detection.py, probes.py,          *)
(* resolver.py), the merge of their metadata (coordinator.py), the idle    *)
(* sources (idle.py, resolve_idle_observations of safety.py), and logind's *)
(* lock state, by query and by signal (logind.py).                         *)
(***************************************************************************)
EXTENDS Integers, Sequences, FiniteSetsExt, Functions, Options

CONSTANTS MaxSignals        \* bound on the signals waiting in the monitor's pipe

ASSUME DetectionAssumption ==
    /\ MaxSignals \in Nat
    /\ None \notin {"resolve", "ask", "LOCKED", "UNLOCKED", "UNKNOWN"}

-----------------------------------------------------------------------------
(* detect_desktop_session, probes and SessionResolver.resolve.             *)

\* An environment: [type, display, wayland, desktops]; type is "xorg", "wayland", "other"
\* or None.
Protocol(env) ==
    CASE env.type = "xorg" /\ env.display /\ ~env.wayland -> "xorg"
      [] env.type = "wayland" /\ env.wayland -> "wayland"
      [] OTHER -> "unknown"

\* Several known desktops are no desktop.
Desktop(env) == IF Cardinality(env.desktops) = 1 THEN CHOOSE d \in env.desktops : TRUE
                ELSE "unknown"

\* The probes' own conditions; `up' is the health of what they ask.
Compatible(source, env) ==
    CASE source = "xorg-generic" -> Protocol(env) = "xorg"
      [] source = "qtile" -> Protocol(env) = "xorg" /\ Desktop(env) = "qtile"
      [] source = "activitywatch" -> Protocol(env) # "unknown"
      [] source = "wayland-portal" -> Protocol(env) = "wayland"
      [] OTHER -> FALSE

\* _probe_source: an unknown source, a timeout, an error or an answer that names another
\* source is not healthy.
Healthy(source, env, up) == Compatible(source, env) /\ source \in up

HealthyOf(enabled, env, up) == SelectSeq(enabled, LAMBDA s : Healthy(s, env, up))

\* Mutant of Fallbacks: the generic probe also backs an empty configuration.
FallbacksAlways(enabled, env, up) ==
    IF HealthyOf(enabled, env, up) = << >> /\ Healthy("xorg-generic", env, up)
    THEN <<"xorg-generic">> ELSE << >>

\* The generic Xorg probe, when sources are enabled, none is healthy and it is not one.
Fallbacks(enabled, env, up) ==
    IF /\ enabled # << >> /\ HealthyOf(enabled, env, up) = << >>
       /\ "xorg-generic" \notin Range(enabled) /\ Healthy("xorg-generic", env, up)
    THEN <<"xorg-generic">> ELSE << >>

Unsupported == [backend |-> None, sources |-> << >>]

ResolveSession(enabled, env, up) ==
    LET healthy == HealthyOf(enabled, env, up)
        chosen  == healthy \o Fallbacks(enabled, env, up)
    IN  CASE Protocol(env) = "xorg" /\ chosen # << >> ->
                [backend |-> "xorg-generic", sources |-> chosen]
          [] Protocol(env) = "wayland" /\ Healthy("wayland-portal", env, up) ->
                [backend |-> "wayland-portal", sources |-> healthy]
          [] OTHER -> Unsupported

\* Recording is offered only for a session the evidence agrees on, through a backend of
\* its protocol, on Xorg never without metadata to judge the window by, and a source that
\* was not configured is used only to replace configured ones that all failed.
ResolutionSound(enabled, env, up) ==
    LET r == ResolveSession(enabled, env, up)
    IN  r.backend # None =>
        /\ (r.backend = "xorg-generic") = (env.type = "xorg") /\ ~(env.type = "xorg" /\ env.wayland)
        /\ r.backend = "xorg-generic" => r.sources # << >>
        /\ \A s \in Range(r.sources) : Compatible(s, env) /\ s \in up
        /\ Range(r.sources) \subseteq Range(enabled) \/ (enabled # << >> /\ Len(r.sources) = 1)

-----------------------------------------------------------------------------
(* compose_context_metadata for one field: candidates are [value, source,  *)
(* confidence, at], in the order the sources answered.                     *)

Rank(source, order) ==
    IF source \in Range(order) THEN Min({i \in DOMAIN order : order[i] = source})
    ELSE Len(order) + 1

\* Mutant of Before: ties between unranked sources are left to the order of arrival.
BeforeUnnamed(a, b, order) ==
    \/ a.confidence > b.confidence
    \/ a.confidence = b.confidence /\ Rank(a.source, order) < Rank(b.source, order)

\* _winner_key; source ids are compared as numbers.
Before(a, b, order) ==
    \/ a.confidence > b.confidence
    \/ a.confidence = b.confidence /\
        \/ Rank(a.source, order) < Rank(b.source, order)
        \/ Rank(a.source, order) = Rank(b.source, order) /\
            \/ a.at > b.at
            \/ a.at = b.at /\ a.source < b.source

\* min keeps the first of equals.
Winner(candidates, order) ==
    candidates[Min({i \in DOMAIN candidates :
                      \A j \in DOMAIN candidates : ~Before(candidates[j], candidates[i], order)})]

\* Which of two sources answered first does not change the composed metadata.
ComposeOrderIrrelevant(a, b, order) ==
    a.source # b.source => Winner(<<a, b>>, order) = Winner(<<b, a>>, order)

-----------------------------------------------------------------------------
(* resolve_idle_observations: [state, at, idle], idle in thousandths of a  *)
(* second (idle_seconds is a float), the other times in seconds.           *)

\* Normalised: stale or future observations are unknown, a duration beats the flag.
NormalIdle(o, now, maxAge, skew, threshold) ==
    IF now - o.at < -skew \/ now - o.at > maxAge THEN "UNKNOWN"
    ELSE IF o.idle = None THEN o.state
    ELSE IF o.idle >= 1000 * threshold THEN "IDLE" ELSE "ACTIVE"

\* Mutant of ResolveIdle: the first source that knows decides.
ResolveIdleFirst(states) ==
    LET known == SelectSeq(states, LAMBDA s : s # "UNKNOWN")
    IN  IF known = << >> THEN "UNKNOWN" ELSE Head(known)

\* One source that says idle outweighs any number that say active.
ResolveIdle(states) ==
    IF "IDLE" \in Range(states) THEN "IDLE"
    ELSE IF "ACTIVE" \in Range(states) THEN "ACTIVE" ELSE "UNKNOWN"

MaxIdleMilliseconds == 7 * 24 * 60 * 60 * 1000
UnknownIdle(at) == [state |-> "UNKNOWN", at |-> at, idle |-> None]

\* XorgIdleStateSource.observe: the milliseconds that xprintidle printed, None for a tool
\* that is missing, fails, is late or prints something else.
XorgIdle(milliseconds, at) ==
    IF milliseconds # None /\ milliseconds \in 0 .. MaxIdleMilliseconds
    THEN [state |-> IF milliseconds = 0 THEN "ACTIVE" ELSE "IDLE", at |-> at, idle |-> milliseconds]
    ELSE UnknownIdle(at)

\* ActivityWatchIdleStateSource.observe: the "idle" field with its provenance, and whole
\* "idle.seconds" if there are any; a negative number stands for whatever is no duration.
ActivityWatchIdle(field, at) ==
    IF /\ field.value \in BOOLEAN /\ field.provenance = {"activitywatch"}
       /\ field.seconds # None => 1000 * field.seconds \in 0 .. MaxIdleMilliseconds
    THEN [state |-> IF field.value THEN "IDLE" ELSE "ACTIVE", at |-> at,
          idle |-> IF field.seconds = None THEN None ELSE 1000 * field.seconds]
    ELSE UnknownIdle(at)

\* No observation that is out of date, and no order of the sources, makes a session
\* active that some current source finds idle.
IdleOutweighs(observations, now, maxAge, skew, threshold) ==
    LET states == [i \in DOMAIN observations |->
                      NormalIdle(observations[i], now, maxAge, skew, threshold)]
    IN  ResolveIdle(states) = "ACTIVE" =>
          \A i \in DOMAIN observations :
             LET o == observations[i]
                 current == now - o.at >= -skew /\ now - o.at <= maxAge
             IN  ~(current /\ IF o.idle # None THEN o.idle >= 1000 * threshold ELSE o.state = "IDLE")

-----------------------------------------------------------------------------
(* LogindLockStateSource and BusctlLogindSignalMonitor.                    *)

VARIABLES
    hint,       \* logind's LockedHint
    path,       \* _session_path is known
    query,      \* the call of observe: None, "resolve", "ask", or the hint it read
    signals,    \* signals in the monitor's pipe
    monitor,    \* "running" or "ended"
    seen,       \* the observation handed over last
    free        \* history: since the running query began, or the last one ended, the hint
                \* has been false

logindVars == <<hint, path, query, signals, monitor, seen, free>>

DetectionInit ==
    /\ hint = TRUE /\ path = FALSE /\ query = None /\ signals = << >>
    /\ monitor = "running" /\ seen = "UNKNOWN" /\ free = FALSE

\* The session manager locks or releases; it signals Lock, and Unlock before it releases.
Environment ==
    /\ \/ hint' \in BOOLEAN /\ UNCHANGED signals
       \/ /\ Len(signals) < MaxSignals
          /\ \E s \in {"Lock", "Unlock"} :
                signals' = Append(signals, s) /\ hint' = (hint \/ s = "Lock")
    /\ free' = (free \/ ~hint')
    /\ UNCHANGED <<path, query, monitor, seen>>

ObserveBegin ==
    /\ query = None
    /\ query' = IF path THEN "ask" ELSE "resolve"
    /\ free' = ~hint
    /\ UNCHANGED <<hint, path, signals, monitor, seen>>

\* _resolve_session_path.
ResolvePath ==
    /\ query = "resolve"
    /\ path' = TRUE /\ query' = "ask"
    /\ UNCHANGED <<hint, signals, monitor, seen, free>>

\* busctl reads LockedHint; its output is handed over later.
AskHint ==
    /\ query = "ask"
    /\ query' = IF hint THEN "LOCKED" ELSE "UNLOCKED"
    /\ UNCHANGED <<hint, path, signals, monitor, seen, free>>

ObserveEnd ==
    /\ query \in {"LOCKED", "UNLOCKED"}
    /\ seen' = query /\ query' = None
    /\ UNCHANGED <<hint, path, signals, monitor, free>>

\* A timeout or a refused permission keeps the path, malformed output of the property too;
\* every other failure forgets it.
ObserveFails ==
    /\ query # None
    /\ seen' = "UNKNOWN" /\ query' = None
    /\ path' \in {path, FALSE}
    /\ UNCHANGED <<hint, signals, monitor, free>>

\* Mutant of SignalState: an Unlock signal is taken for a released session.
SignalStateTrusting(s) == IF s = "Unlock" THEN "UNLOCKED" ELSE "LOCKED"

\* signal_observation: Unlock is a request, not proof.
SignalState(s) == IF s = "Unlock" THEN "UNKNOWN" ELSE "LOCKED"

\* _emit_message: a signal of another session, of an unknown path or too long is dropped.
Signal ==
    /\ monitor = "running" /\ signals # << >>
    /\ signals' = Tail(signals)
    /\ seen' \in {IF path THEN SignalState(Head(signals)) ELSE seen, seen}
    /\ UNCHANGED <<hint, path, query, monitor, free>>

\* The monitor's process ends, or never started: disconnected().
MonitorEnds ==
    /\ monitor = "running"
    /\ monitor' = "ended" /\ seen' = "UNKNOWN" /\ path' = FALSE
    /\ UNCHANGED <<hint, query, signals, free>>

DetectionNext ==
    Environment \/ ObserveBegin \/ ResolvePath \/ AskHint \/ ObserveEnd \/ ObserveFails
    \/ Signal \/ MonitorEnds

DetectionSpec == DetectionInit /\ [][DetectionNext]_logindVars

DetectionTypeOK ==
    /\ hint \in BOOLEAN /\ path \in BOOLEAN /\ free \in BOOLEAN
    /\ query \in {None, "resolve", "ask", "LOCKED", "UNLOCKED"}
    /\ Len(signals) <= MaxSignals /\ monitor \in {"running", "ended"}
    /\ seen \in {"LOCKED", "UNLOCKED", "UNKNOWN"}

\* logind.py: "login1 Unlock() is a request to the session manager, not proof that the
\* lock screen has actually released": the source reports an unlocked session only when
\* logind's own hint was false at some time since the query that reports it began.
UnlockedIsProven == [][seen' = "UNLOCKED" /\ seen # "UNLOCKED" => free]_logindVars

\* The lock watcher reports only what logind proved, in states of its types.
DetectionSound == []DetectionTypeOK /\ UnlockedIsProven
=============================================================================
