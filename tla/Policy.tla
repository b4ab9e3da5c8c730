-------------------------------- MODULE Policy --------------------------------
(***************************************************************************)
(* The capture policy: how rules are matched and decided                   *)
(* (PolicyEngine._evaluate in policy/engine.py), the engine's mutable      *)
(* state with its generation, and the boundary that acts on an             *)
(* authorization (policy/enforcement.py, policy/guard.py).                 *)
(*                                                                         *)
(* A context says what the metadata holds: texts are names, None when the  *)
(* field is missing, "malformed" when it is too long or holds a NUL; a     *)
(* domain is the sequence of its labels, top level first.  Jobs are the    *)
(* callers of the boundary; every lock region of the engine is one step.   *)
(***************************************************************************)
EXTENDS Integers, Sequences, FiniteSets, Options

CONSTANTS
    Configurations,     \* [default, rules, sensitive, maxAge, remote]
    BrokenConfiguration,\* one whose compilation raises
    Contexts,           \* the contexts that jobs meet, without their time
    PolicyJobs,
    Hours,              \* length of the day for time windows
    MaxPolicyGeneration,\* bounds of the model
    MaxPolicyTime,
    MaxCaptureGeneration

ASSUME PolicyAssumption ==
    /\ {Hours, MaxPolicyGeneration, MaxPolicyTime, MaxCaptureGeneration} \subseteq Nat \ {0}
    /\ Configurations # {} /\ BrokenConfiguration \notin Configurations
    /\ \A c \in Contexts : {"at", "generation", "window", "workspace"} \subseteq DOMAIN c

Operations == {"screenshot", "metadata", "ocr", "indexing", "summarization", "remote-provider"}
CaptureSensitive == Operations \ {"metadata"}
-----------------------------------------------------------------------------
(* _match_rule: every selector of the rule is compared.                    *)
MatchText(value, expected) ==
    CASE value = None -> "unknown"
      [] value = "malformed" -> "malformed"
      [] OTHER -> IF value = expected THEN "match" ELSE "no-match"

(* A pattern is the set of titles it finds.                                *)
MatchTitle(title, pattern) ==
    CASE title = None -> "unknown"
      [] title = "malformed" -> "malformed"
      [] OTHER -> IF title \in pattern THEN "match" ELSE "no-match"

MatchDomain(domain, rule) ==
    CASE domain = None -> "unknown"
      [] domain = <<>> -> "malformed"
      [] OTHER ->
            IF \/ domain = rule.domain
               \/ /\ rule.subdomains
                  /\ Len(domain) > Len(rule.domain)
                  /\ SubSeq(domain, 1, Len(rule.domain)) = rule.domain
            THEN "match" ELSE "no-match"

MatchFullScreen(full, expected) ==
    IF full = None THEN "unknown" ELSE IF full = expected THEN "match" ELSE "no-match"

(* Among the sources of all fields of the metadata.                        *)
MatchSource(sources, expected) ==
    IF sources = {} THEN "unknown" ELSE IF expected \in sources THEN "match" ELSE "no-match"

(* Mutant: a window that passes midnight is read like any other.           *)
InWindowOneDay(hour, window) == window.start <= hour /\ hour < window.end

InWindow(hour, window) ==
    IF window.start < window.end
    THEN window.start <= hour /\ hour < window.end
    ELSE hour >= window.start \/ hour < window.end

Matches(rule, ctx) ==
    {m \in {"match", "no-match", "unknown", "malformed"} :
        \/ rule.application # None /\ m = MatchText(ctx.application, rule.application)
        \/ rule.title # None /\ m = MatchTitle(ctx.title, rule.title)
        \/ rule.workspace # None /\ m = MatchText(ctx.workspace, rule.workspace)
        \/ rule.domain # None /\ m = MatchDomain(ctx.domain, rule)
        \/ rule.full # None /\ m = MatchFullScreen(ctx.full, rule.full)
        \/ rule.source # None /\ m = MatchSource(ctx.sources, rule.source)
        \/ rule.window # None /\ m = IF InWindow(ctx.at % Hours, rule.window)
                                     THEN "match" ELSE "no-match"}

MatchRule(rule, ctx) ==
    LET m == Matches(rule, ctx) IN
    IF "malformed" \in m THEN "malformed"
    ELSE IF "no-match" \in m THEN "no-match"
    ELSE IF "unknown" \in m THEN "unknown"
    ELSE "match"
-----------------------------------------------------------------------------
(* _evaluate.                                                              *)
Deny(reason, rule) == [allowed |-> FALSE, certain |-> TRUE, reason |-> reason, rule |-> rule]
DenyUncertain(reason, rule) ==
    [allowed |-> FALSE, certain |-> FALSE, reason |-> reason, rule |-> rule]
Allow(reason, rule) == [allowed |-> TRUE, certain |-> TRUE, reason |-> reason, rule |-> rule]

(* _validate_context: None when the context may be used.                   *)
ContextFailure(config, ctx) ==
    IF ctx.empty THEN "source-unavailable"
    ELSE IF ctx.age \notin 0 .. config.maxAge THEN "stale-context"
    ELSE IF "malformed" \in {ctx.application, ctx.title, ctx.workspace} THEN "malformed-context"
    ELSE None

(* The enabled rules for the operation, in configuration order.            *)
Applicable(rules, op) == SelectSeq(rules, LAMBDA r : r.enabled /\ op \in r.operations)

(* The rule that ends the loop: the first that is malformed or unknown.    *)
FirstUndecided(rules, ctx) ==
    LET undecided == {i \in DOMAIN rules : MatchRule(rules[i], ctx) \in {"malformed", "unknown"}}
    IN  IF undecided = {} THEN None
        ELSE rules[CHOOSE i \in undecided : \A j \in undecided : i <= j]

(* Mutant: the first matching rule wins.                                   *)
StrongestFirst(rules, ctx, effect) ==
    LET matching == {i \in DOMAIN rules : rules[i].effect = effect /\ MatchRule(rules[i], ctx) = "match"}
    IN  IF matching = {} THEN None
        ELSE rules[CHOOSE i \in matching : \A j \in matching : i <= j]

(* The smallest (-priority, rule_id) of the matching rules of one effect.  *)
Strongest(rules, ctx, effect) ==
    LET matching == {i \in DOMAIN rules : rules[i].effect = effect /\ MatchRule(rules[i], ctx) = "match"}
    IN  IF matching = {} THEN None
        ELSE rules[CHOOSE i \in matching : \A j \in matching :
                \/ rules[i].priority > rules[j].priority
                \/ rules[i].priority = rules[j].priority /\ rules[i].id <= rules[j].id]

(* A marker counts for its scope value in its capture generation only.     *)
TemporaryReason(temporary, ctx) ==
    \E m \in temporary : m.generation = ctx.generation /\ m.value = ctx[m.scope]

BuiltinSensitive(config, ctx) ==
    \/ ctx.application \in {"password-manager", "locker", "auth-agent"}
    \/ ctx.authTitle
    \/ ctx.application \in config.sensitive
    \/ ctx.workspace \in config.sensitive

Evaluate(snapshot, op, ctx) ==
    LET config == snapshot.config
        rules == Applicable(config.rules, op)
        failure == IF op \in CaptureSensitive THEN ContextFailure(config, ctx) ELSE None
        undecided == FirstUndecided(rules, ctx)
        denying == Strongest(rules, ctx, "deny")
        allowing == Strongest(rules, ctx, "allow")
    IN  IF ~snapshot.healthy THEN Deny("policy-unavailable", None)
        ELSE IF snapshot.privacy THEN Deny("privacy-mode", None)
        ELSE IF snapshot.locked THEN Deny("session-locked", None)
        ELSE IF failure # None THEN DenyUncertain(failure, None)
        ELSE IF op = "remote-provider" /\ ~config.remote THEN Deny("remote-not-authorized", None)
        ELSE IF undecided # None
             THEN DenyUncertain(MatchRule(undecided, ctx), undecided.id)
        ELSE IF denying # None THEN Deny("explicit-rule-deny", denying.id)
        ELSE IF TemporaryReason(snapshot.temporary, ctx) THEN Deny("temporary-sensitive", None)
        ELSE IF BuiltinSensitive(config, ctx) THEN Deny("builtin-sensitive", None)
        ELSE IF allowing # None THEN Allow("explicit-rule-allow", allowing.id)
        ELSE IF config.default = "allow" THEN Allow("default-allow", None)
        ELSE Deny("default-deny", None)
-----------------------------------------------------------------------------
(* A window is the hours from its start up to its end, going round the     *)
(* clock, for every hour of the day (_in_time_window).                     *)
WindowReference(hour, window) ==
    InWindow(hour, window) =
        ((hour - window.start) % Hours < (window.end - window.start) % Hours)

(* The outcome does not depend on the order in which the owner wrote the   *)
(* rules: the same decision, for the same certain rule, and no order makes *)
(* an uncertain match harmless (the loop of PolicyEngine._evaluate).       *)
OrderIrrelevant(snapshot, a, b, op, ctx) ==
    LET with(rules) == Evaluate([snapshot EXCEPT !.config.rules = rules], op, ctx)
    IN  /\ with(<<a, b>>).allowed = with(<<b, a>>).allowed
        /\ with(<<a, b>>).certain = with(<<b, a>>).certain
        /\ a.id # b.id /\ with(<<a, b>>).certain => with(<<a, b>>) = with(<<b, a>>)
-----------------------------------------------------------------------------
VARIABLES
    policy,     \* [config, healthy, privacy, locked, temporary]
    generation, \* _generation
    clock,
    captureGeneration,  \* the lifecycle's generation, moved by others
    jobs        \* per job: [at, ctx, op, auth, later]

policyVars == <<policy, generation, clock, captureGeneration, jobs>>

Idle == [at |-> "idle", ctx |-> None, op |-> None, auth |-> None, later |-> None]

PolicyInit ==
    /\ policy = [config |-> CHOOSE c \in Configurations : TRUE, healthy |-> TRUE,
                 privacy |-> FALSE, locked |-> FALSE, temporary |-> {}]
    /\ generation = 1 /\ clock = 0 /\ captureGeneration = 1
    /\ jobs = [j \in PolicyJobs |-> Idle]

Changed(new) ==
    /\ generation < MaxPolicyGeneration
    /\ policy' = new /\ generation' = generation + 1
    /\ UNCHANGED <<clock, captureGeneration, jobs>>

SetPrivacyMode(active) ==
    /\ policy.privacy # active
    /\ Changed([policy EXCEPT !.privacy = active,
                              !.temporary = IF active THEN {} ELSE policy.temporary])

SetSessionLocked(locked) ==
    /\ policy.locked # locked
    /\ Changed([policy EXCEPT !.locked = locked,
                              !.temporary = IF locked THEN {} ELSE policy.temporary])

(* Mutant: a marker does not invalidate what was authorized before.        *)
MarkSilently(scope, ctx, ttl) ==
    /\ ctx[scope] # None
    /\ policy' = [policy EXCEPT !.temporary =
          {m \in policy.temporary : m.scope # scope} \cup
          {[scope |-> scope, value |-> ctx[scope], expires |-> clock + ttl,
            generation |-> captureGeneration]}]
    /\ UNCHANGED <<generation, clock, captureGeneration, jobs>>

(* One marker per scope: a second window replaces the first.               *)
MarkCurrentSensitive(scope, ctx, ttl) ==
    /\ ctx[scope] # None
    /\ Changed([policy EXCEPT !.temporary =
          {m \in policy.temporary : m.scope # scope} \cup
          {[scope |-> scope, value |-> ctx[scope], expires |-> clock + ttl,
            generation |-> captureGeneration]}])

ClearTemporary(scopes) ==
    /\ \E m \in policy.temporary : m.scope \in scopes
    /\ Changed([policy EXCEPT !.temporary = {m \in policy.temporary : m.scope \notin scopes}])

ReplacePolicy(config) ==
    IF config = BrokenConfiguration
    THEN Changed([policy EXCEPT !.healthy = FALSE])
    ELSE Changed([policy EXCEPT !.config = config, !.healthy = TRUE, !.temporary = {}])

(* _snapshot drops the markers that ran out; that is a change as well.     *)
Live == {m \in policy.temporary : m.expires > clock}
Snapshot(now) ==
    [policy EXCEPT !.temporary = {m \in policy.temporary : m.expires > now}]
SnapshotGeneration == IF Live = policy.temporary THEN generation ELSE generation + 1
TakesSnapshot ==
    /\ SnapshotGeneration <= MaxPolicyGeneration
    /\ policy' = Snapshot(clock) /\ generation' = SnapshotGeneration

At(ctx) == [ctx EXCEPT !.at = clock, !.generation = captureGeneration]

(* authorize: an authorization of the snapshot's generation, or a refusal. *)
Authorize(j, op, ctx) ==
    /\ jobs[j].at = "idle"
    /\ TakesSnapshot
    /\ Evaluate(Snapshot(clock), op, At(ctx)).allowed
    /\ jobs' = [jobs EXCEPT ![j] =
          [at |-> "authorized", ctx |-> At(ctx), op |-> op, later |-> None,
           auth |-> [generation |-> SnapshotGeneration, config |-> policy.config,
                     capture |-> captureGeneration]]]
    /\ UNCHANGED <<clock, captureGeneration>>

AuthorizeDenied(j, op, ctx) ==
    /\ jobs[j].at = "idle"
    /\ TakesSnapshot
    /\ ~Evaluate(Snapshot(clock), op, At(ctx)).allowed
    /\ UNCHANGED <<clock, captureGeneration, jobs>>

(* is_authorization_current, then the action outside the lock.             *)
AuthorizationCurrent(j) ==
    /\ policy.healthy /\ ~policy.privacy /\ ~policy.locked
    /\ jobs[j].auth.config = policy.config
    /\ jobs[j].auth.generation = generation

GuardInvoke(j, from, to, ctx) ==
    /\ jobs[j].at = from
    /\ IF AuthorizationCurrent(j) /\ jobs[j].auth.capture = ctx.generation
       THEN jobs' = [jobs EXCEPT ![j].at = to]
       ELSE jobs' = [jobs EXCEPT ![j] = Idle]
    /\ UNCHANGED <<policy, generation, clock, captureGeneration>>

CaptureInvoke(j) == GuardInvoke(j, "authorized", "acting", jobs[j].ctx)

(* A screenshot goes on to be persisted; downstream work ends here.        *)
ActionEnds(j) ==
    /\ jobs[j].at \in {"acting", "persisting"}
    /\ jobs' = [jobs EXCEPT ![j] =
          IF jobs[j].at = "acting" /\ jobs[j].op = "screenshot"
          THEN [jobs[j] EXCEPT !.at = "captured"] ELSE Idle]
    /\ UNCHANGED <<policy, generation, clock, captureGeneration>>

(* persist: a second evaluation, with the context of that moment.          *)
PersistEvaluate(j, ctx) ==
    /\ jobs[j].at = "captured"
    /\ TakesSnapshot
    /\ IF Evaluate(Snapshot(clock), "screenshot", At(ctx)).allowed
       THEN jobs' = [jobs EXCEPT ![j].at = "approved", ![j].later = At(ctx)]
       ELSE jobs' = [jobs EXCEPT ![j] = Idle]
    /\ UNCHANGED <<clock, captureGeneration>>

PersistInvoke(j) == GuardInvoke(j, "approved", "persisting", jobs[j].later)

Passes ==
    /\ \/ clock < MaxPolicyTime /\ clock' = clock + 1 /\ UNCHANGED captureGeneration
       \/ captureGeneration < MaxCaptureGeneration /\ captureGeneration' = captureGeneration + 1
          /\ UNCHANGED clock
    /\ UNCHANGED <<policy, generation, jobs>>

PolicyNext ==
    \/ Passes
    \/ \E b \in BOOLEAN : SetPrivacyMode(b) \/ SetSessionLocked(b)
    \/ \E scope \in {"window", "workspace"}, ctx \in Contexts : MarkCurrentSensitive(scope, ctx, 1)
    \/ \E scopes \in {{"window"}, {"window", "workspace"}} : ClearTemporary(scopes)
    \/ \E config \in Configurations \cup {BrokenConfiguration} : ReplacePolicy(config)
    \/ \E j \in PolicyJobs :
          \/ \E op \in {"screenshot", "remote-provider"}, ctx \in Contexts :
                Authorize(j, op, ctx) \/ AuthorizeDenied(j, op, ctx)
          \/ CaptureInvoke(j) \/ ActionEnds(j) \/ PersistInvoke(j)
          \/ \E ctx \in Contexts : PersistEvaluate(j, ctx)

PolicySpec == PolicyInit /\ [][PolicyNext]_policyVars
-----------------------------------------------------------------------------
PolicyTypeOK ==
    /\ generation \in 1 .. MaxPolicyGeneration
    /\ policy.config \in Configurations
    /\ \A j \in PolicyJobs :
          /\ jobs[j].at \in {"idle", "authorized", "acting", "captured", "approved", "persisting"}
          /\ jobs[j].at # "idle" => jobs[j].auth.generation <= generation

(* An action never begins on a policy that has moved on: at the moment the *)
(* guard lets a capture, a persist or downstream work begin, the policy in *)
(* force would still allow it for the context it was authorized for and,   *)
(* for a persist, for the context it was evaluated in again; so every      *)
(* change that can turn an allow into a deny moves the generation          *)
(* (PolicyGuard.invoke, PolicyEngine.is_authorization_current).            *)
ActsOnCurrentPolicy ==
    [][\A j \in PolicyJobs :
          jobs'[j].at \in {"acting", "persisting"} /\ jobs[j].at # jobs'[j].at =>
              /\ Evaluate(Snapshot(jobs[j].ctx.at), jobs[j].op, jobs[j].ctx).allowed
              /\ jobs[j].at = "approved" =>
                    Evaluate(Snapshot(jobs[j].later.at), "screenshot", jobs[j].later).allowed]_policyVars

\* The guard acts on the policy in force, in states of its types.
PolicyGoverns == []PolicyTypeOK /\ ActsOnCurrentPolicy
=============================================================================
