----------------------------- MODULE MCServices -----------------------------
(***************************************************************************)
(* Small instances of the services around the capture core, side by side:  *)
(* a behaviour belongs to one `part', whose module takes all the steps.    *)
(* The part "decisions" hands every input of a bounded set to the pure     *)
(* algorithms.  The constants of this module are the instances.            *)
(***************************************************************************)
EXTENDS AdaptiveCapture, Audit, Ipc, Policy, Retention, Retrieval, SessionDetection,
        Vault, Redaction, Diagnostics

VARIABLES
    part,   \* which service this behaviour is about
    input   \* the input of a decision, or None

-----------------------------------------------------------------------------
(* Instances.                                                              *)

MCUuidOf == [r |-> 1, R |-> 1, s |-> 2]

NoFields == [query |-> None, start |-> None, end |-> None, records |-> <<>>,
             cluster |-> None, application |-> None, target |-> None]

MCRequestOf ==
    [u |-> [command |-> "stop", fields |-> NoFields],
     v |-> [command |-> "privacy-on", fields |-> NoFields],
     d |-> [command |-> "delete-records", fields |-> [NoFields EXCEPT !.records = <<"r">>]]]

PlainContext(window) ==
    [empty |-> FALSE, age |-> 0, application |-> "editor", title |-> None, authTitle |-> FALSE,
     domain |-> None, full |-> None, window |-> window, workspace |-> "home",
     sources |-> {"x"}, at |-> 0, generation |-> 0]
MCContexts == {PlainContext("w1"), PlainContext("w2")}

PlainRule ==
    [effect |-> "deny", enabled |-> TRUE, operations |-> {"screenshot"}, priority |-> 0, id |-> 1,
     application |-> "editor", title |-> None, workspace |-> None, domain |-> None,
     subdomains |-> FALSE, full |-> None, source |-> None, window |-> None]
OpenConfiguration ==
    [default |-> "allow", rules |-> <<>>, sensitive |-> {}, maxAge |-> 5, remote |-> TRUE]
MCConfigurations ==
    {OpenConfiguration, [OpenConfiguration EXCEPT !.rules = <<PlainRule>>, !.remote = FALSE]}
MCBroken == [default |-> "broken"]

PlainAnswerRecord ==
    [day |-> 0, at |-> 1, application |-> "a", terms |-> {}, score |-> 3, secret |-> FALSE]
MCRecordOf ==
    <<[PlainAnswerRecord EXCEPT !.terms = {"t"}], [PlainAnswerRecord EXCEPT !.at = 2],
      [PlainAnswerRecord EXCEPT !.day = 1, !.at = 4, !.secret = TRUE]>>
MCQuestions ==
    {[scopes |-> 1, start |-> 1, end |-> 4, startDay |-> 0, endDay |-> 1, application |-> None,
      terms |-> {}, limit |-> 2, candidates |-> 3],
     [scopes |-> 1, start |-> 1, end |-> 6, startDay |-> 0, endDay |-> 1, application |-> "a",
      terms |-> {"t"}, limit |-> 2, candidates |-> 2]}
MCAuthorizations ==
    {None} \cup {[provider |-> p, classes |-> {"text"}, bytes |-> 2] : p \in {"p", "q", "u"}}
PlainProvider ==
    [location |-> "remote", available |-> TRUE, structured |-> TRUE, large |-> TRUE,
     endpoint |-> TRUE, audit |-> TRUE]
MCProviderOf ==
    [l |-> [PlainProvider EXCEPT !.location = "local"], p |-> PlainProvider,
     q |-> [PlainProvider EXCEPT !.endpoint = FALSE], u |-> [PlainProvider EXCEPT !.audit = FALSE]]

-----------------------------------------------------------------------------
(* The inputs of the decisions; what is not in an input is quantified in   *)
(* its property.                                                           *)

Upto(S, n) == UNION {[1 .. k -> S] : k \in 0 .. n}

\* Records of two days, two of them or three, and every combination of request fields.
CatalogueEntries == [id : {1}, at : 0 .. 3, application : {"ok", "other"}, visible : BOOLEAN]
TwoRecords(a, b) == {a, [b EXCEPT !.id = 2]}
ThreeRecords(a) == {a, [a EXCEPT !.id = 2], [a EXCEPT !.id = 3, !.at = 3]}
Catalogues == {TwoRecords(a, b) : a, b \in CatalogueEntries}
              \cup {ThreeRecords(a) : a \in CatalogueEntries}
ClusterSnapshots ==
    {{[id |-> "ok", sources |-> s], [id |-> "other", sources |-> {3}]} : s \in {{1, 2}, {1, 2, 4}}}
RequestFields ==
    [query : {None}, start : {None} \cup 0 .. 3, end : {None} \cup 1 .. 4,
     records : {<<>>, <<"r">>, <<"r", "R">>, <<"r", "s">>, <<"bad">>},
     cluster : {None, "ok"}, application : {None, "ok"}, target : {None}]

\* Responses with one payload, right or wrong, or two.
SomeTexts == {"text", "wide", "blank", "r", "s", "x", "ok", "bad", "off", "recording",
              "providers", "health", "storage", "record-ids", "all"}
ASSUME SomeNoneApart == NoneApart(SomeTexts)

TimeAt(n) == [at |-> n, aware |-> TRUE, text |-> FALSE]
Naive == [TimeAt(1) EXCEPT !.aware = FALSE]
SomeCitations == {[record |-> "r", at |-> TimeAt(1)], [record |-> "s", at |-> Naive],
                  [record |-> "s", at |-> TimeAt(2)], [record |-> "bad", at |-> TimeAt(1)]}
SomeQueries == [text : {"text", "wide", "blank"}, citations : Upto(SomeCitations, 2)]
SomeEntries == {[name |-> "ok", state |-> "ok", value |-> v] : v \in {None, "ok", "bad"}}
               \cup {[name |-> "x", state |-> "ok", value |-> None]}
SomeDiagnostics == [category : {"providers", "health", "storage"}, entries : Upto(SomeEntries, 2)]
SomeStatuses == [privacy : BOOLEAN, backend : {None, "ok", "bad"}, source : {None, "ok"},
                 last : {None, TimeAt(1), Naive}]
SomeDeletions == [count : {-1, 0, 2}, kind : {"record-ids", "all"}, recovered : BOOLEAN]
BareResponses ==
    {[Failure(b, o, c) EXCEPT !.state = t] :
        b \in BOOLEAN, o \in {"success", "timeout"}, c \in {None, "ok"},
        t \in {None, "off", "recording"}}
WithTwo(x, d) == [x EXCEPT !.deletion = d, !.query = [text |-> "text", citations |-> <<>>]]
SomeResponses ==
    BareResponses
    \cup {[x EXCEPT !.query = q] : x \in BareResponses, q \in SomeQueries}
    \cup {[x EXCEPT !.diagnostic = d] : x \in BareResponses, d \in SomeDiagnostics}
    \cup {[x EXCEPT !.status = t] : x \in BareResponses, t \in SomeStatuses}
    \cup {[x EXCEPT !.deletion = d] : x \in BareResponses, d \in SomeDeletions}
    \cup {WithTwo(x, d) : x \in BareResponses, d \in SomeDeletions}

\* Rules with one selector each, and contexts that match, miss or cannot be judged.
Selectors ==
    {[PlainRule EXCEPT !.application = "editor"],
     [PlainRule EXCEPT !.application = None, !.domain = <<"org">>, !.subdomains = TRUE],
     [PlainRule EXCEPT !.application = None, !.full = TRUE],
     [PlainRule EXCEPT !.title = {"t"}, !.source = "x"],
     [PlainRule EXCEPT !.application = None, !.workspace = "home"],
     [PlainRule EXCEPT !.application = "editor", !.window = [start |-> 3, end |-> 1]]}
SomeRules ==
    {[x EXCEPT !.effect = e, !.priority = n, !.id = i] :
        x \in Selectors, e \in {"allow", "deny"}, n \in {0, 1}, i \in {1, 2}}
SomeContexts ==
    {[PlainContext("w1") EXCEPT !.application = a, !.domain = d, !.full = f, !.at = t] :
        a \in {"editor", "shell", None}, d \in {None, <<"org", "x">>, <<>>},
        f \in {None, TRUE}, t \in {0, 2}}
    \cup {[PlainContext("w1") EXCEPT !.title = t, !.workspace = w, !.sources = s] :
            t \in {"t", "u", "malformed"}, w \in {None, "home", "work"}, s \in {{"x"}, {"y"}}}
SomeSnapshots ==
    {[config |-> [OpenConfiguration EXCEPT !.default = d], healthy |-> TRUE, privacy |-> FALSE,
      locked |-> FALSE, temporary |-> {}] : d \in {"allow", "deny"}}

\* Catalogues of up to three records, oldest first, and sets of rules.
PlainMetadata == [application |-> None, workspace |-> None]
SomeContents ==
    {[envelope |-> x, metadata |-> PlainMetadata] : x \in {"stored", "gone", "unreadable"}}
    \cup {[envelope |-> "stored", metadata |-> [application |-> "a", workspace |-> w]] : w \in {"a", None}}
SomeKept ==
    {[id |-> 0, day |-> d, bytes |-> b, envelope |-> c.envelope, metadata |-> c.metadata] :
        d \in 1 .. 3, b \in {1, 2}, c \in SomeContents}
SomeHoldings ==
    {[i \in DOMAIN c |-> [c[i] EXCEPT !.id = i]] :
        c \in {x \in Upto(SomeKept, 3) : \A i, j \in DOMAIN x : i < j => x[i].day <= x[j].day}}
SomeRetention ==
    {x \in [age : {2}, bytes : {2, 3}, records : {2}, low : {None, 1},
            overrides : SUBSET [field : {"application", "workspace"}, value : {"a"}, age : {1, 3}]] :
        ValidRules(x)}

\* Sources, environments and observations of the session.
Sources == {"xorg-generic", "qtile", "activitywatch", "wayland-portal"}
Environments == [type : {"xorg", "wayland", "other", None}, display : BOOLEAN,
                 wayland : BOOLEAN, desktops : SUBSET {"qtile", "gnome"}]
SomeCandidates == [value : {"v", "w"}, source : 1 .. 3, confidence : 1 .. 2, at : 1 .. 2]
IdleFields == [value : BOOLEAN \cup {None}, provenance : {{}, {"activitywatch"}, {"qtile"}},
               seconds : {None, -1, 3, 604801}]
IdleObservations ==
    {XorgIdle(m, t) : m \in {None, 0, 2999, MaxIdleMilliseconds + 1}, t \in {1, 3, 5, 6}}
    \cup {ActivityWatchIdle(f, t) : f \in IdleFields, t \in {1, 3, 5, 6}}

\* Two lines of text on a 2 x 2 picture with padded rows, and pairs of matches.
RegionAt(x, y, h) == [x |-> x, y |-> y, width |-> 1, height |-> h]
TextRows ==
    {<<[length |-> a, confidence |-> c, region |-> RegionAt(0, 0, 1)]>> : a \in 1 .. 3, c \in {-1, 30, 90}}
    \cup {<<[length |-> a, confidence |-> c, region |-> RegionAt(0, 0, 1)],
            [length |-> b, confidence |-> 90, region |-> g]>> :
              a \in 0 .. 2, b \in 1 .. 3, c \in {30, 90}, g \in {RegionAt(1, 1, 1), RegionAt(1, 0, 2)}}
SomeMatches ==
    {[family |-> f, from |-> a, to |-> b, allowed |-> w, decodedAllowed |-> FALSE,
      suspicious |-> TRUE] :
        f \in {"direct", "entropy"}, a \in 0 .. 5, b \in 1 .. 6, w \in BOOLEAN}
MatchPairs ==
    {{c, d} : c \in {x \in SomeMatches : x.from < x.to},
              d \in {x \in SomeMatches : x.from < x.to /\ x.family = "direct" /\ ~x.allowed}}
Picture ==
    [id |-> 1, generation |-> 1, width |-> 2, height |-> 2, stride |-> 7, format |-> "rgb8",
     bytes |-> 14, metadata |-> {}, provenance |-> "x"]
RawItem ==
    [record |-> 1, generation |-> 1, deadline |-> 0, header |-> Header(Picture), parts |-> 2,
     wellFormed |-> TRUE, version |-> 1]
RedactionSettings ==
    [enabled |-> TRUE, deterministicRequired |-> TRUE, failOnUncertain |-> TRUE, revision |-> "r"]

\* What the callers of AuditRecorder hand over.
SomeGiven ==
    [record : {None, 1, 4}, correlation : {None, 1, 4}, generation : {0, 1}, version : {0, 1},
     provider : {None, "safe", "unsafe"}, key : {"digest"}, states : {"both"}, count : {-1, 0}]

Decisions ==
    [kind : {"scope"}, catalogue : Catalogues]
    \cup [kind : {"response"}, response : SomeResponses]
    \cup [kind : {"policy"}, rule : SomeRules, context : SomeContexts]
    \cup [kind : {"retention"}, catalogue : SomeHoldings]
    \cup [kind : {"session"}, enabled : {x \in Upto(Sources, 2) : IsInjective(x)}]
    \cup [kind : {"compose"}, first : SomeCandidates, second : SomeCandidates]
    \cup [kind : {"idle"}, observations : Upto(IdleObservations, 2)]
    \cup [kind : {"audit"}, capability : {None} \cup Capabilities, given : SomeGiven]
    \cup [kind : {"day"}, day : 0 .. 20, named : DOMAIN Weekdays]
    \cup [kind : {"picture"}, width : 1 .. 20, height : 1 .. 10]
    \cup [kind : {"text"}, rows : TextRows]

About(kind) == input # None /\ input.kind = kind

-----------------------------------------------------------------------------
Init ==
    /\ part \in {"ipc", "policy", "adaptive", "vault", "audit", "retrieval", "detection",
                 "diagnostics", "decisions"}
    /\ input = None
    /\ IpcInit /\ PolicyInit /\ AdaptiveInit /\ VaultInit /\ AuditInit /\ AnswerInit
    /\ DetectionInit /\ DiagnosticsInit

\* Bound: of the three clients, any two send their requests in one behaviour.
SomeClientStaysIdle == \E r \in Requests : client[r] = "idle"

Decide == input = None /\ input' \in Decisions

Next ==
    /\ UNCHANGED part
    /\ \/ /\ part = "ipc" /\ IpcNext /\ SomeClientStaysIdle'
          /\ UNCHANGED <<input, policyVars, adaptiveVars, vaultVars, auditVars, answerVars,
                         logindVars, diagnosticsVars>>
       \/ /\ part = "policy" /\ PolicyNext
          /\ UNCHANGED <<input, ipcVars, adaptiveVars, vaultVars, auditVars, answerVars,
                         logindVars, diagnosticsVars>>
       \/ /\ part = "adaptive" /\ AdaptiveNext
          /\ UNCHANGED <<input, ipcVars, policyVars, vaultVars, auditVars, answerVars,
                         logindVars, diagnosticsVars>>
       \/ /\ part = "vault" /\ VaultNext
          /\ UNCHANGED <<input, ipcVars, policyVars, adaptiveVars, auditVars, answerVars,
                         logindVars, diagnosticsVars>>
       \/ /\ part = "audit" /\ AuditNext
          /\ UNCHANGED <<input, ipcVars, policyVars, adaptiveVars, vaultVars, answerVars,
                         logindVars, diagnosticsVars>>
       \/ /\ part = "retrieval" /\ AnswerNext
          /\ UNCHANGED <<input, ipcVars, policyVars, adaptiveVars, vaultVars, auditVars,
                         logindVars, diagnosticsVars>>
       \/ /\ part = "detection" /\ DetectionNext
          /\ UNCHANGED <<input, ipcVars, policyVars, adaptiveVars, vaultVars, auditVars,
                         answerVars, diagnosticsVars>>
       \/ /\ part = "diagnostics" /\ DiagnosticsNext
          /\ UNCHANGED <<input, ipcVars, policyVars, adaptiveVars, vaultVars, auditVars,
                         answerVars, logindVars>>
       \/ /\ part = "decisions" /\ Decide
          /\ UNCHANGED <<ipcVars, policyVars, adaptiveVars, vaultVars, auditVars, answerVars,
                         logindVars, diagnosticsVars>>

vars == <<part, input, ipcVars, policyVars, adaptiveVars, vaultVars, auditVars, answerVars,
          logindVars, diagnosticsVars>>

Spec == Init /\ [][Next]_vars

-----------------------------------------------------------------------------
(* The properties of the pure algorithms, for every input.                 *)

\* DeletionScopes.ScopeExact: a deletion request deletes what it selects, nothing else.
DeletionScopeExact ==
    About("scope") => \A f \in RequestFields, x \in ClusterSnapshots :
        ScopeExact(input.catalogue, x, f)

\* DeletionScopes.ListingMatchesDeletion: a listing shows what a deletion would take.
ListingIsDeletion ==
    About("scope") => \A w \in [start : 0 .. 3, end : 1 .. 4], n \in 1 .. 3 :
        ListingMatchesDeletion(input.catalogue, w.start, w.end, n)

\* DeletionScopes.ApplicationWindow: a deletion by application stays in its time bounds.
ApplicationDeletionBounded ==
    About("scope") => \A f \in RequestFields : ApplicationWindow(input.catalogue, f)

\* CliContract.AnswerReadable: every answer that can be built can be read.
AnswersReadable == About("response") => AnswerReadable(input.response)

\* CliContract.ExitZeroIsProof: exit code 0 is proof of what was asked for.
ExitZeroProves ==
    About("response") => \A c \in Commands : ExitZeroIsProof(c, Wire(input.response))

\* Policy.OrderIrrelevant: the order of the rules does not matter.
RuleOrderIrrelevant ==
    About("policy") => \A b \in SomeRules, x \in SomeSnapshots :
        OrderIrrelevant(x, input.rule, b, "screenshot", input.context)

\* Policy.WindowReference: a time window goes round the clock.
WindowsGoRound ==
    About("day") => \A w \in [start : 0 .. Hours - 1, end : 0 .. Hours - 1] :
        w.start # w.end => WindowReference(input.day % Hours, w)

\* Retention.SweepExact: a sweep deletes exactly the expired and the evicted records.
SweepsExact ==
    About("retention") => \A x \in SomeRetention, encryption \in BOOLEAN :
        SweepExact(input.catalogue, x, 4, encryption)

\* SessionDetection.ResolutionSound: recording is offered only on agreed evidence.
ResolutionsSound ==
    About("session") => \A e \in Environments, u \in SUBSET Sources :
        ResolutionSound(input.enabled, e, u)

\* SessionDetection.ComposeOrderIrrelevant: the order of the answers does not matter.
CompositionStable ==
    About("compose") => \A order \in {<<>>, <<1>>, <<2, 1>>} :
        ComposeOrderIrrelevant(input.first, input.second, order)

\* SessionDetection.IdleOutweighs: one current source that finds the user idle decides.
IdleDecides == About("idle") => IdleOutweighs(input.observations, 5, 2, 0, 3)

\* Audit.RecorderEventsValid: the recorder refuses the values it is handed and nothing else.
EventsValid == About("audit") => RecorderEventsValid(input.capability, input.given)

\* Retrieval.WeekdayIsLatest: a weekday is the latest day of its name.
WeekdaysLatest == About("day") => WeekdayIsLatest(input.named, input.day)

\* AdaptiveCapture.HashReadsInside: the difference hash reads the whole image and no more.
HashInside == About("picture") => HashReadsInside(input.width, input.height)

\* Redaction.SecretsGone: what was found is gone from the text and the picture.
SecretsRedacted ==
    About("text") => \A m \in MatchPairs :
        SecretsGone(RawItem, [result |-> "ok", languages |-> TRUE, rows |-> input.rows], m,
                    RedactionSettings)

\* Where the code picks from a list it picks what it should: a retention sweep the expired
\* and the evicted records, the policy the strongest rule, the resolver the sources that
\* work, and redaction the characters that a detector found.
SelectionsExact == SweepsExact /\ RuleOrderIrrelevant /\ ResolutionsSound /\ SecretsRedacted

\* The client of cli_contract.py can read every answer, and its exit code is proof.
ClientTruthful == AnswersReadable /\ ExitZeroProves

\* The decisions agree with their references: a deletion takes exactly what the request
\* selects and the timeline lists the same records beforehand; time windows, merged
\* metadata, idling, the difference hash, audit events and weekdays are as they are meant.
DecisionsSound ==
    /\ DeletionScopeExact /\ ListingIsDeletion
    /\ WindowsGoRound /\ CompositionStable /\ IdleDecides
    /\ HashInside /\ EventsValid /\ WeekdaysLatest
=============================================================================
