----------------------------- MODULE Retrieval -----------------------------
(***************************************************************************)
(* One question from AnsweringService.answer (answering/service.py) through *)
(* planning (answering/planner.py), RetrievalService.retrieve              *)
(* (retrieval/service.py), the evidence table (answering/evidence.py),     *)
(* RoutingPolicy and EgressGate (routing.py) to the remote client and its  *)
(* retries (providers/remote*.py), one action for each await, interleaved  *)
(* with deletions and with changes of the retrieval policy.                *)
(* An excerpt is its record; a provider's answer is the list of claims a   *)
(* strict reader finds in it.                                              *)
(***************************************************************************)
EXTENDS Integers, Sequences, FiniteSetsExt, SequencesExt, Options

CONSTANTS
    AnswerRecords,      \* record ids, integers so that list order is by number
    RecordOf,           \* [AnswerRecords -> [day, at, application, terms, score, secret]]
    Questions,          \* [scopes, start, end, startDay, endDay, application, terms, limit,
                        \* candidates]
    Authorizations,     \* [provider, classes, bytes] an owner may grant, or None
    ProviderOf,         \* [provider -> [location, available, structured, large, endpoint,
                        \* audit]]: `audit' when its client was given an audit
    RoutingModes,       \* a set of RoutingMode values
    MinimumScore, MaxAttempts, MaxRevision

ASSUME RetrievalAssumption ==
    /\ IsFiniteSet(AnswerRecords)
    /\ MaxAttempts \in Nat \ {0} /\ MaxRevision \in Nat \ {0}
    /\ \A q \in Questions : q.limit \in Nat /\ q.candidates \in Nat

VARIABLES
    holdings,            \* records that storage.get returns
    revision,           \* the retrieval policy's current revision
    ask,                \* the question under way
    grants,             \* history: authorize_record's answers to this question
    vanished,           \* history: records that were gone when they were authorised
    outbox,             \* history: bodies that left for a remote provider
    egressAudited       \* history: REMOTE_EGRESS events written for this question

answerVars == <<holdings, revision, ask, grants, vanished, outbox, egressAudited>>

NoQuestion == [phase |-> "idle"]

-----------------------------------------------------------------------------
(* retrieval/time.py: weekdays are 0..6.                                   *)

Weekdays == [monday |-> 0, tuesday |-> 1, wednesday |-> 2, thursday |-> 3, friday |-> 4,
             saturday |-> 5, sunday |-> 6]

\* Mutant of WeekdayOffset: the difference the other way round.
WeekdayOffsetForward(today, named) == (named - today) % 7

\* (local_now.weekday() - _WEEKDAYS[selector]) % 7
WeekdayOffset(today, named) == (today - named) % 7

\* _resolve_selector for day selectors: the number of the day it stands for.
ResolveDay(selector, day) ==
    CASE selector = "today"     -> day
      [] selector = "yesterday" -> day - 1
      [] OTHER                  -> day - WeekdayOffset(day % 7, Weekdays[selector])

\* A weekday names the latest day of that name that is not in the future.
WeekdayIsLatest(named, day) ==
    ResolveDay(named, day) =
        Max({d \in (day - 6)..day : d % 7 = Weekdays[named]})

-----------------------------------------------------------------------------
(* The question's data.                                                    *)

\* plan_answer_query: exactly one time scope, at most one application scope.
Plannable(q) == q.scopes = 1

\* The lists of a set that follow an order: just one, when the order is total.
InOrder(S, Precedes(_, _)) ==
    {s \in SetToSeqs(S) : \A i, j \in DOMAIN s : i < j => Precedes(s[i], s[j])}

UpTo(n, s) == SubSeq(s, 1, IF n < Len(s) THEN n ELSE Len(s))

\* SELECT ... ORDER BY day_bucket, record_id LIMIT ?
EarlierDay(a, b) ==
    \/ RecordOf[a].day < RecordOf[b].day
    \/ RecordOf[a].day = RecordOf[b].day /\ a < b

ListCandidates(q) ==
    {UpTo(q.candidates, s) :
        s \in InOrder({r \in holdings : RecordOf[r].day \in q.startDay..q.endDay}, EarlierDay)}

\* _matches: the exact window, the application without case, and the workspace, metadata
\* values and keywords (the terms) that are asked for.
MatchesQuery(q, r) ==
    /\ q.start <= RecordOf[r].at /\ RecordOf[r].at < q.end
    /\ q.application \in {None, RecordOf[r].application}
    /\ q.terms \subseteq RecordOf[r].terms

\* (-score, captured_at, id)
Outranks(a, b) ==
    \/ RecordOf[a].score > RecordOf[b].score
    \/ RecordOf[a].score = RecordOf[b].score /\
         \/ RecordOf[a].at < RecordOf[b].at
         \/ RecordOf[a].at = RecordOf[b].at /\ a < b

\* passages.sort, then the limit.
Ranked(q, passages) == {UpTo(q.limit, s) : s \in InOrder(passages, Outranks)}

\* build_evidence_table: label Ei is the i-th passage of the ranking that scores enough.
EvidenceTable(ranking) ==
    InOrder({r \in ToSet(ranking) : RecordOf[r].score >= MinimumScore}, Outranks)

-----------------------------------------------------------------------------
(* answer and retrieve.                                                    *)

Ask(q, authorization, mode) ==
    /\ ask = NoQuestion /\ Plannable(q)
    /\ ask' = [phase |-> "authorize", q |-> q, authorization |-> authorization, mode |-> mode,
               revision |-> 0, eligible |-> FALSE, todo |-> << >>, scored |-> {},
               passages |-> {}, batch |-> << >>, provider |-> None, attempts |-> 0,
               claims |-> << >>, permitted |-> FALSE]
    /\ UNCHANGED <<holdings, revision, grants, vanished, outbox, egressAudited>>

\* A batch without passages is never eligible for a remote provider.
EmptyBatch(rev) ==
    ask' = [ask EXCEPT !.phase = "evidence", !.batch = << >>, !.passages = {},
                       !.eligible = FALSE, !.revision = rev]

AuthorizeQuery(allowed, remote) ==
    /\ ask.phase = "authorize" /\ (remote => allowed)
    /\ \/ ~allowed /\ EmptyBatch(revision)
       \/ allowed /\ ask' = [ask EXCEPT !.phase = "list", !.eligible = remote,
                                        !.revision = revision]
    /\ UNCHANGED <<holdings, revision, grants, vanished, outbox, egressAudited>>

ListStep ==
    /\ ask.phase = "list"
    /\ \E list \in ListCandidates(ask.q) : ask' = [ask EXCEPT !.phase = "search", !.todo = list]
    /\ UNCHANGED <<holdings, revision, grants, vanished, outbox, egressAudited>>

\* _semantic_scores: hits that are not canonical candidates are dropped; the index may
\* still name records that are gone.
SemanticScores(hits) ==
    /\ ask.phase = "search"
    /\ LET scored == hits \cap ToSet(ask.todo)
       IN  \/ scored = {} /\ EmptyBatch(ask.revision)
           \/ scored # {} /\ ask' = [ask EXCEPT !.phase = "fetch", !.scored = scored]
    /\ UNCHANGED <<holdings, revision, grants, vanished, outbox, egressAudited>>

\* get, decrypt and _matches of the next candidate.
FetchCandidate ==
    /\ ask.phase = "fetch" /\ ask.todo # << >>
    /\ LET r == Head(ask.todo)
       IN  ask' = IF r \in ask.scored /\ r \in holdings /\ MatchesQuery(ask.q, r)
                  THEN [ask EXCEPT !.phase = "permit"]
                  ELSE [ask EXCEPT !.todo = Tail(@)]
    /\ UNCHANGED <<holdings, revision, grants, vanished, outbox, egressAudited>>

Fails == ask' = [ask EXCEPT !.phase = "failed"]

\* Whatever retrieve awaits may raise, decrypt among them: nothing is caught.
RetrievalRaises ==
    /\ ask.phase \in {"authorize", "list", "search", "permit", "recheck"}
          \/ (ask.phase = "fetch" /\ ask.todo # << >>)
    /\ Fails
    /\ UNCHANGED <<holdings, revision, grants, vanished, outbox, egressAudited>>

SameRevision(rev) == rev = ask.revision

AuthorizeRecord(allowed, remote) ==
    /\ ask.phase = "permit" /\ (remote => allowed)
    /\ LET r == Head(ask.todo)
       IN  /\ grants' = grants \cup {[record |-> r, allowed |-> allowed, remote |-> remote,
                                      revision |-> revision]}
           /\ vanished' = IF r \in holdings THEN vanished ELSE vanished \cup {r}
           /\ \/ ~SameRevision(revision) /\ EmptyBatch(revision)
              \/ /\ SameRevision(revision)
                 /\ ask' = IF allowed THEN [ask EXCEPT !.phase = "recheck", !.permitted = remote]
                           ELSE [ask EXCEPT !.phase = "fetch", !.todo = Tail(@)]
    /\ UNCHANGED <<holdings, revision, outbox, egressAudited>>

\* Mutant of StillVisible: the first get is trusted.
StillVisibleTrusting(r) == TRUE

\* await self._storage.get(record_id) is None
StillVisible(r) == r \in holdings

\* Mutant of Eligible: the last record decides.
EligibleLast(before, remote) == remote

Eligible(before, remote) == before /\ remote

Recheck ==
    /\ ask.phase = "recheck"
    /\ LET r == Head(ask.todo) IN
       ask' = IF StillVisible(r)
              THEN [ask EXCEPT !.phase = "fetch", !.todo = Tail(@), !.passages = @ \cup {r},
                               !.eligible = Eligible(@, ask.permitted)]
              ELSE [ask EXCEPT !.phase = "fetch", !.todo = Tail(@)]
    /\ UNCHANGED <<holdings, revision, grants, vanished, outbox, egressAudited>>

BatchReady ==
    /\ ask.phase = "fetch" /\ ask.todo = << >>
    /\ \E ranking \in Ranked(ask.q, ask.passages) :
          ask' = [ask EXCEPT !.phase = "evidence", !.batch = ranking]
    /\ UNCHANGED <<holdings, revision, grants, vanished, outbox, egressAudited>>

Evidence ==
    /\ ask.phase = "evidence"
    /\ \E table \in EvidenceTable(ask.batch) :
          ask' = [ask EXCEPT !.phase = IF table = << >> THEN "insufficient" ELSE "route",
                             !.batch = table]
    /\ UNCHANGED <<holdings, revision, grants, vanished, outbox, egressAudited>>

-----------------------------------------------------------------------------
(* Routing and generation.                                                 *)

Usable(p, location) == ProviderOf[p].location = location /\ ProviderOf[p].available

\* RoutingPolicy.route, which takes the first usable provider; None stands for NoRouteError.
RouteOf(mode, authorization) ==
    LET local  == {p \in DOMAIN ProviderOf : Usable(p, "local")}
        remote == {p \in DOMAIN ProviderOf : Usable(p, "remote")}
    IN  IF mode # "remote-explicit"
        THEN IF local = {} THEN None ELSE CHOOSE p \in local : TRUE
        ELSE IF authorization = None THEN None
        ELSE IF "text" \in authorization.classes /\ authorization.provider \in remote
        THEN authorization.provider ELSE None

\* _validate_generation_capabilities
Capable(p) == ProviderOf[p].structured /\ ProviderOf[p].large

\* EgressGate.approve on text: the class, the secret scan, the size.
GateApproves(authorization, records) ==
    /\ "text" \in authorization.classes
    /\ \A r \in records : ~RecordOf[r].secret
    /\ Cardinality(records) <= authorization.bytes

\* The conditions of _generate_remote.
MayLeave(p) ==
    ask.eligible /\ ask.authorization # None /\ ask.authorization.provider = p

Remote(p) == ProviderOf[p].location = "remote"

MayGenerate(p) ==
    /\ p # None
    /\ Capable(p)
    /\ Remote(p) => MayLeave(p) /\ GateApproves(ask.authorization, ToSet(ask.batch))

\* Mutant of AuditsFirst: the event is left to the end of the exchange.
AuditsFirstNever(p) == FALSE

\* RemoteProviderClient audits the authorisation when it was given an audit.
AuditsFirst(p) == Remote(p) /\ ProviderOf[p].audit

\* route, the checks of _generate_local or _generate_remote, and the audit event that
\* RemoteProviderClient.execute writes before it resolves the credential; an event that
\* cannot be written ends it.
Route ==
    /\ ask.phase = "route"
    /\ LET p == RouteOf(ask.mode, ask.authorization) IN
       \/ /\ MayGenerate(p)
          /\ ask' = [ask EXCEPT !.provider = p, !.phase = IF Remote(p) THEN "build" ELSE "local"]
          /\ egressAudited' = egressAudited \cup (IF AuditsFirst(p) THEN {p} ELSE {})
       \/ /\ MayGenerate(p) => AuditsFirst(p)
          /\ Fails /\ UNCHANGED egressAudited
    /\ UNCHANGED <<holdings, revision, grants, vanished, outbox>>

\* Mutant of AttemptsLeft: one attempt too many.
AttemptsLeftOneMore(n) == n <= MaxAttempts

\* attempt >= max_attempts ends the loop.
AttemptsLeft(n) == n < MaxAttempts

\* RemoteRequestBuilder.build: the approval is the provider's own, the payload is text
\* alone, and the endpoint names the configured model.
RequestBuilds(p) ==
    /\ ask.authorization.provider = p
    /\ ask.batch # << >>
    /\ ProviderOf[p].endpoint

\* The request of each kind of provider: the approved text, and nothing else, for one
\* model at one endpoint.
WireRequest(p) == [provider |-> p, records |-> ToSet(ask.batch)]

\* _target, _serialize and the size limit refuse a request before a connection is opened.
Unsendable == {"bad-origin", "bad-header", "too-large"}

\* What _parse_headers refuses.
HeaderFaults == {"bad-status-line", "bad-header-line", "repeated-header"}

\* How one exchange on the wire can go.
Exchanges ==
    Unsendable \cup HeaderFaults \cup
    {"unreachable", "slow-connect", "slow", "cut", "redirect", "http-error", "chunked",
     "no-length", "large", "not-json", "answered"}

\* request_json: the body leaves once the connection is open; the reason it raises with.
Transported(x) ==
    [sent   |-> x \notin Unsendable \cup {"unreachable", "slow-connect"},
     reason |-> CASE x = "answered" -> None
                  [] x = "unreachable" -> "remote-connection-failed"
                  [] x \in {"slow-connect", "slow"} -> "remote-timeout"
                  [] x = "cut" -> "remote-response-incomplete"
                  [] OTHER -> x]

TransientReasons == {"remote-timeout", "remote-connection-failed", "remote-response-incomplete"}

\* resolve and build: a missing credential or a request that cannot be built ends it.
BuildRequest(credential) ==
    /\ ask.phase = "build"
    /\ IF credential /\ RequestBuilds(ask.provider)
       THEN ask' = [ask EXCEPT !.phase = "remote"]
       ELSE Fails
    /\ UNCHANGED <<holdings, revision, grants, vanished, outbox, egressAudited>>

\* RemoteRequestExecutor.execute, one attempt: a transient reason is retried while attempts
\* are left and the overall deadline has not passed.
Attempt(x, expired) ==
    /\ ask.phase = "remote"
    /\ LET t == Transported(x)
           n == ask.attempts + 1
       IN  /\ outbox' = IF t.sent THEN Append(outbox, WireRequest(ask.provider)) ELSE outbox
           /\ CASE t.reason = None /\ ~expired -> ask' = [ask EXCEPT !.phase = "parse", !.attempts = n]
                [] t.reason \in TransientReasons /\ AttemptsLeft(n) /\ ~expired ->
                      ask' = [ask EXCEPT !.attempts = n]
                [] OTHER -> Fails
    /\ UNCHANGED <<holdings, revision, grants, vanished, egressAudited>>

LocalGenerate(answered) ==
    /\ ask.phase = "local"
    /\ \/ answered /\ ask' = [ask EXCEPT !.phase = "parse"]
       \/ ~answered /\ Fails
    /\ UNCHANGED <<holdings, revision, grants, vanished, outbox, egressAudited>>

\* Labels are unique and all in the table.
LabelsKnown(labels) == labels # << >> /\ IsInjective(labels) /\ ToSet(labels) \subseteq DOMAIN ask.batch

\* parse_generated_claims: a claim is [kind, labels, quotes]; `quotes' is the label whose
\* excerpt holds the text, or None.  One bad claim refuses the answer.
ParseClaims(identity, claims) ==
    /\ ask.phase = "parse"
    /\ LET good == /\ identity = ask.provider /\ claims # << >>
                   /\ \A c \in ToSet(claims) :
                        /\ LabelsKnown(c.labels)
                        /\ c.kind = "observed" => c.quotes \in ToSet(c.labels)
       IN  ask' = IF good THEN [ask EXCEPT !.phase = "answered", !.claims = claims]
                  ELSE [ask EXCEPT !.phase = "failed"]
    /\ UNCHANGED <<holdings, revision, grants, vanished, outbox, egressAudited>>

\* The caller has its answer; nothing of the question is kept.
Reset ==
    /\ ask # NoQuestion /\ ask.phase \in {"answered", "insufficient", "failed"}
    /\ ask' = NoQuestion /\ grants' = {} /\ vanished' = {} /\ outbox' = << >> /\ egressAudited' = {}
    /\ UNCHANGED <<holdings, revision>>

\* Deletion and a new policy revision, at any moment.
DeleteStored(r) ==
    /\ r \in holdings /\ holdings' = holdings \ {r}
    /\ UNCHANGED <<revision, ask, grants, vanished, outbox, egressAudited>>

RevisePolicy ==
    /\ revision < MaxRevision /\ revision' = revision + 1
    /\ UNCHANGED <<holdings, ask, grants, vanished, outbox, egressAudited>>

AnswerInit ==
    /\ holdings = AnswerRecords /\ revision = 1 /\ ask = NoQuestion
    /\ grants = {} /\ vanished = {} /\ outbox = << >> /\ egressAudited = {}

\* What a provider may return: claims over one label too many.
ProviderClaims ==
    {<<[kind |-> k, labels |-> l, quotes |-> x]>> :
        k \in {"observed", "inference"}, l \in {<<1>>, <<2>>, <<1, 2>>, <<1, 1>>}, x \in {1, None}}

AnswerNext ==
    \/ \E q \in Questions, a \in Authorizations, m \in RoutingModes : Ask(q, a, m)
    \/ ask # NoQuestion /\
        \/ \E allowed, remote \in BOOLEAN : AuthorizeQuery(allowed, remote)
        \/ ListStep
        \/ \E hits \in SUBSET AnswerRecords : SemanticScores(hits)
        \/ FetchCandidate
        \/ RetrievalRaises
        \/ \E allowed, remote \in BOOLEAN : AuthorizeRecord(allowed, remote)
        \/ Recheck
        \/ BatchReady
        \/ Evidence
        \/ Route
        \/ \E credential \in BOOLEAN : BuildRequest(credential)
        \/ \E x \in Exchanges, expired \in BOOLEAN : Attempt(x, expired)
        \/ \E answered \in BOOLEAN : LocalGenerate(answered)
        \/ \E p \in DOMAIN ProviderOf, c \in ProviderClaims : ParseClaims(p, c)
        \/ Reset
    \/ \E r \in AnswerRecords : DeleteStored(r)
    \/ RevisePolicy

AnswerSpec == AnswerInit /\ [][AnswerNext]_answerVars

-----------------------------------------------------------------------------
\* Shapes of the state of a question.
AnswerTypeOK ==
    /\ holdings \subseteq AnswerRecords /\ revision \in 1..MaxRevision
    /\ ask # NoQuestion =>
        /\ ask.phase \in {"authorize", "list", "search", "fetch", "permit", "recheck", "evidence",
                          "route", "build", "remote", "local", "parse", "answered", "insufficient", "failed"}
        /\ ToSet(ask.batch) \subseteq ask.passages /\ ask.passages \subseteq AnswerRecords
        /\ ask.attempts \in 0..MaxAttempts
    /\ Len(outbox) <= MaxAttempts

\* Evidence leaves the machine only for the provider an owner authorised, in the mode that
\* allows it, after the audit event where the client was given an audit, with every record of it individually allowed for
\* remote use under the one revision of the query, and with no detectable secret
\* (answering/service.py _generate_remote, docs/remote-providers.md).
NothingLeavesUnasked ==
    \A i \in DOMAIN outbox :
        /\ ask.mode = "remote-explicit" /\ ask.authorization # None
        /\ outbox[i].provider = ask.authorization.provider
        /\ ProviderOf[outbox[i].provider].audit => outbox[i].provider \in egressAudited
        /\ \A r \in outbox[i].records :
            /\ ~RecordOf[r].secret
            /\ [record |-> r, allowed |-> TRUE, remote |-> TRUE, revision |-> ask.revision] \in grants
        /\ \A g \in grants : g.revision = ask.revision

\* Everything an answer cites was retrieved for this question: allowed under the one
\* policy revision the answer reports, inside the exact window and the application asked
\* for, and still stored after the policy had judged it.
CitesJudgedEvidence ==
    (ask # NoQuestion /\ ask.phase = "answered") =>
        \A c \in ToSet(ask.claims) : \A l \in ToSet(c.labels) :
            /\ l \in DOMAIN ask.batch
            /\ LET r == ask.batch[l] IN
                /\ \E g \in grants : g.record = r /\ g.allowed /\ g.revision = ask.revision
                /\ MatchesQuery(ask.q, r) /\ RecordOf[r].score >= MinimumScore
                /\ r \notin vanished

\* What leaves the process and what is cited in an answer was judged, record by record,
\* under the policy revision of the question.
AnswersJudged == AnswerTypeOK /\ NothingLeavesUnasked /\ CitesJudgedEvidence
=============================================================================
