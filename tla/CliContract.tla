----------------------------- MODULE CliContract -----------------------------
(***************************************************************************)
(* The typed contract between the command line and the daemon              *)
(* (cli_contract.py, ipc_protocol.py, cli_service.py): which requests may  *)
(* be built, what the codec lets through, and when a response counts as    *)
(* success.  Pure operators; module Ipc uses them.                         *)
(*                                                                         *)
(* Texts stand for the classes the code tells apart: a query is "text",    *)
(* "blank" or "long"; a record identifier is the name of a UUID, a second  *)
(* spelling of one, or "bad"; other values are valid ("ok") or "bad".  A   *)
(* result text may also be "wide": allowed, but too large a frame once its *)
(* characters are escaped.  A time in a response is None or a record that  *)
(* says whether it is aware of its zone and whether it is ISO text.        *)
(***************************************************************************)
EXTENDS Integers, Sequences, FiniteSets, Functions, Options

CONSTANTS
    MaxDeadline,        \* MAX_DEADLINE, 30 seconds
    MaxScopeRecordIds,  \* _MAX_SCOPE_RECORD_IDS, 1000
    MaxCitations,       \* MAX_CITATIONS and MAX_DIAGNOSTIC_ENTRIES, 256 each
    UuidOf              \* what each well-formed record identifier denotes

ASSUME ContractAssumption == MaxDeadline \in Nat \ {0} /\ MaxScopeRecordIds \in Nat \ {0}

Commands == {"start", "pause", "resume", "stop", "status", "privacy-on", "privacy-off",
             "ask", "timeline", "search", "preview-record", "delete-records",
             "providers", "health", "storage-stats"}
Outcomes == {"success", "unavailable", "unauthorized", "locked", "invalid", "overloaded",
             "timeout", "cancelled", "faulted", "internal-failure"}
LifecycleCommands == {"start", "pause", "resume", "stop", "status", "privacy-on", "privacy-off"}

Priority(command) ==
    CASE command \in {"stop", "privacy-on", "privacy-off"} -> "urgent-control"
      [] command \in {"start", "pause", "resume", "status"} -> "control"
      [] OTHER -> "query"

RequiredCapability(command) ==
    CASE command \in LifecycleCommands -> "control"
      [] command \in {"ask", "timeline", "search", "preview-record"} -> "query"
      [] command \in {"providers", "health", "storage-stats"} -> "diagnostic"
      [] command = "delete-records" -> "delete"

AuditCapability(command) ==
    CASE command \in LifecycleCommands -> "control"
      [] command \in {"ask", "timeline", "search", "preview-record"} -> "query"
      [] command \in {"providers", "health", "storage-stats"} -> "diagnostic"
      [] command = "delete-records" -> "delete"

(* What the server's codec is constructed with: everything but "export".   *)
Granted == {"control", "query", "diagnostic", "delete"}
-----------------------------------------------------------------------------
(* CliRequest.create.  f holds the optional fields of a request.           *)

ValidateCommandQuery(command, query) ==
    IF command \in {"ask", "search"} THEN query = "text" ELSE query = None

ValidateTimeFilter(command, start, end) ==
    /\ (start = None) = (end = None)
    /\ start # None => /\ command \in {"ask", "timeline", "search", "delete-records"}
                       /\ start < end

ValidateRecordIds(command, ids) ==
    IF ids = <<>>
    THEN command # "preview-record"
    ELSE /\ command \in {"delete-records", "preview-record"}
         /\ command = "preview-record" => Len(ids) = 1
         /\ Len(ids) <= MaxScopeRecordIds
         /\ \A i \in 1 .. Len(ids) : ids[i] \in DOMAIN UuidOf

ValidateCluster(command, cluster) ==
    cluster # None => command = "delete-records" /\ cluster = "ok"

ValidateApplication(command, application) ==
    application # None => command \in {"delete-records", "timeline"} /\ application = "ok"

ValidateTarget(command, target) ==
    IF command = "preview-record" THEN target \in {"text", "image"} ELSE target = None

(* The scope classes that the fields of a request select.                  *)
ScopeClasses(f) ==
    {k \in {"record-ids", "activity-cluster", "application", "time-range"} :
        CASE k = "record-ids" -> f.records # <<>>
          [] k = "activity-cluster" -> f.cluster # None
          [] k = "application" -> f.application # None
          [] k = "time-range" -> f.start # None /\ f.application = None}

ValidateSingleScope(f) ==
    /\ f.application # None => f.start # None
    /\ Cardinality(ScopeClasses(f)) = 1

Creates(command, now, deadline, f) ==
    /\ now < deadline /\ deadline - now <= MaxDeadline
    /\ ValidateCommandQuery(command, f.query)
    /\ ValidateTimeFilter(command, f.start, f.end)
    /\ ValidateRecordIds(command, f.records)
    /\ ValidateCluster(command, f.cluster)
    /\ ValidateApplication(command, f.application)
    /\ ValidateTarget(command, f.target)
    /\ command = "delete-records" => ValidateSingleScope(f)
-----------------------------------------------------------------------------
(* IpcRequestCodec.  A frame carries the token it was authenticated with.  *)

Frame(token, command, deadline, f) ==
    [token |-> token, command |-> command, priority |-> Priority(command),
     deadline |-> deadline, payload |-> f]

(* Mutant: the codec does not compare the token.                           *)
DecodeAnyToken(token, now, frame) ==
    Creates(frame.command, now, frame.deadline, frame.payload)

DecodeAccepts(token, now, frame) ==
    /\ frame.token = token
    /\ frame.priority = Priority(frame.command)
    /\ RequiredCapability(frame.command) \in Granted
    /\ Creates(frame.command, now, frame.deadline, frame.payload)

-----------------------------------------------------------------------------
(* CliResponse: the payloads a response may carry.  `same' says whether    *)
(* it has the request's identifier.                                        *)

(* The types of the payloads; T is what a text or a name may be.           *)
Times == [at : Int, aware : BOOLEAN, text : BOOLEAN]
QueryPayloads(T) == [text : T, citations : Seq([record : T, at : Times])]
DiagnosticPayloads(T) ==
    [category : T, entries : Seq([name : T, state : T, value : T \cup {None}])]
StatusPayloads(T) ==
    [privacy : BOOLEAN, backend : T \cup {None}, source : T \cup {None},
     last : Times \cup {None}]
DeletionPayloads(T) == [count : Int, kind : T, recovered : BOOLEAN]
Responses(T) ==
    [same : BOOLEAN, outcome : Outcomes, reason : T \cup {None}, state : T \cup {None},
     query : QueryPayloads(T) \cup {None}, status : StatusPayloads(T) \cup {None},
     deletion : DeletionPayloads(T) \cup {None},
     diagnostic : DiagnosticPayloads(T) \cup {None}]

(* None is no time, no payload and no reason.                              *)
NoneApart(T) == None \notin Times \cup QueryPayloads(T) \cup StatusPayloads(T) \cup {"ok"}

Aware(time) == time # None /\ time.aware /\ ~time.text
OptionalField(value) == value \in {None, "ok"}

CitationBuilds(c) == c.record # "bad" /\ Aware(c.at)

QueryBuilds(q) ==
    /\ q.text \in {"text", "wide"}
    /\ Len(q.citations) <= MaxCitations
    /\ \A i \in DOMAIN q.citations : CitationBuilds(q.citations[i])
    /\ IsInjective([i \in DOMAIN q.citations |-> q.citations[i].record])

EntryBuilds(e) == "bad" \notin {e.name, e.state, e.value}

DiagnosticBuilds(d) ==
    /\ Len(d.entries) <= MaxCitations
    /\ \A i \in DOMAIN d.entries : EntryBuilds(d.entries[i])
    /\ IsInjective([i \in DOMAIN d.entries |-> d.entries[i].name])

StatusBuilds(p) ==
    /\ OptionalField(p.backend) /\ OptionalField(p.source)
    /\ p.last # None => Aware(p.last)

DeletionBuilds(d) ==
    /\ d.count >= 0
    /\ d.kind \in {"record-ids", "activity-cluster", "application", "time-range"}

PayloadsBuild(r) ==
    /\ r.query # None => QueryBuilds(r.query)
    /\ r.diagnostic # None => DiagnosticBuilds(r.diagnostic)
    /\ r.status # None => StatusBuilds(r.status)
    /\ r.deletion # None => DeletionBuilds(r.deletion)

(* CliResponse.success: the combinations of payloads it builds.            *)
SuccessBuilds(r) ==
    /\ PayloadsBuild(r)
    /\ Cardinality({p \in {"query", "status", "deletion", "diagnostic"} : r[p] # None}) <= 1
    /\ r.state # None => r.query = None /\ r.deletion = None /\ r.diagnostic = None
    /\ r.status # None => r.state # None

(* CliResponse.failure.                                                    *)
Failure(same, outcome, reason) ==
    [same |-> same, outcome |-> outcome, reason |-> reason, state |-> None,
     query |-> None, status |-> None, deletion |-> None, diagnostic |-> None]

Builds(r) ==
    IF r.outcome = "success" THEN r.reason = None /\ SuccessBuilds(r)
    ELSE r = Failure(r.same, r.outcome, "ok")

(* to_json: objects, with every time as ISO text and None as null.         *)
Iso(time) == IF time = None THEN None ELSE [time EXCEPT !.text = TRUE]
FromIso(time) == IF time = None THEN None ELSE [time EXCEPT !.text = FALSE]

WireQuery(q) ==
    [text |-> q.text,
     citations |-> [i \in DOMAIN q.citations |->
         [record |-> q.citations[i].record, at |-> Iso(q.citations[i].at)]]]

WireStatus(p) == [p EXCEPT !.last = Iso(p.last)]

Wire(r) ==
    [r EXCEPT !.query = IF @ = None THEN None ELSE WireQuery(@),
              !.status = IF @ = None THEN None ELSE WireStatus(@)]

(* The server's size check turns an answer that does not fit into a        *)
(* failure.                                                                *)
Fits(r) == r.query # None => r.query.text # "wide"
Sent(r) == Wire(IF Fits(r) THEN r ELSE Failure(r.same, "internal-failure", "ok"))

-----------------------------------------------------------------------------
(* _decode_response: the payloads are built anew, with their checks.       *)
DecodedQuery(w) ==
    IF w = None THEN None
    ELSE [text |-> w.text,
          citations |-> [i \in DOMAIN w.citations |->
              [record |-> w.citations[i].record, at |-> FromIso(w.citations[i].at)]]]

DecodedDiagnostic(w) ==
    IF w = None THEN None
    ELSE [category |-> w.category,
          entries |-> [i \in DOMAIN w.entries |->
              [name |-> w.entries[i].name, state |-> w.entries[i].state,
               value |-> w.entries[i].value]]]

DecodedDeletion(w) ==
    IF w = None THEN None
    ELSE [count |-> w.count, kind |-> w.kind, recovered |-> w.recovered]

(* Mutant: the time of the last capture is taken as it was written.        *)
DecodedStatusRaw(w) ==
    IF w = None THEN None
    ELSE [privacy |-> w.privacy, backend |-> w.backend, source |-> w.source, last |-> w.last]

DecodedStatus(w) ==
    IF w = None THEN None
    ELSE [privacy |-> w.privacy, backend |-> w.backend, source |-> w.source,
          last |-> FromIso(w.last)]

Decoded(w) ==
    LET r == [same |-> w.same, outcome |-> w.outcome, reason |-> None, state |-> w.state,
              query |-> DecodedQuery(w.query), diagnostic |-> DecodedDiagnostic(w.diagnostic),
              status |-> DecodedStatus(w.status), deletion |-> DecodedDeletion(w.deletion)]
    IN  CASE w.outcome = "success" /\ SuccessBuilds(r) -> r
          [] w.outcome # "success" /\ w.reason # None /\ PayloadsBuild(r) ->
                Failure(w.same, w.outcome, w.reason)
          [] OTHER -> None

(* Every answer the daemon can build reaches the client as it was built,   *)
(* or, when it does not fit in a frame, as a failure: never as another     *)
(* answer and never as something the client cannot decode.                 *)
AnswerReadable(r) ==
    Builds(r) => Decoded(Sent(r)) = IF Fits(r) THEN r
                                    ELSE Failure(r.same, "internal-failure", "ok")

ExpectedCategory(command) ==
    CASE command = "providers" -> "providers"
      [] command = "health" -> "health"
      [] command = "storage-stats" -> "storage"
      [] OTHER -> None

(* Mutant: a stop is believed whatever state comes with it.                *)
ProvesAnything(command, r) ==
    /\ command \in LifecycleCommands => r.state # None
    /\ command \in {"ask", "timeline", "search", "preview-record"} => r.query # None
    /\ command = "delete-records" => r.deletion # None

(* What execute_command asks of a success.                                 *)
Proves(command, r) ==
    /\ command \in LifecycleCommands => r.state # None
    /\ command = "stop" => r.state = "off"
    /\ command \in {"ask", "timeline", "search", "preview-record"} => r.query # None
    /\ command = "delete-records" => r.deletion # None
    /\ ExpectedCategory(command) # None =>
          r.diagnostic # None /\ r.diagnostic.category = ExpectedCategory(command)

(* execute_command: what it makes of the frame w; one that cannot be       *)
(* decoded, or carries another identifier, is an exception of the client.  *)
Executed(command, w) ==
    LET r == Decoded(w)
    IN  IF r = None \/ ~w.same \/ (r.outcome = "success" /\ ~Proves(command, r))
        THEN "internal-failure" ELSE r.outcome

ExitCode(outcome) ==
    CASE outcome = "success" -> 0
      [] outcome = "invalid" -> 2
      [] outcome \in {"unavailable", "timeout", "overloaded"} -> 3
      [] outcome \in {"unauthorized", "locked"} -> 4
      [] outcome \in {"faulted", "internal-failure"} -> 5
      [] OTHER -> 130

(* Exit code 0 can be believed: whatever frame arrives, a stop that exits  *)
(* with 0 was answered with OFF for this very request, a deletion with the *)
(* count of what it deleted, a question with text, a diagnosis with the    *)
(* category that was asked for (cli_service.py).                           *)
ExitZeroIsProof(command, w) ==
    ExitCode(Executed(command, w)) = 0 =>
        /\ w.same /\ w.outcome = "success"
        /\ command = "stop" => w.state = "off"
        /\ command = "delete-records" => w.deletion # None /\ w.deletion.count >= 0
        /\ command \in {"ask", "timeline", "search", "preview-record"} =>
              w.query # None /\ w.query.text \in {"text", "wide"}
        /\ ExpectedCategory(command) # None =>
              w.diagnostic # None /\ w.diagnostic.category = ExpectedCategory(command)
=============================================================================
