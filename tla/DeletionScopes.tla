---------------------------- MODULE DeletionScopes ----------------------------
(***************************************************************************)
(* From a delete request to the records it deletes: the scope that the     *)
(* IPC handler builds (_deletion_scope in timeline/ipc.py) and its         *)
(* resolution (DeletionScopeResolver in timeline/scope.py); and the        *)
(* listing of the same records (TimelineInspector).                        *)
(*                                                                         *)
(* Time is a number of instants, DayLength of them to a UTC day.  The      *)
(* catalogue is a set of records [id, at, application, visible]; a record  *)
(* that is not visible was deleted after the candidates were listed.       *)
(***************************************************************************)
EXTENDS CliContract

CONSTANTS
    DayLength,          \* instants in a day
    MaxScopeRecords,    \* _MAX_SCOPE_RECORDS, 10,000
    MaxSpanDays,        \* _MAX_SCOPE_SPAN_DAYS, 366
    CandidateLimit,     \* candidate_limit, at most 10,000
    DayQueryLimit,      \* _DAY_QUERY_LIMIT, 10,000
    MaxTimelineLimit    \* _MAX_LIMIT of a listing, 1000

ASSUME ScopeAssumption == 
    {DayLength, MaxScopeRecords, MaxSpanDays, CandidateLimit, DayQueryLimit, MaxTimelineLimit} \subseteq Nat \ {0}

(* ValueError or ScopeResolutionFailure, which the handler answers alike.  *)
Refused == [kind |-> "refused", ids |-> {}]

NoScope == [kind |-> "refused", ids |-> {}, cluster |-> None, application |-> None,
            start |-> None, end |-> None]

ValidWindow(start, end) == start < end /\ end - start <= MaxSpanDays * DayLength

(* _validate_record_ids; identifiers that repeat are a shorter set.        *)
ValidRecordIds(ids, length) ==
    ids # {} /\ length <= MaxScopeRecords /\ Cardinality(ids) = length

ForRecords(ids) ==
    IF ValidRecordIds({UuidOf[ids[i]] : i \in 1 .. Len(ids)}, Len(ids))
    THEN [NoScope EXCEPT !.kind = "record-ids", !.ids = {UuidOf[ids[i]] : i \in 1 .. Len(ids)}]
    ELSE NoScope

ForCluster(cluster) == [NoScope EXCEPT !.kind = "activity-cluster", !.cluster = cluster]

ForApplication(application, start, end) ==
    IF start # None /\ ValidWindow(start, end)
    THEN [NoScope EXCEPT !.kind = "application", !.application = application,
                         !.start = start, !.end = end]
    ELSE NoScope

ForTimeRange(start, end) ==
    IF start # None /\ ValidWindow(start, end)
    THEN [NoScope EXCEPT !.kind = "time-range", !.start = start, !.end = end]
    ELSE NoScope

(* _deletion_scope: the first field that is there decides.                 *)
DeletionScope(f) ==
    CASE f.records # <<>> -> ForRecords(f.records)
      [] f.records = <<>> /\ f.cluster # None -> ForCluster(f.cluster)
      [] f.records = <<>> /\ f.cluster = None /\ f.application # None ->
            ForApplication(f.application, f.start, f.end)
      [] OTHER -> ForTimeRange(f.start, f.end)
-----------------------------------------------------------------------------
Day(instant) == instant \div DayLength

(* Mutant: the listing begins with the day after the start.                *)
CandidateDaysOpen(start, end) == Day(start) + 1 .. Day(end - 1)

CandidateDays(start, end) == Day(start) .. Day(end - 1)

(* _candidates: the records of whole days, with both limits.               *)
Candidates(catalogue, start, end) ==
    {r \in catalogue : Day(r.at) \in CandidateDays(start, end)}

CandidatesExceeded(catalogue, start, end) ==
    \/ \E d \in CandidateDays(start, end) :
          Cardinality({r \in catalogue : Day(r.at) = d}) >= DayQueryLimit
    \/ Cardinality(Candidates(catalogue, start, end)) > CandidateLimit

Selected(catalogue, start, end, chosen) ==
    IF CandidatesExceeded(catalogue, start, end) \/ chosen = {}
    THEN Refused
    ELSE [kind |-> "selected", ids |-> {r.id : r \in chosen}]

(* The record's application is compared; its capture time is not.          *)
ResolveApplication(catalogue, application, start, end) ==
    Selected(catalogue, start, end,
        {r \in Candidates(catalogue, start, end) :
            r.visible /\ r.application = application})

ResolveTimeRange(catalogue, start, end) ==
    Selected(catalogue, start, end,
        {r \in Candidates(catalogue, start, end) :
            r.visible /\ start <= r.at /\ r.at < end})

(* A cluster of the activity snapshot, whose sources are different records *)
(* but may be too many, or none of that identifier.                        *)
Resolvable(c, cluster) ==
    c.id = cluster /\ ValidRecordIds(c.sources, Cardinality(c.sources))

ResolveCluster(snapshot, cluster) ==
    IF \E c \in snapshot : Resolvable(c, cluster)
    THEN [kind |-> "selected",
          ids |-> (CHOOSE c \in snapshot : Resolvable(c, cluster)).sources]
    ELSE Refused

(* DeletionScopeResolver.resolve                                           *)
Resolve(catalogue, snapshot, scope) ==
    CASE scope.kind = "record-ids" -> [kind |-> "selected", ids |-> scope.ids]
      [] scope.kind = "activity-cluster" -> ResolveCluster(snapshot, scope.cluster)
      [] scope.kind = "application" ->
            ResolveApplication(catalogue, scope.application, scope.start, scope.end)
      [] scope.kind = "time-range" -> ResolveTimeRange(catalogue, scope.start, scope.end)
      [] OTHER -> Refused
-----------------------------------------------------------------------------
(* TimelineInspector.  A query is [start, end, application, limit].        *)

ValidTimelineQuery(q) == ValidWindow(q.start, q.end) /\ q.limit \in 1 .. MaxTimelineLimit

(* Mutant: the end of the window belongs to it.                            *)
TimelineMatchesClosed(q, r) ==
    /\ q.start <= r.at /\ r.at <= q.end
    /\ q.application # None => r.application = q.application

TimelineMatches(q, r) ==
    /\ q.start <= r.at /\ r.at < q.end
    /\ q.application # None => r.application = q.application

(* Days are read in order up to the first that fills its query.            *)
ListedDays(catalogue, q) ==
    {d \in CandidateDays(q.start, q.end) :
        \A e \in CandidateDays(q.start, q.end) :
            e <= d => Cardinality({r \in catalogue : Day(r.at) = e}) < DayQueryLimit}

(* The entries are taken by day and then by identifier up to the limit.    *)
TimelineEntries(catalogue, q) ==
    LET matching == {r \in catalogue : /\ Day(r.at) \in ListedDays(catalogue, q)
                                       /\ r.visible /\ TimelineMatches(q, r)}
        before(r) == {e \in matching :
                        Day(e.at) < Day(r.at) \/ (Day(e.at) = Day(r.at) /\ e.id < r.id)}
    IN  {r \in matching : Cardinality(before(r)) < q.limit}

Timeline(catalogue, q) ==
    LET all == TimelineEntries(catalogue, [q EXCEPT !.limit = Cardinality(catalogue) + 1])
    IN  [entries |-> TimelineEntries(catalogue, q),
         truncated |-> Cardinality(all) > q.limit]

(* _load: one record, or PreviewUnavailable.                               *)
Preview(catalogue, id) == {r \in catalogue : r.id = id /\ r.visible}

(* TimelineDeletionHandler: a listing without bounds is refused, and a     *)
(* query the inspector does not accept is an exception of the handler.     *)
TimelineAnswer(catalogue, f, limit) ==
    LET q == [start |-> f.start, end |-> f.end, application |-> f.application, limit |-> limit]
    IN  CASE f.start = None -> [outcome |-> "invalid", ids |-> {}]
          [] f.start # None /\ ~ValidTimelineQuery(q) ->
                [outcome |-> "internal-failure", ids |-> {}]
          [] OTHER -> [outcome |-> "success",
                       ids |-> {r.id : r \in Timeline(catalogue, q).entries}]

PreviewAnswer(catalogue, f) ==
    IF Preview(catalogue, UuidOf[f.records[1]]) = {}
    THEN [outcome |-> "invalid", ids |-> {}]
    ELSE [outcome |-> "success", ids |-> {UuidOf[f.records[1]]}]
-----------------------------------------------------------------------------
(* Properties: of a request that CliRequest.create accepts.                *)

(* A deletion deletes what the request selects and nothing else: the       *)
(* identifiers it names, the sources of its cluster, or the records        *)
(* captured in its window; the fields that do not belong to the scope      *)
(* cannot widen it (_deletion_scope and DeletionScopeResolver.resolve).    *)
(* Deletion by application is left to ApplicationWindow.                   *)
ScopeExact(catalogue, snapshot, f) ==
    LET out == Resolve(catalogue, snapshot, DeletionScope(f))
    IN  Creates("delete-records", 0, 1, f) /\ f.application = None /\ out.kind = "selected" =>
            out.ids =
                CASE f.records # <<>> -> {UuidOf[f.records[i]] : i \in 1 .. Len(f.records)}
                  [] f.cluster # None ->
                        UNION {c.sources : c \in {d \in snapshot : d.id = f.cluster}}
                  [] OTHER -> {r.id : r \in {e \in catalogue :
                                  e.visible /\ f.start <= e.at /\ e.at < f.end}}

(* What the owner sees is what a deletion of the same window takes: a      *)
(* listing of the window with room for all of it shows exactly the records *)
(* that the time-range deletion selects, whenever that deletion is not     *)
(* refused, and no record outside it (TimelineInspector.timeline and       *)
(* DeletionScopeResolver._resolve_time_range, with their separate limits). *)
ListingMatchesDeletion(catalogue, start, end, limit) ==
    LET q    == [start |-> start, end |-> end, application |-> None, limit |-> limit]
        page == Timeline(catalogue, q)
        out  == Resolve(catalogue, {}, ForTimeRange(start, end))
        seen == {r.id : r \in page.entries}
    IN  ValidTimelineQuery(q) /\ out.kind = "selected" =>
            /\ seen \subseteq out.ids
            /\ ~page.truncated => seen = out.ids
            /\ page.truncated => Cardinality(seen) = limit

(* Deletion by application is bounded by its window: it selects only       *)
(* records captured between the start and the end it was given             *)
(* (DeletionScopeResolver._resolve_application).                           *)
ApplicationWindow(catalogue, f) ==
    LET out == Resolve(catalogue, {}, DeletionScope(f))
    IN  Creates("delete-records", 0, 1, f) /\ f.application # None =>
            \A r \in catalogue : r.id \in out.ids => f.start <= r.at /\ r.at < f.end
=============================================================================
