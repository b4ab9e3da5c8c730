--------------------------------- MODULE Ipc ---------------------------------
(***************************************************************************)
(* The daemon's IPC: the session token (ipc.py), the ROUTER server with    *)
(* its two bounded lanes and the DEALER clients (ipc_transport.py), and    *)
(* the handler for timeline requests with its lock (timeline/ipc.py).      *)
(*                                                                         *)
(* Every client sends one request.  A deadline may have passed whenever    *)
(* the code looks at the clock: each look is a nondeterministic choice.    *)
(* Messages are lost only where ZeroMQ may lose them: with the socket of   *)
(* either side, or when a reply cannot be routed.                          *)
(***************************************************************************)
EXTENDS DeletionScopes

CONSTANTS
    Requests,           \* one per client
    RequestOf,          \* its command and the optional fields
    MaxPending,         \* max_pending of the normal lane
    MaxWorkers,         \* workers of the normal lane, min(max_pending, 8)
    MaxUrgentPending,   \* _MAX_URGENT_PENDING, 4
    UrgentWorkers,      \* workers of the urgent lane, 2
    MaxSessions         \* bound of the model: starts of the server

ASSUME IpcAssumption ==
    /\ {MaxPending, MaxWorkers, MaxUrgentPending, UrgentWorkers, MaxSessions} \subseteq Nat \ {0}
    /\ MaxPending >= 2 /\ MaxWorkers <= MaxPending

VARIABLES
    server,     \* "down", "removed" and "keyed" during start, "up"
    session,    \* number of the server's last token
    tokenFile,  \* session.token: the session whose token it holds, 0 for none
    loop,       \* where the service loop is: "flush" or "poll"
    client,     \* "idle", "waiting", or the outcome the client returned with
    carries,    \* the token a request was sent with
    place,      \* where the request is
    result,     \* the outcome of its future while it is not flushed
    reply,      \* the outcome on its way to the client
    accepted,   \* the session whose audit trail says "accepted", 0 for none
    effects     \* history: requests whose handler changed something

ipcVars == <<server, session, tokenFile, loop, client, carries, place, result, reply,
             accepted, effects>>
serverVars == <<server, session, tokenFile, loop>>

Command(r) == RequestOf[r].command
Urgent(r) == Priority(Command(r)) = "urgent-control"

(* Mutant: both lanes are one.                                             *)
LaneOfAll(r) == Requests

Lane(r) == {q \in Requests : Urgent(q) = Urgent(r)}
Places == {"none", "wire", "queued", "running", "inside", "done", "gone"}

(* lane_pending: futures whose reply was not flushed yet.                  *)
LanePending(r) ==
    Cardinality({q \in Lane(r) : place[q] \in {"queued", "running", "inside", "done"}})
LaneLimit(r) == IF Urgent(r) THEN MaxUrgentPending ELSE MaxPending
LaneWorkers(r) == IF Urgent(r) THEN UrgentWorkers ELSE MaxWorkers

IpcInit ==
    /\ server = "down" /\ session = 0 /\ tokenFile = 0 /\ loop = "flush"
    /\ client = [r \in Requests |-> "idle"]
    /\ carries = [r \in Requests |-> 0]
    /\ place = [r \in Requests |-> "none"]
    /\ result = [r \in Requests |-> "none"]
    /\ reply = [r \in Requests |-> "none"]
    /\ accepted = [r \in Requests |-> 0]
    /\ effects = {}
-----------------------------------------------------------------------------
(* The server's life.  initialize removes the token, then writes a new     *)
(* one; a bind that fails leaves the new token without a server.           *)
ServerInitialize ==
    /\ server = "down" /\ session < MaxSessions
    /\ server' = "removed" /\ tokenFile' = 0
    /\ UNCHANGED <<session, loop, client, carries, place, result, reply, accepted, effects>>

ServerWriteToken ==
    /\ server = "removed"
    /\ server' = "keyed" /\ session' = session + 1 /\ tokenFile' = session + 1
    /\ UNCHANGED <<loop, client, carries, place, result, reply, accepted, effects>>

ServerBind ==
    /\ server = "keyed"
    /\ \/ server' = "up" /\ loop' = "flush"
       \/ server' = "down" /\ UNCHANGED loop
    /\ UNCHANGED <<session, tokenFile, client, carries, place, result, reply, accepted, effects>>

(* What the end of a server takes along: requests its socket had received  *)
(* and replies it had not delivered.                                       *)
SocketsClosed(received, undelivered) ==
    /\ received \subseteq {r \in Requests : place[r] = "wire"}
    /\ undelivered \subseteq {r \in Requests : reply[r] # "none"}
    /\ reply' = [r \in Requests |-> IF r \in undelivered THEN "none" ELSE reply[r]]

(* close: queued futures are cancelled, running handlers go on, and the    *)
(* replies of futures that are not flushed are lost.                       *)
ServerClose ==
    /\ server = "up"
    /\ \E received, undelivered \in SUBSET Requests :
          /\ SocketsClosed(received, undelivered)
          /\ place' = [r \in Requests |->
                IF r \in received \/ place[r] \in {"queued", "done"} THEN "gone"
                ELSE place[r]]
    /\ server' = "down" /\ result' = [r \in Requests |-> "none"]
    /\ UNCHANGED <<session, tokenFile, loop, client, carries, accepted, effects>>

ServerCrash ==
    /\ server # "down" \/ \E r \in Requests : place[r] \in {"running", "inside"}
    /\ \E received, undelivered \in SUBSET Requests :
          /\ SocketsClosed(received, undelivered)
          /\ place' = [r \in Requests |->
                IF r \in received \/ place[r] \notin {"none", "wire"} THEN "gone" ELSE place[r]]
    /\ server' = "down" /\ result' = [r \in Requests |-> "none"]
    /\ UNCHANGED <<session, tokenFile, loop, client, carries, accepted, effects>>
-----------------------------------------------------------------------------
(* The client.                                                             *)
ClientReturns(r, outcome) == client' = [client EXCEPT ![r] = outcome]

(* No token, or a socket that cannot connect or send: unavailable.         *)
ClientRequest(r) ==
    /\ client[r] = "idle"
    /\ \/ ClientReturns(r, "unavailable") /\ UNCHANGED <<carries, place>>
       \/ tokenFile # 0 /\ ClientReturns(r, "timeout") /\ UNCHANGED <<carries, place>>
       \/ /\ tokenFile # 0
          /\ ClientReturns(r, "waiting")
          /\ carries' = [carries EXCEPT ![r] = tokenFile]
          /\ place' = [place EXCEPT ![r] = "wire"]
    /\ UNCHANGED <<serverVars, result, reply, accepted, effects>>

(* Closing the socket drops what it had not sent.                          *)
ClientAbandons(r, outcome) ==
    /\ client[r] = "waiting"
    /\ ClientReturns(r, outcome)
    /\ reply' = [reply EXCEPT ![r] = "none"]
    /\ \/ UNCHANGED place
       \/ place[r] = "wire" /\ place' = [place EXCEPT ![r] = "gone"]
    /\ UNCHANGED <<serverVars, carries, result, accepted, effects>>

(* RCVTIMEO, and any other error of the socket that waits.                 *)
ClientTimeout(r) == ClientAbandons(r, "timeout")
ClientSocketFails(r) == ClientAbandons(r, "unavailable")

ClientReceive(r) ==
    /\ client[r] = "waiting" /\ reply[r] # "none"
    /\ ClientReturns(r, reply[r])
    /\ reply' = [reply EXCEPT ![r] = "none"]
    /\ UNCHANGED <<serverVars, carries, place, result, accepted, effects>>
-----------------------------------------------------------------------------
(* The service loop: flush, then at most one request.                      *)
SendReplies(outcomes) ==
    reply' = [r \in Requests |->
        IF r \in DOMAIN outcomes /\ client[r] = "waiting" THEN outcomes[r] ELSE reply[r]]

FlushCompleted ==
    LET finished == {r \in Requests : place[r] = "done"} IN
    /\ server = "up" /\ loop = "flush" /\ loop' = "poll"
    /\ SendReplies([r \in finished |-> result[r]])
    /\ place' = [r \in Requests |-> IF r \in finished THEN "gone" ELSE place[r]]
    /\ result' = [r \in Requests |-> IF r \in finished THEN "none" ELSE result[r]]
    /\ UNCHANGED <<server, session, tokenFile, client, carries, accepted, effects>>

PollEmpty ==
    /\ server = "up" /\ loop = "poll" /\ loop' = "flush"
    /\ UNCHANGED <<server, session, tokenFile, client, carries, place, result, reply, accepted, effects>>

Answer(r, outcome) ==
    /\ place' = [place EXCEPT ![r] = "gone"]
    /\ SendReplies([q \in {r} |-> outcome])

(* One request: decoded with the clock at now, audited, then answered at   *)
(* once or given to the executor of its lane.                              *)
Receive(r) ==
    /\ server = "up" /\ loop = "poll" /\ place[r] = "wire"
    /\ loop' = "flush"
    /\ \E now \in {0, MaxDeadline} :
         LET frame == Frame(carries[r], Command(r), MaxDeadline, RequestOf[r].fields)
         IN  \/ /\ ~DecodeAccepts(session, now, frame)
                /\ \E outcome \in {"ipc-rejected", "failed"} : Answer(r, outcome)
                /\ UNCHANGED accepted
             \/ /\ DecodeAccepts(session, now, frame)
                /\ Answer(r, "failed")
                /\ UNCHANGED accepted
             \/ /\ DecodeAccepts(session, now, frame)
                /\ accepted' = [accepted EXCEPT ![r] = session]
                /\ IF LanePending(r) >= LaneLimit(r)
                   THEN Answer(r, "overloaded")
                   ELSE place' = [place EXCEPT ![r] = "queued"] /\ UNCHANGED reply
    /\ UNCHANGED <<server, session, tokenFile, client, carries, result, effects>>

-----------------------------------------------------------------------------
(* _invoke_handler, in a worker of the lane.                               *)
FutureDone(r, outcome) ==
    IF server = "up" /\ accepted[r] = session
    THEN place' = [place EXCEPT ![r] = "done"] /\ result' = [result EXCEPT ![r] = outcome]
    ELSE place' = [place EXCEPT ![r] = "gone"] /\ UNCHANGED result

WorkerTakes(r) ==
    /\ place[r] = "queued"
    /\ Cardinality({q \in Lane(r) : place[q] \in {"running", "inside"} /\ accepted[q] = session})
          < LaneWorkers(r)
    /\ place' = [place EXCEPT ![r] = "running"]
    /\ UNCHANGED <<serverVars, client, carries, result, reply, accepted, effects>>

HandlerExpired(r) ==
    /\ place[r] = "running"
    /\ FutureDone(r, "timeout")
    /\ UNCHANGED <<serverVars, client, carries, reply, accepted, effects>>

HandlerEnter(r) ==
    /\ place[r] = "running"
    /\ place' = [place EXCEPT ![r] = "inside"]
    /\ UNCHANGED <<serverVars, client, carries, result, reply, accepted, effects>>

(* Mutant: a handler that raised is answered as a refused request.         *)
HandlerAnswersRefused ==
    {<<"success", TRUE>>, <<"ipc-rejected", FALSE>>, <<"ipc-rejected", TRUE>>}

(* What a handler may do and answer: its effect and "success", or some     *)
(* failure ("invalid", "faulted", an exception, a mismatched identifier)   *)
(* before or after an effect.  The deletion handler is one: a journal that *)
(* grows past its limit, a failing index or a failing audit trail turn up  *)
(* after the records are deleted.                                          *)
HandlerAnswers == {<<"success", TRUE>>, <<"failed", FALSE>>, <<"failed", TRUE>>}

(* The deadline is looked at again after the handler.                      *)
HandlerReturns(r) ==
    /\ place[r] = "inside"
    /\ \E answer \in HandlerAnswers :
          /\ \E outcome \in {answer[1], "timeout"} : FutureDone(r, outcome)
          /\ effects' = IF answer[2] THEN effects \cup {r} ELSE effects
    /\ UNCHANGED <<serverVars, client, carries, reply, accepted>>
-----------------------------------------------------------------------------
HandlerStep(r) == HandlerExpired(r) \/ HandlerEnter(r) \/ HandlerReturns(r)

IpcNext ==
    \/ ServerInitialize \/ ServerWriteToken \/ ServerBind \/ ServerClose \/ ServerCrash
    \/ FlushCompleted \/ PollEmpty
    \/ \E r \in Requests :
          \/ ClientRequest(r) \/ ClientTimeout(r) \/ ClientSocketFails(r) \/ ClientReceive(r)
          \/ Receive(r)
          \/ WorkerTakes(r) \/ HandlerExpired(r) \/ HandlerEnter(r) \/ HandlerReturns(r)

(* The service loop and the urgent lane's threads run; normal handlers may *)
(* hang for ever, and every client's receive has its own timeout.          *)
IpcFairness ==
    /\ WF_ipcVars(FlushCompleted)
    /\ WF_ipcVars(PollEmpty \/ \E r \in Requests : Receive(r))
    /\ \A r \in Requests :
          /\ SF_ipcVars(Receive(r))
          /\ Urgent(r) => WF_ipcVars(WorkerTakes(r)) /\ WF_ipcVars(HandlerStep(r))
-----------------------------------------------------------------------------
IpcTypeOK ==
    /\ server \in {"down", "removed", "keyed", "up"}
    /\ session \in 0 .. MaxSessions /\ tokenFile \in 0 .. MaxSessions
    /\ loop \in {"flush", "poll"}
    /\ place \in [Requests -> Places]
    /\ carries \in [Requests -> 0 .. MaxSessions] /\ accepted \in [Requests -> 0 .. MaxSessions]
    /\ \A r \in Requests : place[r] \in {"queued", "done"} => server = "up" /\ accepted[r] = session

(* Told that there is no daemon, with nothing sent.                        *)
NeverSent(r) == client[r] = "unavailable" /\ carries[r] = 0

(* The exit status can be believed (ipc_transport.py, cli_service.py): a   *)
(* client told "success" asked for something that happened, and one told   *)
(* that the daemon is overloaded or rejected the request, or that it is    *)
(* unavailable when nothing was sent, asked for something that did not     *)
(* happen and will not happen later, whatever restarts, closes and         *)
(* timeouts cross the request.  The exception is real: a socket that fails *)
(* while the client waits is also reported as an unavailable daemon.       *)
AnswerTruthful ==
    \A r \in Requests :
        /\ client[r] = "success" => r \in effects
        /\ (client[r] \in {"overloaded", "ipc-rejected"} \/ NeverSent(r)) =>
              r \notin effects /\ place[r] \in {"none", "gone"}

(* Nothing is done for a request that was not authenticated with the token *)
(* of the server that accepted it and recorded as accepted in the audit    *)
(* trail: a request that waited through a restart is refused.              *)
OnlyCurrentSession ==
    \A r \in Requests :
        place[r] \in {"queued", "running", "inside", "done"} \/ r \in effects =>
            accepted[r] # 0 /\ accepted[r] = carries[r]

\* What a client is told by DaemonIpcServer is true, and only requests of the running
\* server's session ever reach a handler.
IpcTruthful == IpcTypeOK /\ AnswerTruthful /\ OnlyCurrentSession

(* Urgent control is not held up by normal requests: while the server      *)
(* stays up, a stop that reached it leaves its queues even if every normal *)
(* handler hangs (the urgent lane of ZmqIpcServer._serve).                 *)
UrgentProgress ==
    \A r \in Requests :
        Urgent(r) /\ server = "up" /\ place[r] = "wire"
            ~> place[r] = "gone" \/ server # "up"

IpcSpec == IpcInit /\ [][IpcNext]_ipcVars
=============================================================================
