---------------------------- MODULE ServiceProofs ----------------------------
(***************************************************************************)
(* The services around the capture core.                                   *)
(*                                                                         *)
(* First IpcTruthful, for every set of requests and every size of the      *)
(* lanes: the inductive invariant IpcInv follows a request.  Before it is  *)
(* received nothing was done for it, while it is in a lane it carries the  *)
(* token it was accepted with, and an outcome, wherever it is on its way   *)
(* to the client, agrees with what the handler did.                        *)
(*                                                                         *)
(* Then the pure algorithms, each for every input of its types: what the   *)
(* client reads and what its exit code proves, what a deletion selects and *)
(* the timeline lists, windows, weekdays, idling, merged metadata, audit   *)
(* events and the samples of the difference hash.  The last section        *)
(* applies them to the inputs of MCServices: ClientTruthful and            *)
(* DecisionsSound.                                                         *)
(***************************************************************************)
EXTENDS MCServices, FiniteSetTheorems, WellFoundedInduction, TLAPS

\* What a future may hold, what a reply may say, and what a client returns.
Results == {"none", "success", "failed", "timeout"}
Replies == Results \cup {"overloaded", "ipc-rejected"}
ClientStates == (Replies \ {"none"}) \cup {"idle", "waiting", "unavailable"}
InLane == {"queued", "running", "inside", "done"}
Refusals == {"overloaded", "ipc-rejected"}

TypeInv ==
    /\ server \in {"down", "removed", "keyed", "up"}
    /\ session \in 0 .. MaxSessions /\ tokenFile \in 0 .. MaxSessions
    /\ loop \in {"flush", "poll"}
    /\ client \in [Requests -> ClientStates]
    /\ carries \in [Requests -> 0 .. MaxSessions]
    /\ place \in [Requests -> Places]
    /\ result \in [Requests -> Results]
    /\ reply \in [Requests -> Replies]
    /\ accepted \in [Requests -> 0 .. MaxSessions]
    /\ effects \subseteq Requests

\* A server that is up has a token; one that has removed its token may draw one.
SessionInv ==
    /\ server \in {"keyed", "up"} => session # 0
    /\ server = "removed" => session < MaxSessions

\* What the place of a request says about it.
PlaceInv(r) ==
    /\ client[r] = "idle" => place[r] = "none"
    /\ client[r] = "unavailable" /\ carries[r] = 0 => place[r] = "none"
    /\ client[r] = "waiting" => carries[r] # 0
    /\ place[r] \in {"queued", "done"} => server = "up" /\ accepted[r] = session
    /\ place[r] \in InLane \/ r \in effects => accepted[r] # 0 /\ accepted[r] = carries[r]
    /\ r \in effects => place[r] \in {"done", "gone"}

\* An outcome on its way agrees with what was done.
OutcomeInv(r) ==
    /\ result[r] = "success" => r \in effects
    /\ reply[r] = "success" => r \in effects
    /\ client[r] = "success" => r \in effects
    /\ reply[r] \in Refusals => r \notin effects /\ place[r] = "gone"
    /\ client[r] \in Refusals => r \notin effects /\ place[r] = "gone"

IpcInv ==
    /\ TypeInv
    /\ SessionInv
    /\ \A r \in Requests : PlaceInv(r) /\ OutcomeInv(r)

-----------------------------------------------------------------------------
(* The life of the server.                                                 *)

\* start and a failing bind touch no request.
LEMMA StartKeeps ==
    ASSUME IpcInv, ServerInitialize \/ ServerWriteToken \/ ServerBind
    PROVE  IpcInv'
<1>1. TypeInv' /\ SessionInv'
  BY IpcAssumption
     DEF IpcInv, TypeInv, SessionInv, ServerInitialize, ServerWriteToken, ServerBind
<1>2. ASSUME NEW r \in Requests PROVE PlaceInv(r)' /\ OutcomeInv(r)'
  <2>1. server # "up" /\ place[r] \notin {"queued", "done"}
    BY DEF IpcInv, PlaceInv, ServerInitialize, ServerWriteToken, ServerBind
  <2>2. UNCHANGED <<client, carries, place, result, reply, accepted, effects>>
    BY DEF ServerInitialize, ServerWriteToken, ServerBind
  <2> QED BY <2>1, <2>2 DEF IpcInv, PlaceInv, OutcomeInv
<1> QED BY <1>1, <1>2 DEF IpcInv

\* The end of a server, by close or by a crash: it takes requests and replies
\* along and does nothing else.
LEMMA EndKeeps ==
    ASSUME IpcInv, ServerClose \/ ServerCrash
    PROVE  IpcInv'
<1>1. /\ server' = "down"
      /\ UNCHANGED <<session, tokenFile, loop, client, carries, accepted, effects>>
      /\ result' = [r \in Requests |-> "none"]
      /\ place' \in [Requests -> Places]
      /\ reply' \in [Requests -> Replies]
      /\ \A r \in Requests :
           /\ reply'[r] \in {"none", reply[r]}
           /\ place'[r] \in {"gone", place[r]}
           /\ place'[r] \notin {"queued", "done"}
           /\ place[r] = "none" => place'[r] = "none"
  <2>1. /\ server' = "down"
        /\ UNCHANGED <<session, tokenFile, loop, client, carries, accepted, effects>>
        /\ result' = [r \in Requests |-> "none"]
    BY DEF ServerClose, ServerCrash
  <2>2. PICK received \in SUBSET Requests, undelivered \in SUBSET Requests :
          /\ SocketsClosed(received, undelivered)
          /\ \/ place' = [r \in Requests |->
                   IF r \in received \/ place[r] \in {"queued", "done"} THEN "gone" ELSE place[r]]
             \/ place' = [r \in Requests |->
                   IF r \in received \/ place[r] \notin {"none", "wire"} THEN "gone" ELSE place[r]]
    BY DEF ServerClose, ServerCrash
  <2>3. /\ reply' \in [Requests -> Replies]
        /\ \A r \in Requests : reply'[r] \in {"none", reply[r]}
    BY <2>2 DEF IpcInv, TypeInv, SocketsClosed, Replies, Results
  <2>4. \A r \in received : place[r] = "wire"
    BY <2>2 DEF SocketsClosed
  <2>5. /\ place' \in [Requests -> Places]
        /\ \A r \in Requests :
             /\ place'[r] \in {"gone", place[r]}
             /\ place'[r] \notin {"queued", "done"}
             /\ place[r] = "none" => place'[r] = "none"
    <3>1. place \in [Requests -> Places] /\ "gone" \in Places
      BY DEF IpcInv, TypeInv, Places
    <3> QED BY <2>2, <2>4, <3>1
  <2> QED BY <2>1, <2>3, <2>5
<1>2. TypeInv' /\ SessionInv'
  BY <1>1 DEF IpcInv, TypeInv, SessionInv, Results
<1>3. ASSUME NEW r \in Requests PROVE PlaceInv(r)' /\ OutcomeInv(r)'
  <2>1. PlaceInv(r) /\ OutcomeInv(r)
    BY DEF IpcInv
  <2> QED BY <1>1, <2>1 DEF PlaceInv, OutcomeInv, InLane, Refusals
<1> QED BY <1>2, <1>3 DEF IpcInv

-----------------------------------------------------------------------------
(* The client.                                                             *)

\* A request that is sent carries the token of the file and was never handled.
LEMMA RequestKeeps ==
    ASSUME IpcInv, NEW q \in Requests, ClientRequest(q)
    PROVE  IpcInv'
<1>1. TypeInv' /\ SessionInv'
  BY DEF IpcInv, TypeInv, SessionInv, ClientRequest, ClientReturns, serverVars, ClientStates,
         Replies,
         Results, Places
<1>2. PlaceInv(q) /\ OutcomeInv(q) /\ client[q] = "idle" /\ q \notin effects
  BY DEF IpcInv, PlaceInv, ClientRequest
<1>3. PlaceInv(q)' /\ OutcomeInv(q)'
  BY <1>2 DEF IpcInv, TypeInv, PlaceInv, OutcomeInv, ClientRequest, ClientReturns, serverVars,
              InLane, Refusals
<1>4. ASSUME NEW r \in Requests, r # q PROVE PlaceInv(r)' /\ OutcomeInv(r)'
  BY <1>4 DEF IpcInv, TypeInv, PlaceInv, OutcomeInv, ClientRequest, ClientReturns, serverVars
<1> QED BY <1>1, <1>3, <1>4 DEF IpcInv

\* A client that gives up or is answered.
LEMMA ReturnKeeps ==
    ASSUME IpcInv, NEW q \in Requests, ClientTimeout(q) \/ ClientSocketFails(q) \/ ClientReceive(q)
    PROVE  IpcInv'
<1>1. TypeInv' /\ SessionInv'
  BY DEF IpcInv, TypeInv, SessionInv, ClientTimeout, ClientSocketFails,
              ClientAbandons, ClientReceive, ClientReturns, serverVars,
         ClientStates, Replies, Results, Places
<1>2. PlaceInv(q) /\ OutcomeInv(q)
  BY DEF IpcInv
<1>3. PlaceInv(q)' /\ OutcomeInv(q)'
  BY <1>2 DEF IpcInv, TypeInv, PlaceInv, OutcomeInv, ClientTimeout, ClientSocketFails,
              ClientAbandons, ClientReceive, ClientReturns,
              serverVars, InLane, Refusals, Replies, Results
<1>4. ASSUME NEW r \in Requests, r # q PROVE PlaceInv(r)' /\ OutcomeInv(r)'
  BY <1>4 DEF IpcInv, TypeInv, PlaceInv, OutcomeInv, ClientTimeout, ClientSocketFails,
              ClientAbandons, ClientReceive, ClientReturns,
              serverVars
<1> QED BY <1>1, <1>3, <1>4 DEF IpcInv

-----------------------------------------------------------------------------
(* The service loop.                                                       *)

\* A flush sends the outcomes of the futures that are done.
LEMMA FlushKeeps ==
    ASSUME IpcInv, FlushCompleted
    PROVE  IpcInv'
<1>1. ASSUME NEW r \in Requests
      PROVE  /\ reply'[r] = reply[r] \/ (place[r] = "done" /\ reply'[r] = result[r])
             /\ place'[r] = (IF place[r] = "done" THEN "gone" ELSE place[r])
             /\ result'[r] \in {"none", result[r]}
  BY <1>1 DEF IpcInv, TypeInv, FlushCompleted, SendReplies
<1>2. /\ DOMAIN reply' = Requests /\ reply' = [r \in Requests |-> reply'[r]]
      /\ place' = [r \in Requests |-> place'[r]]
      /\ result' = [r \in Requests |-> result'[r]]
      /\ loop' \in {"flush", "poll"}
      /\ UNCHANGED <<server, session, tokenFile, client, carries, accepted, effects>>
  BY DEF FlushCompleted, SendReplies
<1>3. TypeInv' /\ SessionInv'
  <2>1. reply' \in [Requests -> Replies]
    BY <1>1, <1>2 DEF IpcInv, TypeInv, Replies
  <2>2. place' \in [Requests -> Places]
    BY <1>1, <1>2 DEF IpcInv, TypeInv, Places
  <2>3. result' \in [Requests -> Results]
    BY <1>1, <1>2 DEF IpcInv, TypeInv, Results
  <2> QED BY <1>2, <2>1, <2>2, <2>3 DEF IpcInv, TypeInv, SessionInv
<1>4. ASSUME NEW r \in Requests PROVE PlaceInv(r)' /\ OutcomeInv(r)'
  <2>1. PlaceInv(r) /\ OutcomeInv(r) /\ result[r] \in Results
    BY DEF IpcInv, TypeInv
  <2> QED BY <1>1, <1>2, <2>1 DEF PlaceInv, OutcomeInv, InLane, Refusals, Results
<1> QED BY <1>3, <1>4 DEF IpcInv

\* The round without a request.
LEMMA PollEmptyKeeps ==
    ASSUME IpcInv, PollEmpty
    PROVE  IpcInv'
<1>1. TypeInv' /\ SessionInv'
  BY DEF IpcInv, TypeInv, SessionInv, PollEmpty
<1>2. ASSUME NEW r \in Requests PROVE PlaceInv(r)' /\ OutcomeInv(r)'
  BY DEF IpcInv, PlaceInv, OutcomeInv, PollEmpty
<1> QED BY <1>1, <1>2 DEF IpcInv

\* The codec accepts only the token of the running session.
LEMMA DecodedIsCurrent ==
    ASSUME NEW token, NEW now, NEW command, NEW fields,
           DecodeAccepts(session, now, Frame(token, command, MaxDeadline, fields))
    PROVE  token = session
BY DEF DecodeAccepts, Frame

\* What a request on the wire meets: an answer, or its lane.
LEMMA ReceiveEffect ==
    ASSUME IpcInv, NEW q \in Requests, Receive(q)
    PROVE  /\ UNCHANGED <<server, session, tokenFile, client, carries, result, effects>>
           /\ loop' = "flush" /\ server = "up" /\ place[q] = "wire"
           /\ \/ /\ place' = [place EXCEPT ![q] = "gone"]
                 /\ \E outcome \in {"failed", "overloaded", "ipc-rejected"} :
                       SendReplies([x \in {q} |-> outcome])
                 /\ accepted' = accepted \/ accepted' = [accepted EXCEPT ![q] = session]
              \/ /\ place' = [place EXCEPT ![q] = "queued"]
                 /\ UNCHANGED reply
                 /\ accepted' = [accepted EXCEPT ![q] = session] /\ carries[q] = session
<1> DEFINE frame == Frame(carries[q], Command(q), MaxDeadline, RequestOf[q].fields)
           Full == LanePending(q) >= LaneLimit(q)
<1>1. \E now \in {0, MaxDeadline} :
         \/ /\ ~DecodeAccepts(session, now, frame)
            /\ \E outcome \in {"ipc-rejected", "failed"} : Answer(q, outcome)
            /\ UNCHANGED accepted
         \/ /\ DecodeAccepts(session, now, frame)
            /\ Answer(q, "failed")
            /\ UNCHANGED accepted
         \/ /\ DecodeAccepts(session, now, frame)
            /\ accepted' = [accepted EXCEPT ![q] = session]
            /\ IF Full
               THEN Answer(q, "overloaded")
               ELSE place' = [place EXCEPT ![q] = "queued"] /\ UNCHANGED reply
  BY DEF Receive
<1>2. ASSUME NEW now, DecodeAccepts(session, now, frame) PROVE carries[q] = session
  BY <1>2, DecodedIsCurrent
<1>3. /\ UNCHANGED <<server, session, tokenFile, client, carries, result, effects>>
      /\ loop' = "flush" /\ server = "up" /\ place[q] = "wire"
  BY DEF Receive
<1> HIDE DEF frame, Full
<1> QED BY <1>1, <1>2, <1>3, Zenon DEF Answer

\* A request is answered at once, or queued with the token of the session.
LEMMA ReceiveKeeps ==
    ASSUME IpcInv, NEW q \in Requests, Receive(q)
    PROVE  IpcInv'
<1>1. /\ UNCHANGED <<server, session, tokenFile, client, carries, result, effects>>
      /\ loop' = "flush" /\ server = "up" /\ place[q] = "wire"
  BY ReceiveEffect
<1>2. /\ PlaceInv(q) /\ OutcomeInv(q)
      /\ q \notin effects /\ session # 0 /\ client[q] # "idle"
      /\ client[q] = "unavailable" => carries[q] # 0
      /\ client[q] \notin Refusals
  BY <1>1 DEF IpcInv, PlaceInv, OutcomeInv, SessionInv
<1>3. CASE /\ place' = [place EXCEPT ![q] = "gone"]
           /\ \E outcome \in {"failed", "overloaded", "ipc-rejected"} :
                 SendReplies([x \in {q} |-> outcome])
           /\ accepted' = accepted \/ accepted' = [accepted EXCEPT ![q] = session]
  <2>1. PICK outcome \in {"failed", "overloaded", "ipc-rejected"} :
           SendReplies([x \in {q} |-> outcome])
    BY <1>3
  <2>2. /\ reply' \in [Requests -> Replies]
        /\ reply'[q] \in {reply[q], outcome}
        /\ \A r \in Requests \ {q} : reply'[r] = reply[r]
    <3>1. outcome \in Replies /\ reply \in [Requests -> Replies]
      BY DEF IpcInv, TypeInv, Replies, Results
    <3>2. reply' = [r \in Requests |->
                      IF r = q /\ client[r] = "waiting" THEN outcome ELSE reply[r]]
      BY <2>1 DEF SendReplies
    <3> QED BY <3>1, <3>2
  <2>3. /\ place' \in [Requests -> Places] /\ place'[q] = "gone"
        /\ \A r \in Requests \ {q} : place'[r] = place[r]
    BY <1>3 DEF IpcInv, TypeInv, Places
  <2>4. /\ accepted' \in [Requests -> 0 .. MaxSessions]
        /\ \A r \in Requests \ {q} : accepted'[r] = accepted[r]
    <3>1. CASE accepted' = accepted
      BY <3>1 DEF IpcInv, TypeInv
    <3>2. CASE accepted' = [accepted EXCEPT ![q] = session]
      BY <3>2 DEF IpcInv, TypeInv
    <3> QED BY <1>3, <3>1, <3>2
  <2>5. TypeInv' /\ SessionInv'
    BY <1>1, <2>2, <2>3, <2>4 DEF IpcInv, TypeInv, SessionInv
  <2>6. PlaceInv(q)' /\ OutcomeInv(q)'
    BY <1>1, <1>2, <2>2, <2>3 DEF PlaceInv, OutcomeInv, InLane, Refusals
  <2>7. ASSUME NEW r \in Requests, r # q PROVE PlaceInv(r)' /\ OutcomeInv(r)'
    <3>1. PlaceInv(r) /\ OutcomeInv(r)
      BY DEF IpcInv
    <3> QED BY <1>1, <2>2, <2>3, <2>4, <2>7, <3>1 DEF PlaceInv, OutcomeInv
  <2> QED BY <2>5, <2>6, <2>7 DEF IpcInv
<1>4. CASE /\ place' = [place EXCEPT ![q] = "queued"]
           /\ UNCHANGED reply
           /\ accepted' = [accepted EXCEPT ![q] = session] /\ carries[q] = session
  <2>1. TypeInv' /\ SessionInv'
    BY <1>1, <1>4 DEF IpcInv, TypeInv, SessionInv, Places
  <2>2. PlaceInv(q)' /\ OutcomeInv(q)'
    BY <1>1, <1>2, <1>4 DEF IpcInv, TypeInv, PlaceInv, OutcomeInv, InLane, Refusals
  <2>3. ASSUME NEW r \in Requests, r # q PROVE PlaceInv(r)' /\ OutcomeInv(r)'
    BY <1>1, <1>4, <2>3 DEF IpcInv, TypeInv, PlaceInv, OutcomeInv
  <2> QED BY <2>1, <2>2, <2>3 DEF IpcInv
<1> QED BY <1>3, <1>4, ReceiveEffect

-----------------------------------------------------------------------------
(* The handlers.                                                           *)

\* A worker takes a request, or its handler begins.
LEMMA WorkKeeps ==
    ASSUME IpcInv, NEW q \in Requests, WorkerTakes(q) \/ HandlerEnter(q)
    PROVE  IpcInv'
<1>1. /\ place[q] \in {"queued", "running"}
      /\ place' = [place EXCEPT ![q] = "running"] \/ place' = [place EXCEPT ![q] = "inside"]
      /\ UNCHANGED <<serverVars, client, carries, result, reply, accepted, effects>>
  BY DEF WorkerTakes, HandlerEnter
<1>2. /\ place' \in [Requests -> Places] /\ place'[q] \in {"running", "inside"}
      /\ \A r \in Requests \ {q} : place'[r] = place[r]
  <2>1. CASE place' = [place EXCEPT ![q] = "running"]
    BY <2>1 DEF IpcInv, TypeInv, Places
  <2>2. CASE place' = [place EXCEPT ![q] = "inside"]
    BY <2>2 DEF IpcInv, TypeInv, Places
  <2> QED BY <1>1, <2>1, <2>2
<1>3. TypeInv' /\ SessionInv'
  BY <1>1, <1>2 DEF IpcInv, TypeInv, SessionInv, serverVars
<1>4. ASSUME NEW r \in Requests PROVE PlaceInv(r)' /\ OutcomeInv(r)'
  <2>1. PlaceInv(r) /\ OutcomeInv(r)
    BY DEF IpcInv
  <2> QED BY <1>1, <1>2, <2>1 DEF PlaceInv, OutcomeInv, InLane, Refusals, serverVars
<1> QED BY <1>3, <1>4 DEF IpcInv

\* A future ends with an outcome that agrees with what its handler did.
LEMMA FutureKeeps ==
    ASSUME IpcInv, NEW q \in Requests, place[q] \in {"running", "inside"},
           NEW outcome \in {"success", "failed", "timeout"}, FutureDone(q, outcome),
           effects' = effects \/ effects' = effects \cup {q},
           outcome = "success" => q \in effects',
           UNCHANGED <<serverVars, client, carries, reply, accepted>>
    PROVE  IpcInv'
<1>1. /\ place' \in [Requests -> Places] /\ place'[q] \in {"done", "gone"}
      /\ place'[q] = "done" => server = "up" /\ accepted[q] = session
      /\ \A r \in Requests \ {q} : place'[r] = place[r]
      /\ result' \in [Requests -> Results] /\ result'[q] \in {result[q], outcome}
      /\ \A r \in Requests \ {q} : result'[r] = result[r]
  <2>1. CASE server = "up" /\ accepted[q] = session
    BY <2>1 DEF IpcInv, TypeInv, FutureDone, Places, Results
  <2>2. CASE ~(server = "up" /\ accepted[q] = session)
    BY <2>2 DEF IpcInv, TypeInv, FutureDone, Places, Results
  <2> QED BY <2>1, <2>2
<1>2. TypeInv' /\ SessionInv'
  BY <1>1 DEF IpcInv, TypeInv, SessionInv, serverVars
<1>3. ASSUME NEW r \in Requests PROVE PlaceInv(r)' /\ OutcomeInv(r)'
  <2>1. PlaceInv(r) /\ OutcomeInv(r) /\ PlaceInv(q) /\ OutcomeInv(q)
    BY DEF IpcInv
  <2> QED BY <1>1, <2>1 DEF PlaceInv, OutcomeInv, InLane, Refusals, serverVars
<1> QED BY <1>2, <1>3 DEF IpcInv

\* The deadline passes before the handler, or the handler returns.
LEMMA HandlerKeeps ==
    ASSUME IpcInv, NEW q \in Requests, HandlerExpired(q) \/ HandlerReturns(q)
    PROVE  IpcInv'
<1>1. CASE HandlerExpired(q)
  BY <1>1, FutureKeeps DEF HandlerExpired
<1>2. CASE HandlerReturns(q)
  <2>1. PICK answer \in HandlerAnswers :
          /\ \E outcome \in {answer[1], "timeout"} : FutureDone(q, outcome)
          /\ effects' = IF answer[2] THEN effects \cup {q} ELSE effects
    BY <1>2 DEF HandlerReturns
  <2>2. PICK outcome \in {answer[1], "timeout"} : FutureDone(q, outcome)
    BY <2>1
  <2>3. /\ outcome \in {"success", "failed", "timeout"}
        /\ effects' = effects \/ effects' = effects \cup {q}
        /\ outcome = "success" => q \in effects'
    <3>1. CASE answer = <<"success", TRUE>>
      BY <2>1, <2>2, <3>1
    <3>2. CASE answer = <<"failed", FALSE>>
      BY <2>1, <2>2, <3>2
    <3>3. CASE answer = <<"failed", TRUE>>
      BY <2>1, <2>2, <3>3
    <3> QED BY <3>1, <3>2, <3>3 DEF HandlerAnswers
  <2> QED BY <1>2, <2>2, <2>3, FutureKeeps DEF HandlerReturns
<1> QED BY <1>1, <1>2

-----------------------------------------------------------------------------
(* The theorems.                                                           *)

\* Nobody has asked, and no server runs.
LEMMA InitIpcInv == IpcInit => IpcInv
<1> SUFFICES ASSUME IpcInit PROVE IpcInv
  OBVIOUS
<1>1. TypeInv /\ SessionInv
  BY IpcAssumption DEF IpcInit, TypeInv, SessionInv, ClientStates, Replies, Results, Places
<1>2. ASSUME NEW r \in Requests PROVE PlaceInv(r) /\ OutcomeInv(r)
  BY DEF IpcInit, PlaceInv, OutcomeInv, InLane, Refusals
<1> QED BY <1>1, <1>2 DEF IpcInv

\* Every step keeps the invariant.
LEMMA NextIpcInv == IpcInv /\ [IpcNext]_ipcVars => IpcInv'
<1> SUFFICES ASSUME IpcInv, [IpcNext]_ipcVars PROVE IpcInv'
  OBVIOUS
<1>1. CASE ServerInitialize \/ ServerWriteToken \/ ServerBind \/ ServerClose \/ ServerCrash
  BY <1>1, StartKeeps, EndKeeps
<1>2. CASE FlushCompleted \/ PollEmpty
  BY <1>2, FlushKeeps, PollEmptyKeeps
<1>3. ASSUME NEW r \in Requests, ClientRequest(r) \/ ClientTimeout(r) \/ ClientSocketFails(r)
                               \/ ClientReceive(r)
      PROVE  IpcInv'
  BY <1>3, RequestKeeps, ReturnKeeps
<1>4. ASSUME NEW r \in Requests,
             \/ Receive(r) \/ WorkerTakes(r)
             \/ HandlerExpired(r) \/ HandlerEnter(r) \/ HandlerReturns(r)
      PROVE  IpcInv'
  BY <1>4, ReceiveKeeps, WorkKeeps, HandlerKeeps
<1>5. CASE UNCHANGED ipcVars
  <2>1. TypeInv' /\ SessionInv'
    BY <1>5 DEF IpcInv, TypeInv, SessionInv, ipcVars
  <2>2. ASSUME NEW r \in Requests PROVE PlaceInv(r)' /\ OutcomeInv(r)'
    BY <1>5 DEF IpcInv, PlaceInv, OutcomeInv, ipcVars
  <2> QED BY <2>1, <2>2 DEF IpcInv
<1> QED BY <1>1, <1>2, <1>3, <1>4, <1>5 DEF IpcNext

\* The invariant of server, lanes and clients.
THEOREM IpcInvariance == IpcSpec => []IpcInv
BY InitIpcInv, NextIpcInv, PTL DEF IpcSpec

\* A client told success has it, one told that its request was refused or
\* never sent has changed nothing and never will, and only requests with the token of the
\* server that accepted them reach a handler, for any number of clients and
\* lanes of any size.
THEOREM AnswersTruthful == IpcSpec => []IpcTruthful
<1>1. IpcInv => IpcTruthful
  <2> SUFFICES ASSUME IpcInv PROVE IpcTruthful
    OBVIOUS
  <2>1. IpcTypeOK
    BY DEF IpcInv, TypeInv, PlaceInv, IpcTypeOK
  <2>2. AnswerTruthful
    BY DEF IpcInv, PlaceInv, OutcomeInv, Refusals, NeverSent, AnswerTruthful
  <2>3. OnlyCurrentSession
    BY DEF IpcInv, PlaceInv, InLane, OnlyCurrentSession
  <2> QED BY <2>1, <2>2, <2>3 DEF IpcTruthful
<1> QED BY <1>1, IpcInvariance, PTL

-----------------------------------------------------------------------------
(* The client: what it reads, and what its exit code proves.               *)


\* Only "success" has exit code 0.
LEMMA ZeroIsSuccess ==
    ASSUME NEW outcome, ExitCode(outcome) = 0
    PROVE  outcome = "success"
BY DEF ExitCode

\* What the client decodes from a frame that reports a success, and from one that does not.
LEMMA DecodedOutcome ==
    ASSUME NEW w, Decoded(w) # None, Decoded(w).outcome = "success"
    PROVE  /\ w.outcome = "success" /\ SuccessBuilds(Decoded(w))
           /\ Decoded(w).state = w.state
           /\ Decoded(w).query = DecodedQuery(w.query)
           /\ Decoded(w).deletion = DecodedDeletion(w.deletion)
           /\ Decoded(w).diagnostic = DecodedDiagnostic(w.diagnostic)
<1> DEFINE r == [same |-> w.same, outcome |-> w.outcome, reason |-> None, state |-> w.state,
                 query |-> DecodedQuery(w.query), diagnostic |-> DecodedDiagnostic(w.diagnostic),
                 status |-> DecodedStatus(w.status), deletion |-> DecodedDeletion(w.deletion)]
<1>0. Failure(w.same, w.outcome, w.reason).outcome = w.outcome
  BY DEF Failure
<1>1. /\ r.state = w.state /\ r.query = DecodedQuery(w.query)
      /\ r.deletion = DecodedDeletion(w.deletion)
      /\ r.diagnostic = DecodedDiagnostic(w.diagnostic)
  OBVIOUS
<1>2. Decoded(w) = CASE w.outcome = "success" /\ SuccessBuilds(r) -> r
                     [] w.outcome # "success" /\ w.reason # None /\ PayloadsBuild(r) ->
                           Failure(w.same, w.outcome, w.reason)
                     [] OTHER -> None
  BY DEF Decoded
<1> HIDE DEF r
<1>3. w.outcome = "success" /\ Decoded(w) = r /\ SuccessBuilds(r)
  BY <1>0, <1>2, Zenon
<1> QED BY <1>1, <1>3

\* ExitZeroIsProof for every command and every frame, well formed or not (execute_command
\* and the decoder of ipc_protocol.py): no daemon, however wrong, makes the client exit with
\* 0 for a stop that did not end in OFF or a deletion without its count.
THEOREM ExitZeroProof ==
    ASSUME NEW command, NEW w
    PROVE  ExitZeroIsProof(command, w)
<1> SUFFICES ASSUME ExitCode(Executed(command, w)) = 0
             PROVE  /\ w.same /\ w.outcome = "success"
                    /\ command = "stop" => w.state = "off"
                    /\ command = "delete-records" => w.deletion # None /\ w.deletion.count >= 0
                    /\ command \in {"ask", "timeline", "search", "preview-record"} =>
                          w.query # None /\ w.query.text \in {"text", "wide"}
                    /\ ExpectedCategory(command) # None =>
                          w.diagnostic # None /\ w.diagnostic.category = ExpectedCategory(command)
  BY DEF ExitZeroIsProof
<1> DEFINE r == Decoded(w)
<1>1. Executed(command, w) = "success"
  BY ZeroIsSuccess
<1>2. r # None /\ w.same /\ r.outcome = "success" /\ Proves(command, r)
  BY <1>1, Zenon DEF Executed
<1>3. /\ w.outcome = "success" /\ SuccessBuilds(r) /\ r.state = w.state
      /\ r.query = DecodedQuery(w.query) /\ r.deletion = DecodedDeletion(w.deletion)
      /\ r.diagnostic = DecodedDiagnostic(w.diagnostic)
  BY <1>2, DecodedOutcome
<1> HIDE DEF r
<1>4. PayloadsBuild(r)
  BY <1>3 DEF SuccessBuilds
<1>5. command = "delete-records" => w.deletion # None /\ w.deletion.count >= 0
  <2> SUFFICES ASSUME command = "delete-records" PROVE w.deletion # None /\ w.deletion.count >= 0
    OBVIOUS
  <2>1. r.deletion # None
    BY <1>2 DEF Proves
  <2>2. w.deletion # None
    BY <1>3, <2>1 DEF DecodedDeletion
  <2>3. r.deletion.count >= 0
    BY <1>4, <2>1 DEF PayloadsBuild, DeletionBuilds
  <2>4. r.deletion.count = w.deletion.count
    BY <1>3, <2>2 DEF DecodedDeletion
  <2> QED BY <2>2, <2>3, <2>4
<1>6. command \in {"ask", "timeline", "search", "preview-record"} =>
         w.query # None /\ w.query.text \in {"text", "wide"}
  <2> SUFFICES ASSUME command \in {"ask", "timeline", "search", "preview-record"}
               PROVE  w.query # None /\ w.query.text \in {"text", "wide"}
    OBVIOUS
  <2>1. r.query # None
    BY <1>2 DEF Proves
  <2>2. w.query # None
    BY <1>3, <2>1 DEF DecodedQuery
  <2>3. r.query.text \in {"text", "wide"}
    BY <1>4, <2>1, Zenon DEF PayloadsBuild, QueryBuilds
  <2>4. r.query.text = w.query.text
    BY <1>3, <2>2 DEF DecodedQuery
  <2> QED BY <2>2, <2>3, <2>4
<1>7. ExpectedCategory(command) # None =>
         w.diagnostic # None /\ w.diagnostic.category = ExpectedCategory(command)
  <2> SUFFICES ASSUME ExpectedCategory(command) # None
               PROVE  w.diagnostic # None /\ w.diagnostic.category = ExpectedCategory(command)
    OBVIOUS
  <2>1. r.diagnostic # None /\ r.diagnostic.category = ExpectedCategory(command)
    BY <1>2 DEF Proves
  <2>2. w.diagnostic # None
    BY <1>3, <2>1 DEF DecodedDiagnostic
  <2>3. r.diagnostic.category = w.diagnostic.category
    BY <1>3, <2>2 DEF DecodedDiagnostic
  <2> QED BY <2>1, <2>2, <2>3
<1>8. command = "stop" => w.state = "off"
  BY <1>2, <1>3 DEF Proves
<1> QED BY <1>2, <1>3, <1>5, <1>6, <1>7, <1>8


\* A sequence is the function it is.
LEMMA SeqIsFunction ==
    ASSUME NEW S, NEW s \in Seq(S)
    PROVE  /\ Len(s) \in Nat /\ DOMAIN s = 1 .. Len(s)
           /\ \A i \in DOMAIN s : s[i] \in S
           /\ s = [i \in DOMAIN s |-> s[i]]
<1>1. Len(s) \in Nat /\ DOMAIN s = 1 .. Len(s)
  OBVIOUS
<1>2. \A i \in 1 .. Len(s) : s[i] \in S
  OBVIOUS
<1>3. s \in [1 .. Len(s) -> S]
  OBVIOUS
<1>4. s = [i \in 1 .. Len(s) |-> s[i]]
  BY <1>3
<1> QED BY <1>1, <1>2, <1>4

\* A time that is aware, and not yet text, comes back from its ISO text.
LEMMA IsoRead ==
    ASSUME NEW t \in Times, Aware(t), None \notin Times
    PROVE  FromIso(Iso(t)) = t
<1> DEFINE iso == Iso(t)
           u == [iso EXCEPT !.text = FALSE]
<1>1. iso = [at |-> t.at, aware |-> t.aware, text |-> TRUE]
  BY DEF Iso, Times
<1>2. iso \in Times /\ iso.at = t.at /\ iso.aware = t.aware
  BY <1>1 DEF Times
<1>3. iso # None
  BY <1>2
<1> HIDE DEF iso
<1>4. u \in Times /\ u.at = iso.at /\ u.aware = iso.aware
  BY <1>2 DEF Times
<1>5. u.text = FALSE
  BY <1>2 DEF Times
<1>6. t.text = FALSE
  BY DEF Aware, Times
<1> HIDE DEF u
<1>7. u = t
  BY <1>2, <1>4, <1>5, <1>6 DEF Times
<1>8. FromIso(iso) = u
  BY <1>3, Zenon DEF FromIso, u
<1> QED BY <1>7, <1>8 DEF iso

\* A query payload that can be built comes back from the frame, citation by citation.
LEMMA QueryRead ==
    ASSUME NEW T, NoneApart(T), NEW q \in QueryPayloads(T), QueryBuilds(q)
    PROVE  DecodedQuery(WireQuery(q)) = q
<1> DEFINE Citations == [record : T, at : Times]
           wired == [i \in DOMAIN q.citations |->
                        [record |-> q.citations[i].record, at |-> Iso(q.citations[i].at)]]
           w == [text |-> q.text, citations |-> wired]
<1>1. /\ q.citations \in Seq(Citations)
      /\ q = [text |-> q.text, citations |-> q.citations]
  BY DEF QueryPayloads
<1>2. /\ DOMAIN q.citations = 1 .. Len(q.citations) /\ Len(q.citations) \in Nat
      /\ \A i \in DOMAIN q.citations : q.citations[i] \in Citations
      /\ q.citations = [i \in DOMAIN q.citations |-> q.citations[i]]
  <2> HIDE DEF Citations
  <2> QED BY <1>1, SeqIsFunction, Zenon
<1>3. WireQuery(q) = w
  BY Zenon DEF WireQuery
<1>4. \A i \in DOMAIN q.citations :
         /\ FromIso(Iso(q.citations[i].at)) = q.citations[i].at
         /\ wired[i].record = q.citations[i].record /\ wired[i].at = Iso(q.citations[i].at)
         /\ wired[i] \in Citations
  <2> TAKE i \in DOMAIN q.citations
  <2> DEFINE c == q.citations[i]
  <2>1. c \in Citations /\ c.at \in Times
    BY <1>2
  <2>2. Aware(c.at)
    BY DEF QueryBuilds, CitationBuilds
  <2>3. FromIso(Iso(c.at)) = c.at
    BY <2>1, <2>2, IsoRead DEF NoneApart
  <2>4. Iso(c.at) \in Times
    BY <2>1 DEF Iso, Times
  <2>5. wired[i] = [record |-> c.record, at |-> Iso(c.at)]
    BY <2>1
  <2> QED BY <2>1, <2>3, <2>4, <2>5
<1>5. w # None
  <2>1. wired \in Seq(Citations)
    <3>1. wired \in [1 .. Len(q.citations) -> Citations]
      BY <1>2, <1>4
    <3> QED BY <1>2, <3>1
  <2>2. w \in QueryPayloads(T)
    BY <2>1 DEF QueryPayloads
  <2> QED BY <2>2 DEF NoneApart
<1>6. w.text = q.text /\ w.citations = wired /\ DOMAIN w.citations = DOMAIN q.citations
  OBVIOUS
<1>7. DecodedQuery(w) =
         [text |-> w.text, citations |-> [i \in DOMAIN w.citations |->
             [record |-> w.citations[i].record, at |-> FromIso(w.citations[i].at)]]]
  BY <1>5, Zenon DEF DecodedQuery
<1>8. [i \in DOMAIN w.citations |->
         [record |-> w.citations[i].record, at |-> FromIso(w.citations[i].at)]] = q.citations
  <2> SUFFICES [i \in DOMAIN q.citations |->
                  [record |-> wired[i].record, at |-> FromIso(wired[i].at)]]
               = [i \in DOMAIN q.citations |-> q.citations[i]]
    BY <1>2, <1>6
  <2> SUFFICES ASSUME NEW i \in DOMAIN q.citations
               PROVE  [record |-> wired[i].record, at |-> FromIso(wired[i].at)] = q.citations[i]
    OBVIOUS
  <2> HIDE DEF wired
  <2> QED BY <1>2, <1>4
<1> QED BY <1>1, <1>3, <1>6, <1>7, <1>8

\* So does a status payload, with the time of the last capture.
LEMMA StatusRead ==
    ASSUME NEW T, NoneApart(T), NEW p \in StatusPayloads(T), StatusBuilds(p)
    PROVE  DecodedStatus(WireStatus(p)) = p
<1> DEFINE w == WireStatus(p)
<1>1. w = [privacy |-> p.privacy, backend |-> p.backend, source |-> p.source, last |-> Iso(p.last)]
  BY DEF StatusPayloads, WireStatus
<1>2. p.last \in Times \cup {None} /\ (p.last # None => Aware(p.last))
  BY DEF StatusPayloads, StatusBuilds
<1>3. FromIso(Iso(p.last)) = p.last
  <2>1. CASE p.last = None
    BY <2>1 DEF Iso, FromIso
  <2>2. CASE p.last # None
    BY <1>2, <2>2, IsoRead DEF NoneApart
  <2> QED BY <2>1, <2>2
<1>4. w # None
  <2>1. Iso(p.last) \in Times \cup {None}
    BY <1>2 DEF Iso, Times
  <2>2. w \in StatusPayloads(T)
    BY <1>1, <2>1 DEF StatusPayloads
  <2> QED BY <2>2 DEF NoneApart
<1>5. DecodedStatus(w) = [privacy |-> p.privacy, backend |-> p.backend, source |-> p.source,
                          last |-> p.last]
  BY <1>1, <1>3, <1>4 DEF DecodedStatus
<1> QED BY <1>5 DEF StatusPayloads

\* A diagnostic payload, which holds no time, is decoded as it is.
LEMMA DiagnosticRead ==
    ASSUME NEW T, NEW d \in DiagnosticPayloads(T) \cup {None}
    PROVE  DecodedDiagnostic(d) = d
<1>1. CASE d = None
  BY <1>1 DEF DecodedDiagnostic
<1>2. CASE d # None
  <2> DEFINE Entries == [name : T, state : T, value : T \cup {None}]
  <2>1. d.entries \in Seq(Entries) /\ d = [category |-> d.category, entries |-> d.entries]
    BY <1>2 DEF DiagnosticPayloads
  <2>2. /\ \A i \in DOMAIN d.entries : d.entries[i] \in Entries
        /\ d.entries = [i \in DOMAIN d.entries |-> d.entries[i]]
    <3> HIDE DEF Entries
    <3> QED BY <2>1, SeqIsFunction, Zenon
  <2>3. [i \in DOMAIN d.entries |->
           [name |-> d.entries[i].name, state |-> d.entries[i].state,
            value |-> d.entries[i].value]] = d.entries
    <3> SUFFICES ASSUME NEW i \in DOMAIN d.entries
                 PROVE  [name |-> d.entries[i].name, state |-> d.entries[i].state,
                         value |-> d.entries[i].value] = d.entries[i]
      BY <2>2, Zenon
    <3> QED BY <2>2
  <2> QED BY <1>2, <2>1, <2>3 DEF DecodedDiagnostic
<1> QED BY <1>1, <1>2

\* So is the result of a deletion.
LEMMA DeletionRead ==
    ASSUME NEW T, NEW d \in DeletionPayloads(T) \cup {None}
    PROVE  DecodedDeletion(d) = d
BY DEF DecodedDeletion, DeletionPayloads

\* A failure is the same in a frame, and is decoded as it is.
LEMMA FailureRead ==
    ASSUME NEW same, NEW outcome, outcome # "success", "ok" # None
    PROVE  Decoded(Wire(Failure(same, outcome, "ok"))) = Failure(same, outcome, "ok")
<1> DEFINE w == Failure(same, outcome, "ok")
           r == [same |-> w.same, outcome |-> w.outcome, reason |-> None, state |-> w.state,
                 query |-> DecodedQuery(w.query), diagnostic |-> DecodedDiagnostic(w.diagnostic),
                 status |-> DecodedStatus(w.status), deletion |-> DecodedDeletion(w.deletion)]
<1>1. Wire(w) = w
  BY DEF Wire, Failure
<1>2. /\ w.same = same /\ w.outcome = outcome /\ w.reason = "ok"
      /\ w.query = None /\ w.diagnostic = None /\ w.status = None /\ w.deletion = None
  BY DEF Failure
<1>3. PayloadsBuild(r)
  BY <1>2 DEF PayloadsBuild, DecodedQuery, DecodedDiagnostic, DecodedStatus, DecodedDeletion
<1>4. Decoded(w) = CASE w.outcome = "success" /\ SuccessBuilds(r) -> r
                     [] w.outcome # "success" /\ w.reason # None /\ PayloadsBuild(r) ->
                           Failure(w.same, w.outcome, w.reason)
                     [] OTHER -> None
  BY DEF Decoded
<1>5. w.reason # None
  BY <1>2
<1> HIDE DEF w, r
<1>6. Decoded(w) = Failure(w.same, w.outcome, w.reason)
  BY <1>2, <1>3, <1>4, <1>5, Zenon
<1> QED BY <1>1, <1>2, <1>6 DEF w

\* A success that can be built is decoded as it was built.
LEMMA SuccessRead ==
    ASSUME NEW T, NoneApart(T), NEW r \in Responses(T),
           r.outcome = "success", r.reason = None, SuccessBuilds(r)
    PROVE  Decoded(Wire(r)) = r
<1> DEFINE w == Wire(r)
           d == [same |-> w.same, outcome |-> w.outcome, reason |-> None, state |-> w.state,
                 query |-> DecodedQuery(w.query), diagnostic |-> DecodedDiagnostic(w.diagnostic),
                 status |-> DecodedStatus(w.status), deletion |-> DecodedDeletion(w.deletion)]
<1>1. /\ w.same = r.same /\ w.outcome = "success" /\ w.state = r.state
      /\ w.diagnostic = r.diagnostic /\ w.deletion = r.deletion
      /\ w.query = IF r.query = None THEN None ELSE WireQuery(r.query)
      /\ w.status = IF r.status = None THEN None ELSE WireStatus(r.status)
  BY DEF Wire, Responses
<1>2. /\ r.query \in QueryPayloads(T) \cup {None} /\ r.status \in StatusPayloads(T) \cup {None}
      /\ r.diagnostic \in DiagnosticPayloads(T) \cup {None}
      /\ r.deletion \in DeletionPayloads(T) \cup {None}
  BY DEF Responses
<1>3. /\ r.query # None => QueryBuilds(r.query)
      /\ r.status # None => StatusBuilds(r.status)
  BY DEF SuccessBuilds, PayloadsBuild
<1> HIDE DEF w
<1>4. DecodedQuery(w.query) = r.query
  <2>1. CASE r.query = None
    BY <1>1, <2>1 DEF DecodedQuery
  <2>2. CASE r.query # None
    BY <1>1, <1>2, <1>3, <2>2, QueryRead
  <2> QED BY <2>1, <2>2
<1>5. DecodedStatus(w.status) = r.status
  <2>1. CASE r.status = None
    BY <1>1, <2>1 DEF DecodedStatus
  <2>2. CASE r.status # None
    BY <1>1, <1>2, <1>3, <2>2, StatusRead
  <2> QED BY <2>1, <2>2
<1>6. DecodedDiagnostic(w.diagnostic) = r.diagnostic /\ DecodedDeletion(w.deletion) = r.deletion
  BY <1>1, <1>2, DiagnosticRead, DeletionRead
<1>7. d = [same |-> r.same, outcome |-> "success", reason |-> None, state |-> r.state,
           query |-> r.query, diagnostic |-> r.diagnostic, status |-> r.status,
           deletion |-> r.deletion]
  BY <1>1, <1>4, <1>5, <1>6
<1>8. d = r
  BY <1>7 DEF Responses
<1>9. Decoded(w) = CASE w.outcome = "success" /\ SuccessBuilds(d) -> d
                     [] w.outcome # "success" /\ w.reason # None /\ PayloadsBuild(d) ->
                           Failure(w.same, w.outcome, w.reason)
                     [] OTHER -> None
  BY DEF Decoded
<1> HIDE DEF d
<1>10. Decoded(w) = d
  BY <1>1, <1>8, <1>9, Zenon
<1> QED BY <1>8, <1>10 DEF w

\* AnswerReadable of every response of the types of cli_contract.py, whatever texts it
\* holds and however many citations or entries: what CliResponse builds, the codec writes
\* and the client decodes is the same answer, or the failure that says it did not fit.
THEOREM EveryAnswerReadable ==
    ASSUME NEW T, NoneApart(T), NEW r \in Responses(T)
    PROVE  AnswerReadable(r)
<1> SUFFICES ASSUME Builds(r)
             PROVE  Decoded(Sent(r)) = IF Fits(r) THEN r
                                       ELSE Failure(r.same, "internal-failure", "ok")
  BY DEF AnswerReadable
<1>0. "ok" # None
  BY DEF NoneApart
<1>1. CASE ~Fits(r)
  BY <1>0, <1>1, FailureRead, Zenon DEF Sent
<1>2. CASE Fits(r) /\ r.outcome = "success"
  <2>1. r.reason = None /\ SuccessBuilds(r)
    BY <1>2 DEF Builds
  <2>2. Decoded(Wire(r)) = r
    BY <1>2, <2>1, SuccessRead
  <2> QED BY <1>2, <2>2, Zenon DEF Sent
<1>3. CASE Fits(r) /\ r.outcome # "success"
  <2>1. r = Failure(r.same, r.outcome, "ok")
    BY <1>3, Zenon DEF Builds
  <2>2. Decoded(Wire(r)) = r
    BY <1>0, <1>3, <2>1, FailureRead, Zenon
  <2> QED BY <1>3, <2>2, Zenon DEF Sent
<1> QED BY <1>1, <1>2, <1>3

-----------------------------------------------------------------------------
(* What a deletion selects, and what the timeline lists of it.             *)

\* A day does not end before it began.
LEMMA DayMonotone ==
    ASSUME NEW s \in Int, NEW t \in Int, s <= t
    PROVE  Day(s) \in Int /\ Day(t) \in Int /\ Day(s) <= Day(t)
<1> DEFINE q == DayLength
           a == s \div q
           b == t \div q
<1>1. q \in Nat \ {0}
  BY ScopeAssumption
<1>2. a \in Int /\ q * a <= s /\ s < q * a + q
  BY <1>1
<1>3. b \in Int /\ q * b <= t /\ t < q * b + q
  BY <1>1
<1> HIDE DEF a, b, q
<1>4. a <= b
  <2> SUFFICES ASSUME a >= b + 1 PROVE FALSE
    BY <1>2, <1>3
  <2>1. q * (a - (b + 1)) >= 0
    BY <1>1, <1>2, <1>3
  <2>2. q * (a - (b + 1)) = q * a - q * b - q
    BY <1>1, <1>2, <1>3
  <2>3. q * a \in Int /\ q * b \in Int
    BY <1>1, <1>2, <1>3
  <2>4. q * a >= q * b + q
    BY <1>1, <2>1, <2>2, <2>3
  <2> QED BY <1>1, <1>2, <1>3, <2>3, <2>4
<1> QED BY <1>2, <1>3, <1>4 DEF Day, a, b, q

\* What the storage lists: every record has a time and an identifier of its own.
Catalogued(catalogue) ==
    /\ IsFiniteSet(catalogue)
    /\ \A r \in catalogue : r.id \in Int /\ r.at \in Int
    /\ \A r, s \in catalogue : r.id = s.id => r = s

\* The records of a window.
Within(catalogue, start, end) ==
    {r \in catalogue : r.visible /\ start <= r.at /\ r.at < end}

\* A record of the window is in one of the days that are listed.
LEMMA WindowIsListed ==
    ASSUME NEW catalogue, Catalogued(catalogue), NEW start \in Int, NEW end \in Int,
           NEW r \in catalogue, start <= r.at, r.at < end
    PROVE  Day(r.at) \in CandidateDays(start, end)
<1>1. r.at \in Int /\ r.at <= end - 1 /\ end - 1 \in Int
  BY DEF Catalogued
<1>2. Day(start) <= Day(r.at) /\ Day(r.at) <= Day(end - 1)
  BY <1>1, DayMonotone
<1>3. Day(r.at) \in Int /\ Day(start) \in Int /\ Day(end - 1) \in Int
  BY <1>1, DayMonotone
<1> QED BY <1>2, <1>3 DEF CandidateDays

\* What a deletion by time selects, when it is not refused.
LEMMA RangeResolved ==
    ASSUME NEW catalogue, Catalogued(catalogue), NEW start \in Int, NEW end \in Int,
           ResolveTimeRange(catalogue, start, end).kind = "selected"
    PROVE  /\ ResolveTimeRange(catalogue, start, end).ids
                = {r.id : r \in Within(catalogue, start, end)}
           /\ ~CandidatesExceeded(catalogue, start, end)
<1> DEFINE chosen == {r \in Candidates(catalogue, start, end) :
                        r.visible /\ start <= r.at /\ r.at < end}
<1>1. chosen = Within(catalogue, start, end)
  BY WindowIsListed DEF Candidates, Within
<1>2. ResolveTimeRange(catalogue, start, end) = Selected(catalogue, start, end, chosen)
  BY DEF ResolveTimeRange
<1> HIDE DEF chosen
<1>3. Refused.kind # "selected"
  BY DEF Refused
<1>4. ~CandidatesExceeded(catalogue, start, end) /\ chosen # {}
  BY <1>2, <1>3, Zenon DEF Selected
<1>5. Selected(catalogue, start, end, chosen)
        = [kind |-> "selected", ids |-> {r.id : r \in chosen}]
  BY <1>4, Zenon DEF Selected
<1> QED BY <1>1, <1>2, <1>4, <1>5

\* The window a request gives becomes the window of its scope.
LEMMA RangeScope ==
    ASSUME NEW start, NEW end
    PROVE  \/ /\ start # None /\ ValidWindow(start, end)
              /\ ForTimeRange(start, end).kind = "time-range"
              /\ ForTimeRange(start, end).start = start /\ ForTimeRange(start, end).end = end
           \/ ForTimeRange(start, end).kind = "refused"
BY DEF ForTimeRange, NoScope

\* A deletion by time that is not refused is resolved with the bounds it was given.
LEMMA RangeResolve ==
    ASSUME NEW catalogue, NEW snapshot, NEW start, NEW end,
           Resolve(catalogue, snapshot, ForTimeRange(start, end)).kind = "selected"
    PROVE  /\ start # None /\ ValidWindow(start, end)
           /\ Resolve(catalogue, snapshot, ForTimeRange(start, end))
                = ResolveTimeRange(catalogue, start, end)
<1> DEFINE scope == ForTimeRange(start, end)
<1>1. Refused.kind # "selected"
  BY DEF Refused
<1>2. scope.kind \in {"time-range", "refused"}
  BY RangeScope
<1>3. scope.kind # "refused"
  <2> SUFFICES ASSUME scope.kind = "refused" PROVE FALSE
    OBVIOUS
  <2>1. Resolve(catalogue, snapshot, scope) = Refused
    <3> HIDE DEF scope
    <3> QED BY Zenon DEF Resolve
  <2> QED BY <1>1, <2>1
<1>4. scope.kind = "time-range" /\ scope.start = start /\ scope.end = end
      /\ start # None /\ ValidWindow(start, end)
  BY <1>2, <1>3, RangeScope
<1> HIDE DEF scope
<1>5. Resolve(catalogue, snapshot, scope) = ResolveTimeRange(catalogue, scope.start, scope.end)
  BY <1>4, Zenon DEF Resolve
<1> QED BY <1>4, <1>5 DEF scope

\* A request that gives records names no cluster.
LEMMA OneScope ==
    ASSUME NEW f, ValidateSingleScope(f), f.records # <<>>
    PROVE  f.cluster = None
<1> SUFFICES ASSUME f.cluster # None PROVE FALSE
  OBVIOUS
<1> DEFINE K == {"record-ids", "activity-cluster", "application", "time-range"}
           C == ScopeClasses(f)
<1>1. IsFiniteSet(K)
  <2>1. IsFiniteSet({"record-ids"})
    BY FS_Singleton
  <2>2. IsFiniteSet({"record-ids"} \cup {"activity-cluster"})
    BY <2>1, FS_AddElement
  <2>3. IsFiniteSet(({"record-ids"} \cup {"activity-cluster"}) \cup {"application"})
    BY <2>2, FS_AddElement
  <2>4. IsFiniteSet((({"record-ids"} \cup {"activity-cluster"}) \cup {"application"})
                    \cup {"time-range"})
    BY <2>3, FS_AddElement
  <2>5. K = (({"record-ids"} \cup {"activity-cluster"}) \cup {"application"}) \cup {"time-range"}
    OBVIOUS
  <2> QED BY <2>4, <2>5
<1>2. C \subseteq K /\ "record-ids" \in C /\ "activity-cluster" \in C
  BY DEF ScopeClasses
<1>3. IsFiniteSet(C) /\ Cardinality(C) = 1
  BY <1>1, <1>2, FS_Subset DEF ValidateSingleScope
<1>4. PICK x : C = {x}
  <2> HIDE DEF C
  <2> QED BY <1>3, FS_Singleton
<1> QED BY <1>2, <1>4

\* ScopeExact for every catalogue, snapshot and request: _deletion_scope and the resolver
\* select what the request names and nothing else.  The identifiers of clusters differ,
\* since cluster_identifier hashes their sources and no two clusters share one.
THEOREM ScopeIsExact ==
    ASSUME NEW catalogue, Catalogued(catalogue), NEW snapshot,
           \A c, d \in snapshot : c.id = d.id => c = d,
           NEW f, f.start \in Int \cup {None}, f.end \in Int \cup {None}
    PROVE  ScopeExact(catalogue, snapshot, f)
<1> DEFINE scope == DeletionScope(f)
           out == Resolve(catalogue, snapshot, scope)
<1> SUFFICES ASSUME Creates("delete-records", 0, 1, f), f.application = None, out.kind = "selected"
             PROVE  out.ids =
                CASE f.records # <<>> -> {UuidOf[f.records[i]] : i \in 1 .. Len(f.records)}
                  [] f.cluster # None ->
                        UNION {c.sources : c \in {d \in snapshot : d.id = f.cluster}}
                  [] OTHER -> {r.id : r \in {e \in catalogue :
                                  e.visible /\ f.start <= e.at /\ e.at < f.end}}
  BY Zenon DEF ScopeExact
<1>1. Refused.kind # "selected"
  BY DEF Refused
<1>2. (f.start = None) = (f.end = None)
  BY Zenon DEF Creates, ValidateTimeFilter
<1>3. f.records # <<>> => f.cluster = None
  BY OneScope DEF Creates
<1>4. CASE f.records # <<>>
  <2>1. scope = ForRecords(f.records)
    BY <1>4, Zenon DEF DeletionScope
  <2> DEFINE ids == {UuidOf[f.records[i]] : i \in 1 .. Len(f.records)}
  <2>2. \/ scope.kind = "record-ids" /\ scope.ids = ids
        \/ scope.kind = "refused"
    <3> DEFINE chosen == [NoScope EXCEPT !.kind = "record-ids", !.ids = ids]
    <3> HIDE DEF ids
    <3>1. chosen.kind = "record-ids" /\ chosen.ids = ids /\ NoScope.kind = "refused"
      BY DEF NoScope
    <3>2. scope = chosen \/ scope = NoScope
      BY <2>1, Zenon DEF ForRecords, ids
    <3> QED BY <3>1, <3>2
  <2> HIDE DEF scope, ids
  <2>3. scope.kind # "refused"
    <3> SUFFICES ASSUME scope.kind = "refused" PROVE FALSE
      OBVIOUS
    <3>1. out = Refused
      BY Zenon DEF Resolve
    <3> QED BY <1>1, <3>1
  <2>4. out = [kind |-> "selected", ids |-> scope.ids]
    BY <2>2, <2>3, Zenon DEF Resolve
  <2>5. out.ids = ids
    BY <2>2, <2>3, <2>4
  <2> QED BY <1>4, <1>3, <2>5 DEF ids
<1>5. CASE f.records = <<>> /\ f.cluster # None
  <2> DEFINE named == {d \in snapshot : d.id = f.cluster}
             c == CHOOSE x \in snapshot : Resolvable(x, f.cluster)
  <2>1. scope = ForCluster(f.cluster)
    BY <1>5, Zenon DEF DeletionScope
  <2>2. scope.kind = "activity-cluster" /\ scope.cluster = f.cluster
    BY <2>1 DEF ForCluster, NoScope
  <2>3. out = ResolveCluster(snapshot, f.cluster)
    <3> HIDE DEF scope
    <3>1. out = ResolveCluster(snapshot, scope.cluster)
      BY <2>2, Zenon DEF Resolve
    <3> QED BY <2>2, <3>1
  <2> HIDE DEF out, scope
  <2>4. \E x \in snapshot : Resolvable(x, f.cluster)
    BY <1>1, <2>3, Zenon DEF ResolveCluster
  <2>5. out = [kind |-> "selected", ids |-> c.sources]
    BY <2>3, <2>4, Zenon DEF ResolveCluster
  <2>6. c \in snapshot /\ c.id = f.cluster
    BY <2>4, Zenon DEF Resolvable
  <2> HIDE DEF c
  <2>7. named = {c}
    BY <2>6
  <2>8. UNION {d.sources : d \in named} = c.sources
    BY <2>7
  <2> QED BY <1>5, <2>5, <2>8
<1>6. CASE f.records = <<>> /\ f.cluster = None
  <2>1. scope = ForTimeRange(f.start, f.end)
    BY <1>6, Zenon DEF DeletionScope
  <2>2. f.start # None /\ out = ResolveTimeRange(catalogue, f.start, f.end)
    <3> HIDE DEF scope
    <3>1. Resolve(catalogue, snapshot, ForTimeRange(f.start, f.end)).kind = "selected"
      BY <2>1
    <3> QED BY <2>1, <3>1, RangeResolve
  <2>3. f.start \in Int /\ f.end \in Int
    BY <1>2, <2>2
  <2>4. out.ids = {r.id : r \in Within(catalogue, f.start, f.end)}
    BY <2>2, <2>3, RangeResolved
  <2> HIDE DEF out, scope
  <2> QED BY <1>6, <2>4, Zenon DEF Within
<1> QED BY <1>4, <1>5, <1>6

\* The records of a window that a listing puts before one of them: by day, then by identifier.
Earlier(M, r) ==
    {e \in M : Day(e.at) < Day(r.at) \/ (Day(e.at) = Day(r.at) /\ e.id < r.id)}

\* Of two records, the later one has more before it.
LEMMA EarlierGrows ==
    ASSUME NEW M, Catalogued(M), NEW r \in M, NEW s \in M, r # s
    PROVE  /\ IsFiniteSet(Earlier(M, r)) /\ Cardinality(Earlier(M, r)) \in Nat
           /\ Cardinality(Earlier(M, r)) # Cardinality(Earlier(M, s))
<1>0. IsFiniteSet(M) /\ \A x \in M : x.id \in Int /\ Day(x.at) \in Int
  BY DayMonotone DEF Catalogued
<1>1. \A x \in M : IsFiniteSet(Earlier(M, x)) /\ Cardinality(Earlier(M, x)) \in Nat
  <2> SUFFICES ASSUME NEW x \in M
               PROVE  IsFiniteSet(Earlier(M, x)) /\ Cardinality(Earlier(M, x)) \in Nat
    OBVIOUS
  <2>1. Earlier(M, x) \in SUBSET M
    BY DEF Earlier
  <2>2. IsFiniteSet(Earlier(M, x))
    BY <1>0, <2>1, FS_Subset
  <2> QED BY <2>2, FS_CardinalityType
<1>2. ASSUME NEW x \in M, NEW y \in M, x \in Earlier(M, y)
      PROVE  Cardinality(Earlier(M, x)) # Cardinality(Earlier(M, y))
  <2>1. Earlier(M, x) \in SUBSET Earlier(M, y)
    BY <1>0, <1>2 DEF Earlier
  <2>2. x \notin Earlier(M, x)
    BY <1>0 DEF Earlier
  <2>3. Earlier(M, x) # Earlier(M, y)
    BY <1>2, <2>2
  <2> QED BY <1>1, <2>1, <2>3, FS_Subset
<1>3. r \in Earlier(M, s) \/ s \in Earlier(M, r)
  <2>1. r.id # s.id
    BY DEF Catalogued
  <2> QED BY <1>0, <2>1 DEF Earlier
<1> QED BY <1>1, <1>2, <1>3

\* A listing with room for n of the records takes n of them, or all there are.
LEMMA ListingCounts ==
    ASSUME NEW M, Catalogued(M), NEW n \in Nat
    PROVE  LET E == {r \in M : Cardinality(Earlier(M, r)) < n}
           IN  /\ IsFiniteSet(E)
               /\ Cardinality(M) <= n => E = M
               /\ Cardinality(M) > n => Cardinality(E) = n
<1> DEFINE E == {r \in M : Cardinality(Earlier(M, r)) < n}
           N == Cardinality(M)
           rank == [r \in M |-> Cardinality(Earlier(M, r))]
<1>0. IsFiniteSet(M) /\ N \in Nat
  BY FS_CardinalityType DEF Catalogued
<1>1. \A r \in M : rank[r] \in 0 .. N - 1
  <2> SUFFICES ASSUME NEW r \in M PROVE Cardinality(Earlier(M, r)) \in 0 .. N - 1
    OBVIOUS
  <2>1. Earlier(M, r) \in SUBSET M
    BY DEF Earlier
  <2>2. r \notin Earlier(M, r)
    BY DayMonotone DEF Earlier, Catalogued
  <2>3. IsFiniteSet(Earlier(M, r)) /\ Cardinality(Earlier(M, r)) <= N
        /\ Cardinality(Earlier(M, r)) # N
    BY <1>0, <2>1, <2>2, FS_Subset
  <2>4. Cardinality(Earlier(M, r)) \in Nat
    BY <2>3, FS_CardinalityType
  <2> QED BY <1>0, <2>3, <2>4
<1>2. \A r, s \in M : rank[r] = rank[s] => r = s
  BY EarlierGrows
<1>3. \A r \in M : r \in E <=> rank[r] < n
  OBVIOUS
<1>4. E \subseteq M
  OBVIOUS
<1> HIDE DEF rank, E, N
<1>5. IsFiniteSet(E)
  BY <1>0, <1>4, FS_Subset
<1>6. ASSUME N <= n PROVE E = M
  BY <1>0, <1>1, <1>3, <1>4, <1>6
<1>7. ASSUME N > n PROVE Cardinality(E) = n
  <2>1. rank \in Injection(M, 0 .. N - 1)
    <3>1. rank \in [M -> 0 .. N - 1]
      BY <1>1 DEF rank
    <3> QED BY <1>2, <3>1 DEF Injection, IsInjective
  <2>2. IsFiniteSet(0 .. N - 1) /\ Cardinality(0 .. N - 1) = N
    BY <1>0, <1>7, FS_Interval
  <2>3. rank \in Surjection(M, 0 .. N - 1)
    BY <2>1, <2>2, FS_Injection DEF N
  <2>4. \A k \in 0 .. N - 1 : \E r \in M : rank[r] = k
    BY <2>3 DEF Surjection
  <2> DEFINE g == [r \in E |-> rank[r]]
  <2>5. g \in [E -> 0 .. n - 1]
    BY <1>0, <1>1, <1>3, <1>4
  <2>6. g \in Injection(E, 0 .. n - 1)
    <3>1. \A r, s \in E : g[r] = g[s] => r = s
      BY <1>2, <1>4
    <3> HIDE DEF g
    <3> QED BY <2>5, <3>1 DEF Injection, IsInjective
  <2>7. g \in Surjection(E, 0 .. n - 1)
    <3>1. \A k \in 0 .. n - 1 : \E r \in E : g[r] = k
      <4> SUFFICES ASSUME NEW k \in 0 .. n - 1 PROVE \E r \in E : g[r] = k
        OBVIOUS
      <4>1. k \in 0 .. N - 1 /\ k < n
        BY <1>0, <1>7
      <4>2. PICK r \in M : rank[r] = k
        BY <2>4, <4>1
      <4>3. r \in E
        BY <1>3, <4>1, <4>2
      <4> QED BY <4>2, <4>3
    <3> HIDE DEF g
    <3> QED BY <2>5, <3>1 DEF Surjection
  <2>8. IsFiniteSet(0 .. n - 1) /\ Cardinality(0 .. n - 1) = n
    BY FS_Interval
  <2>9. Cardinality(E) = Cardinality(0 .. n - 1)
    <3> HIDE DEF g
    <3> QED BY <2>6, <2>7, <2>8, FS_Injection
  <2> QED BY <2>8, <2>9
<1> QED BY <1>5, <1>6, <1>7, <1>0 DEF E, N

\* A part of a catalogue is one.
LEMMA WithinCatalogued ==
    ASSUME NEW catalogue, Catalogued(catalogue), NEW start, NEW end
    PROVE  /\ Catalogued(Within(catalogue, start, end))
           /\ Cardinality(catalogue) \in Nat
           /\ Cardinality(Within(catalogue, start, end)) \in Nat
           /\ Cardinality(Within(catalogue, start, end)) <= Cardinality(catalogue)
<1> DEFINE M == Within(catalogue, start, end)
<1>1. M \in SUBSET catalogue
  BY DEF Within
<1> HIDE DEF M
<1>2. IsFiniteSet(catalogue)
  BY DEF Catalogued
<1>3. IsFiniteSet(M) /\ Cardinality(M) <= Cardinality(catalogue)
  BY <1>1, <1>2, FS_Subset
<1>4. Catalogued(M)
  BY <1>1, <1>3 DEF Catalogued
<1>5. Cardinality(catalogue) \in Nat /\ Cardinality(M) \in Nat
  BY <1>2, <1>3, FS_CardinalityType
<1> QED BY <1>3, <1>4, <1>5 DEF M

\* When no limit of the candidates is met, every day of the window is listed.
LEMMA EntriesOfWindow ==
    ASSUME NEW catalogue, Catalogued(catalogue), NEW start \in Int, NEW end \in Int, NEW q,
           q.start = start, q.end = end, q.application = None,
           ~CandidatesExceeded(catalogue, start, end)
    PROVE  TimelineEntries(catalogue, q)
             = {r \in Within(catalogue, start, end) :
                  Cardinality(Earlier(Within(catalogue, start, end), r)) < q.limit}
<1> DEFINE M == Within(catalogue, start, end)
           matching == {r \in catalogue : /\ Day(r.at) \in ListedDays(catalogue, q)
                                          /\ r.visible /\ TimelineMatches(q, r)}
           before(r) == {e \in matching :
                           Day(e.at) < Day(r.at) \/ (Day(e.at) = Day(r.at) /\ e.id < r.id)}
           ofDay(d) == {r \in catalogue : Day(r.at) = d}
<1>0. DayQueryLimit \in Nat
  BY ScopeAssumption
<1>1. \A d \in CandidateDays(start, end) : Cardinality(ofDay(d)) < DayQueryLimit
  <2> SUFFICES ASSUME NEW d \in CandidateDays(start, end)
               PROVE  Cardinality(ofDay(d)) < DayQueryLimit
    OBVIOUS
  <2>1. ofDay(d) \in SUBSET catalogue /\ IsFiniteSet(catalogue)
    BY DEF Catalogued
  <2>2. ~(Cardinality(ofDay(d)) >= DayQueryLimit)
    BY DEF CandidatesExceeded
  <2> HIDE DEF ofDay
  <2>3. Cardinality(ofDay(d)) \in Nat
    BY <2>1, FS_Subset, FS_CardinalityType
  <2> QED BY <1>0, <2>2, <2>3
<1>2. ListedDays(catalogue, q) = CandidateDays(start, end)
  BY <1>1, Zenon DEF ListedDays
<1>3. matching = M
  BY <1>2, WindowIsListed DEF TimelineMatches, Within
<1>4. TimelineEntries(catalogue, q) = {r \in matching : Cardinality(before(r)) < q.limit}
  BY Zenon DEF TimelineEntries
<1>5. \A r : before(r) = Earlier(matching, r)
  BY Zenon DEF Earlier
<1> HIDE DEF matching, before, M
<1>6. TimelineEntries(catalogue, q) = {r \in M : Cardinality(Earlier(M, r)) < q.limit}
  BY <1>3, <1>4, <1>5
<1> QED BY <1>6 DEF M

\* Records have as many identifiers as there are records.
LEMMA CountedById ==
    ASSUME NEW M, Catalogued(M), NEW E \in SUBSET M
    PROVE  Cardinality({r.id : r \in E}) = Cardinality(E)
<1> DEFINE T == {r.id : r \in E}
           g == [r \in E |-> r.id]
<1>1. IsFiniteSet(E)
  BY FS_Subset DEF Catalogued
<1>2. g \in [E -> T]
  OBVIOUS
<1>3. \A t \in T : \E r \in E : g[r] = t
  OBVIOUS
<1>4. \A r, s \in E : g[r] = g[s] => r = s
  BY DEF Catalogued
<1> HIDE DEF T, g
<1>5. g \in Surjection(E, T) /\ g \in Injection(E, T)
  BY <1>2, <1>3, <1>4 DEF Surjection, Injection, IsInjective
<1>6. Cardinality(T) = Cardinality(E)
  BY <1>1, <1>5, FS_Surjection
<1> QED BY <1>6 DEF T

\* ListingMatchesDeletion for every catalogue, window and limit: the timeline shows exactly
\* the records that the deletion of the same window takes, and a truncated page is full.
\* The number of records before a record is a one-to-one numbering of them, which is why
\* a page is never short.
THEOREM ListingIsExact ==
    ASSUME NEW catalogue, Catalogued(catalogue), NEW start \in Int, NEW end \in Int,
           NEW limit \in Nat
    PROVE  ListingMatchesDeletion(catalogue, start, end, limit)
<1> DEFINE q == [start |-> start, end |-> end, application |-> None, limit |-> limit]
           p == [q EXCEPT !.limit = Cardinality(catalogue) + 1]
           page == Timeline(catalogue, q)
           out == Resolve(catalogue, {}, ForTimeRange(start, end))
           shown == {r.id : r \in page.entries}
           M == Within(catalogue, start, end)
           E == {r \in M : Cardinality(Earlier(M, r)) < limit}
<1> SUFFICES ASSUME out.kind = "selected"
             PROVE  /\ shown \subseteq out.ids
                    /\ ~page.truncated => shown = out.ids
                    /\ page.truncated => Cardinality(shown) = limit
  BY DEF ListingMatchesDeletion
<1>1. out = ResolveTimeRange(catalogue, start, end)
  BY RangeResolve
<1>2. out.ids = {r.id : r \in M} /\ ~CandidatesExceeded(catalogue, start, end)
  BY <1>1, RangeResolved
<1> HIDE DEF out
<1>3. q.start = start /\ q.end = end /\ q.application = None /\ q.limit = limit
  OBVIOUS
<1>4. /\ p.start = start /\ p.end = end /\ p.application = None
      /\ p.limit = Cardinality(catalogue) + 1
  OBVIOUS
<1>5. page.entries = TimelineEntries(catalogue, q)
      /\ page.truncated = (Cardinality(TimelineEntries(catalogue, p)) > q.limit)
  BY DEF Timeline
<1> HIDE DEF q, p, page
<1>6. /\ Catalogued(M) /\ Cardinality(catalogue) \in Nat /\ Cardinality(M) \in Nat
      /\ Cardinality(M) <= Cardinality(catalogue)
  BY WithinCatalogued
<1>7. page.entries = E
  BY <1>2, <1>3, <1>5, EntriesOfWindow
<1>8. TimelineEntries(catalogue, p) = M
  <2> DEFINE n == Cardinality(catalogue) + 1
  <2>1. TimelineEntries(catalogue, p) = {r \in M : Cardinality(Earlier(M, r)) < n}
    BY <1>2, <1>4, EntriesOfWindow
  <2>2. n \in Nat /\ Cardinality(M) <= n
    BY <1>6
  <2> HIDE DEF n, M
  <2>3. {r \in M : Cardinality(Earlier(M, r)) < n} = M
    BY <1>6, <2>2, ListingCounts
  <2> QED BY <2>1, <2>3
<1>9. page.truncated = (Cardinality(M) > limit)
  BY <1>3, <1>5, <1>8
<1> HIDE DEF M
<1>10. E \in SUBSET M /\ (Cardinality(M) <= limit => E = M)
       /\ (Cardinality(M) > limit => Cardinality(E) = limit)
  BY <1>6, ListingCounts
<1>11. Cardinality({r.id : r \in E}) = Cardinality(E)
  <2> HIDE DEF E
  <2> QED BY <1>6, <1>10, CountedById
<1> HIDE DEF E
<1>12. shown = {r.id : r \in E}
  BY <1>7
<1> HIDE DEF shown
<1>13. shown \subseteq out.ids
  BY <1>2, <1>10, <1>12
<1>14. ~page.truncated => shown = out.ids
  <2> SUFFICES ASSUME ~page.truncated PROVE shown = out.ids
    OBVIOUS
  <2>0. ~(Cardinality(M) > limit)
    BY <1>9, Zenon
  <2>1. Cardinality(M) <= limit
    BY <1>6, <2>0
  <2>2. E = M
    BY <1>10, <2>1
  <2> QED BY <1>2, <1>12, <2>2
<1>15. page.truncated => Cardinality(shown) = limit
  <2> SUFFICES ASSUME page.truncated PROVE Cardinality(shown) = limit
    OBVIOUS
  <2>1. Cardinality(M) > limit
    BY <1>9, Zenon
  <2> QED BY <1>10, <1>11, <1>12, <2>1, Zenon
<1> QED BY <1>13, <1>14, <1>15

-----------------------------------------------------------------------------
(* Times of the day, weekdays, idling, metadata, events and samples.       *)

\* The remainder of a number within one period of zero.
LEMMA ModNear ==
    ASSUME NEW n \in Nat \ {0}, NEW x \in Int
    PROVE  /\ 0 <= x /\ x < n => x % n = x
           /\ -n <= x /\ x < 0 => x % n = x + n
OBVIOUS

\* WindowReference for a day of any length: _in_time_window, which compares the hour with
\* both ends, agrees with going round the clock, past midnight too.
THEOREM WindowGoesRound ==
    ASSUME NEW hour \in 0 .. Hours - 1, NEW w \in [start : 0 .. Hours - 1, end : 0 .. Hours - 1],
           w.start # w.end
    PROVE  WindowReference(hour, w)
<1>1. Hours \in Nat \ {0}
  BY PolicyAssumption
<1> DEFINE s == w.start
           e == w.end
<1>2. s \in 0 .. Hours - 1 /\ e \in 0 .. Hours - 1 /\ s # e
  OBVIOUS
<1> HIDE DEF s, e
<1>3. (hour - s) % Hours = IF s <= hour THEN hour - s ELSE hour - s + Hours
  <2>1. hour - s \in Int /\ -Hours <= hour - s /\ hour - s < Hours
    BY <1>1, <1>2
  <2>2. CASE s <= hour
    <3>1. 0 <= hour - s
      BY <1>1, <1>2, <2>2
    <3> QED BY <1>1, <2>1, <2>2, <3>1, ModNear
  <2>3. CASE ~(s <= hour)
    <3>1. hour - s < 0
      BY <1>1, <1>2, <2>3
    <3> QED BY <1>1, <2>1, <2>3, <3>1, ModNear
  <2> QED BY <2>2, <2>3
<1>4. (e - s) % Hours = IF s <= e THEN e - s ELSE e - s + Hours
  <2>1. e - s \in Int /\ -Hours <= e - s /\ e - s < Hours
    BY <1>1, <1>2
  <2>2. CASE s <= e
    <3>1. 0 <= e - s
      BY <1>1, <1>2, <2>2
    <3> QED BY <1>1, <2>1, <2>2, <3>1, ModNear
  <2>3. CASE ~(s <= e)
    <3>1. e - s < 0
      BY <1>1, <1>2, <2>3
    <3> QED BY <1>1, <2>1, <2>3, <3>1, ModNear
  <2> QED BY <2>2, <2>3
<1>5. InWindow(hour, w) <=> IF s < e THEN s <= hour /\ hour < e ELSE hour >= s \/ hour < e
  BY DEF InWindow, s, e
<1>6. InWindow(hour, w) <=> (hour - s) % Hours < (e - s) % Hours
  BY <1>1, <1>2, <1>3, <1>4, <1>5
<1>7. InWindow(hour, w) \in BOOLEAN
  BY <1>2 DEF InWindow, s, e
<1> QED BY <1>6, <1>7 DEF WindowReference, s, e

\* WeekdayIsLatest for every day: the offset modulo 7 of _resolve_selector never reaches
\* into the future or past the last week.
THEOREM WeekdayLatest ==
    ASSUME NEW named \in DOMAIN Weekdays, NEW day \in Int
    PROVE  WeekdayIsLatest(named, day)
<1> DEFINE k == Weekdays[named]
           S == {d \in (day - 6) .. day : d % 7 = k}
           m == day - WeekdayOffset(day % 7, k)
<1>1. k \in 0 .. 6
  BY DEF Weekdays
<1>2. named # "today" /\ named # "yesterday"
  BY DEF Weekdays
<1>3. ResolveDay(named, day) = m
  BY <1>2, Zenon DEF ResolveDay
<1> HIDE DEF k
<1>4. m \in S
  BY <1>1 DEF WeekdayOffset
<1>5. \A d \in S : m >= d
  BY <1>1 DEF WeekdayOffset
<1> HIDE DEF m
<1>6. \A x \in S : (\A d \in S : x >= d) => x = m
  BY <1>4, <1>5
<1>7. Max(S) = m
  BY <1>4, <1>5, <1>6 DEF Max
<1> QED BY <1>3, <1>7, Zenon DEF WeekdayIsLatest, k

\* IdleOutweighs for all observations and all limits: resolve_idle_observations calls a
\* session active only when no current source finds it idle.
THEOREM IdleWins ==
    ASSUME NEW observations, NEW now \in Int, NEW maxAge \in Int, NEW skew \in Int,
           NEW threshold \in Int,
           \A i \in DOMAIN observations : observations[i].at \in Int
    PROVE  IdleOutweighs(observations, now, maxAge, skew, threshold)
<1> DEFINE states == [i \in DOMAIN observations |->
                        NormalIdle(observations[i], now, maxAge, skew, threshold)]
           current(o) == now - o.at >= -skew /\ now - o.at <= maxAge
           idle(o) == IF o.idle # None THEN o.idle >= 1000 * threshold ELSE o.state = "IDLE"
<1> SUFFICES ASSUME ResolveIdle(states) = "ACTIVE", NEW i \in DOMAIN observations,
                    current(observations[i]), idle(observations[i])
             PROVE  FALSE
  BY DEF IdleOutweighs
<1>1. states[i] = NormalIdle(observations[i], now, maxAge, skew, threshold)
  OBVIOUS
<1>2. NormalIdle(observations[i], now, maxAge, skew, threshold) = "IDLE"
  BY DEF NormalIdle
<1>3. states[i] \in Range(states)
  BY DEF Range
<1> HIDE DEF states
<1> QED BY <1>1, <1>2, <1>3 DEF ResolveIdle

\* What a method passes on, against what AuditEvent wants of the fields.
LEMMA FieldsOwed ==
    ASSUME NEW action \in AuditActions, NEW given,
           NEW fields, fields = [f \in Fields |-> FieldOf(action, f, given)]
    PROVE  /\ \/ ~ \A f \in Fields : fields[f] = None \/ Proper(f, fields[f])
              \/ ~ \A f \in RequiredFields(action) : fields[f] # None
              \/ \A f \in Carried(action) :
                    IF given[f] = None THEN f \notin RequiredFields(action) ELSE Proper(f, given[f])
           /\ \/ /\ \A f \in Fields : fields[f] = None \/ Proper(f, fields[f])
                 /\ \A f \in RequiredFields(action) : fields[f] # None
              \/ ~ \A f \in Carried(action) :
                    IF given[f] = None THEN f \notin RequiredFields(action) ELSE Proper(f, given[f])
<1>1. /\ RequiredFields(action) \subseteq Carried(action) /\ Carried(action) \subseteq Fields
      /\ "correlation" \notin RequiredFields(action)
  BY DEF RequiredFields, Carried, AuditActions, Fields, Uncorrelated
<1>2. Proper("correlation", 4)
  BY DEF Proper
<1>3. ASSUME NEW f \in Fields PROVE fields[f] = FieldOf(action, f, given)
  OBVIOUS
<1>4. ASSUME NEW f \in Carried(action), ~ (f = "correlation" /\ given[f] = None)
      PROVE  fields[f] = given[f]
  BY <1>1, <1>3, <1>4 DEF FieldOf
<1>5. ASSUME NEW f \in Fields, f \notin Carried(action) PROVE fields[f] = None \/ Proper(f, fields[f])
  BY <1>2, <1>3, <1>5 DEF FieldOf
<1>6. "correlation" \in Carried(action) /\ given["correlation"] = None
        => fields["correlation"] = 4
  <2> SUFFICES ASSUME "correlation" \in Carried(action), given["correlation"] = None
               PROVE  fields["correlation"] = 4
    OBVIOUS
  <2>1. fields["correlation"] = FieldOf(action, "correlation", given)
    BY <1>1, <1>3
  <2>2. FieldOf(action, "correlation", given) = 4
    BY DEF FieldOf
  <2> QED BY <2>1, <2>2
<1> QED BY <1>1, <1>2, <1>4, <1>5, <1>6, Zenon

\* RecorderEventsValid for every capability and whatever the callers hand over: the event
\* that a method of AuditRecorder builds passes the checks of AuditEvent exactly when the
\* values handed to it do.
THEOREM EventsAreValid ==
    ASSUME NEW capability \in {None} \cup Capabilities, NEW given
    PROVE  RecorderEventsValid(capability, given)
<1> SUFFICES ASSUME NEW action \in AuditActions, NEW ok \in BOOLEAN, NEW urgent \in BOOLEAN,
                    NEW scope \in ScopeFlags,
                    action = "ipc_request" /\ ok => capability # None
             PROVE  Valid(Recorded(action, ok, capability, scope, urgent, given))
                       <=> Owed(action, given)
  BY Zenon DEF RecorderEventsValid
<1> DEFINE e == Recorded(action, ok, capability, scope, urgent, given)
           on == e.attributes.on
<1>1. /\ e.action = action /\ e.category = CategoryOf(action)
      /\ e.fields = [f \in Fields |-> FieldOf(action, f, given)]
      /\ action = "ipc_request" => e.attributes = IpcAttributes(ok, capability, urgent, given)
      /\ action = "deletion_request" => e.attributes = DeletionAttributes(ok, scope, given)
  BY DEF Recorded
<1>3. e.fields["states"] # None => action = "lifecycle_transition"
  <2>1. "states" \in Carried(action) => action = "lifecycle_transition"
    BY DEF Carried, AuditActions, Uncorrelated
  <2>2. e.fields["states"] = FieldOf(action, "states", given)
    BY <1>1 DEF Fields
  <2> QED BY <2>1, <2>2 DEF FieldOf
<1>4. /\ e.attributes.names \subseteq AllowedAttributes
      /\ ExactAttributes(action) # None => e.attributes.names = ExactAttributes(action)
      /\ e.attributes.counts = [n \in e.attributes.names \cap CountNames |-> given.count]
      /\ e.attributes.names \cap CountNames # {} <=> action \in Counting
  <2>1. CASE action = "ipc_request"
    <3> DEFINE names == Capabilities \cup {"authorized", "urgent"}
    <3>1. e.attributes.names = names /\ e.attributes.counts = [n \in names \cap CountNames |-> given.count]
      BY <1>1, <2>1 DEF IpcAttributes, Attributes
    <3>2. ExactAttributes(action) = names
      BY <2>1 DEF ExactAttributes
    <3>3. names \subseteq AllowedAttributes /\ names \cap CountNames = {} /\ action \notin Counting
      BY <2>1 DEF AllowedAttributes, Capabilities, CountNames, Counting
    <3> HIDE DEF names, e
    <3> QED BY <3>1, <3>2, <3>3
  <2>2. CASE action = "deletion_request"
    BY <1>1, <2>2 DEF ExactAttributes, DeletionAttributes, Attributes, AllowedAttributes,
       CountNames, Counting, ScopeFlags
  <2>3. CASE action \in {"provider_selection", "record_deleted", "capture_decision"}
    BY <2>3 DEF Recorded, ExactAttributes, DecisionAttributes, Reported, Attributes,
       AllowedAttributes, CountNames, Counting
  <2>4. CASE action \in {"retention_sweep", "garbage_collection", "purge_all"}
    BY <2>4 DEF Recorded, ExactAttributes, MaintenanceAttributes, Reported, Attributes,
       AllowedAttributes, CountNames, Counting
  <2>5. CASE action \in {"restore_decision", "export_decision"}
    BY <2>5 DEF Recorded, ExactAttributes, ArchiveAttributes, Reported, Attributes,
       AllowedAttributes, CountNames, Counting
  <2>6. CASE action = "repair_operation"
    BY <2>6 DEF Recorded, ExactAttributes, RepairAttributes, Reported, Attributes,
       AllowedAttributes, CountNames, Counting
  <2>7. CASE action \in {"health_check", "visual_context_request", "lifecycle_transition",
                        "policy_decision", "record_rejected", "key_operation", "system_hardening"}
    BY <2>7 DEF Recorded, ExactAttributes, Reported, Attributes, AllowedAttributes, CountNames,
       Counting
  <2> QED BY <2>1, <2>2, <2>3, <2>4, <2>5, <2>6, <2>7 DEF AuditActions
<1>2. (\A n \in DOMAIN e.attributes.counts : e.attributes.counts[n] >= 0)
        <=> (action \in Counting => given.count >= 0)
  <2> DEFINE names == e.attributes.names \cap CountNames
             counts == e.attributes.counts
  <2>1. counts = [n \in names |-> given.count] /\ (names # {} <=> action \in Counting)
    BY <1>4
  <2> HIDE DEF names, counts
  <2>2. (\A n \in DOMAIN counts : counts[n] >= 0) <=> (action \in Counting => given.count >= 0)
    BY <2>1
  <2> QED BY <2>2 DEF counts
<1>5. action = "deletion_request" => Cardinality(on \cap ScopeFlags) = 1
  <2> SUFFICES ASSUME action = "deletion_request" PROVE Cardinality(on \cap ScopeFlags) = 1
    OBVIOUS
  <2>1. on \cap ScopeFlags = {scope}
    BY <1>1 DEF DeletionAttributes, Attributes, ScopeFlags
  <2> QED BY <2>1, FS_Singleton
<1>6. action = "ipc_request" =>
        Cardinality(on \cap Capabilities) \in (IF "authorized" \in on THEN {1} ELSE {0, 1})
  <2> SUFFICES ASSUME action = "ipc_request"
               PROVE  Cardinality(on \cap Capabilities)
                        \in (IF "authorized" \in on THEN {1} ELSE {0, 1})
    OBVIOUS
  <2>1. on = CapabilityOn(capability) \cup (IF ok THEN {"authorized"} ELSE {})
             \cup (IF urgent THEN {"urgent"} ELSE {})
    BY <1>1 DEF IpcAttributes, Attributes
  <2>2. on \cap Capabilities = {capability} \cap Capabilities
    BY <2>1 DEF CapabilityOn, Capabilities
  <2>3. "authorized" \in on => ok
    BY <2>1 DEF CapabilityOn, Capabilities
  <2>4. CASE capability \in Capabilities
    <3>1. on \cap Capabilities = {capability}
      BY <2>2, <2>4
    <3> QED BY <3>1, FS_Singleton
  <2>5. CASE capability \notin Capabilities
    <3>1. on \cap Capabilities = {}
      BY <2>2, <2>5
    <3>2. ~ok
      BY <2>5
    <3> QED BY <2>3, <3>1, <3>2, FS_EmptySet
  <2> QED BY <2>4, <2>5
<1> DEFINE WantsFields == /\ \A f \in Fields : e.fields[f] = None \/ Proper(f, e.fields[f])
                          /\ \A f \in RequiredFields(action) : e.fields[f] # None
           OwedFields == \A f \in Carried(action) :
               IF given[f] = None THEN f \notin RequiredFields(action) ELSE Proper(f, given[f])
<1>7. WantsFields <=> OwedFields
  <2> DEFINE fs == e.fields
  <2>1. fs = [f \in Fields |-> FieldOf(action, f, given)]
    BY <1>1
  <2> HIDE DEF fs, e
  <2>2. /\ (\A f \in Fields : fs[f] = None \/ Proper(f, fs[f]))
           /\ (\A f \in RequiredFields(action) : fs[f] # None) <=> OwedFields
    BY <2>1, FieldsOwed, Zenon
  <2> QED BY <2>2 DEF fs
<1> HIDE DEF e
<1>8. Valid(e) <=> WantsFields /\ (\A n \in DOMAIN e.attributes.counts : e.attributes.counts[n] >= 0)
  BY <1>1, <1>3, <1>4, <1>5, <1>6, Zenon DEF Valid
<1>9. Owed(action, given) <=> OwedFields /\ (action \in Counting => given.count >= 0)
  BY Zenon DEF Owed
<1> HIDE DEF WantsFields, OwedFields
<1> QED BY <1>2, <1>7, <1>8, <1>9 DEF e

\* A set of naturals has a least element.
LEMMA LeastOf ==
    ASSUME NEW S, S \subseteq Nat, S # {}
    PROVE  Min(S) \in S /\ \A n \in S : Min(S) <= n
<1>1. \A n, m \in Nat : n < m => <<n, m>> \in OpToRel(<, Nat)
  <2> SUFFICES ASSUME NEW n \in Nat, NEW m \in Nat, n < m PROVE <<n, m>> \in OpToRel(<, Nat)
    OBVIOUS
  <2>1. <<n, m>> \in Nat \X Nat
    OBVIOUS
  <2>2. <<n, m>>[1] < <<n, m>>[2]
    OBVIOUS
  <2> QED BY <2>1, <2>2, Zenon DEF OpToRel
<1>2. PICK m \in S : \A n \in S : ~ (<<n, m>> \in OpToRel(<, Nat))
  BY NatLessThanWellFounded, WFMin
<1>3. \A n \in S : ~ (n < m)
  BY <1>1, <1>2, Zenon
<1>4. \A n \in S : m <= n
  BY <1>3
<1> QED BY <1>4 DEF Min

\* The rank of a source is a number.
LEMMA RankIsNumber ==
    ASSUME NEW order \in Seq(Int), NEW source
    PROVE  Rank(source, order) \in Nat
<1> DEFINE S == {i \in DOMAIN order : order[i] = source}
<1>1. DOMAIN order = 1 .. Len(order) /\ Len(order) \in Nat
  OBVIOUS
<1>2. CASE source \in Range(order)
  <2>1. S \subseteq Nat /\ S # {}
    BY <1>1, <1>2 DEF Range
  <2>2. Min(S) \in Nat
    <3> HIDE DEF S
    <3> QED BY <2>1, LeastOf
  <2> QED BY <1>2, <2>2, Zenon DEF Rank
<1>3. CASE source \notin Range(order)
  BY <1>1, <1>3 DEF Rank
<1> QED BY <1>2, <1>3

\* What _winner_key compares of a candidate.
Comparable(c) == c.confidence \in Int /\ c.at \in Int /\ c.source \in Int

\* Of two candidates of different sources exactly one is before the other.
LEMMA BeforeIsTotal ==
    ASSUME NEW a, NEW b, Comparable(a), Comparable(b), a.source # b.source,
           NEW order \in Seq(Int)
    PROVE  /\ Before(a, b, order) <=> ~Before(b, a, order)
           /\ ~Before(a, a, order) /\ ~Before(b, b, order)
<1> DEFINE Key(c, d) == \/ c.confidence > d.confidence
                        \/ /\ c.confidence = d.confidence
                           /\ \/ Rank(c.source, order) < Rank(d.source, order)
                              \/ /\ Rank(c.source, order) = Rank(d.source, order)
                                 /\ c.at > d.at \/ (c.at = d.at /\ c.source < d.source)
<1>1. Rank(a.source, order) \in Int /\ Rank(b.source, order) \in Int
  BY RankIsNumber
<1>2. /\ a.confidence \in Int /\ a.at \in Int /\ a.source \in Int
      /\ b.confidence \in Int /\ b.at \in Int /\ b.source \in Int
  BY Zenon DEF Comparable
<1>3. (Key(a, b) <=> ~Key(b, a)) /\ ~Key(a, a) /\ ~Key(b, b)
  BY <1>1, <1>2, SMTT(30)
<1>4. \A c, d : Before(c, d, order) <=> Key(c, d)
  BY Zenon DEF Before
<1> HIDE DEF Key
<1> QED BY <1>3, <1>4, Zenon

\* The first of two wins when the other is not before it.
LEMMA WinnerOfTwo ==
    ASSUME NEW a, NEW b, Comparable(a), Comparable(b), a.source # b.source,
           NEW order \in Seq(Int)
    PROVE  Winner(<<a, b>>, order) = IF Before(a, b, order) THEN a ELSE b
<1> DEFINE c == <<a, b>>
           S == {i \in DOMAIN c : \A j \in DOMAIN c : ~Before(c[j], c[i], order)}
<1>1. DOMAIN c = {1, 2} /\ c[1] = a /\ c[2] = b
  OBVIOUS
<1>2. \A i \in {1, 2} : i \in S <=> ~Before(c[1], c[i], order) /\ ~Before(c[2], c[i], order)
  BY <1>1
<1>3. S = IF Before(a, b, order) THEN {1} ELSE {2}
  <2> HIDE DEF c
  <2> QED BY <1>1, <1>2, BeforeIsTotal
<1> HIDE DEF S, c
<1>4. S # {} /\ S \subseteq Nat
  BY <1>3
<1>5. Min(S) \in S
  BY <1>4, LeastOf
<1>6. Winner(c, order) = c[Min(S)]
  BY Zenon DEF Winner, S
<1> QED BY <1>1, <1>3, <1>5, <1>6 DEF c

\* ComposeOrderIrrelevant for all candidates and every configured order: _winner_key is a
\* total order of the candidates of different sources.
THEOREM CompositionIsStable ==
    ASSUME NEW a, NEW b, Comparable(a), Comparable(b), NEW order \in Seq(Int)
    PROVE  ComposeOrderIrrelevant(a, b, order)
<1> SUFFICES ASSUME a.source # b.source
             PROVE  Winner(<<a, b>>, order) = Winner(<<b, a>>, order)
  BY DEF ComposeOrderIrrelevant
<1>1. Winner(<<a, b>>, order) = IF Before(a, b, order) THEN a ELSE b
  BY WinnerOfTwo
<1>2. Winner(<<b, a>>, order) = IF Before(b, a, order) THEN b ELSE a
  BY WinnerOfTwo
<1>3. Before(a, b, order) <=> ~Before(b, a, order)
  BY BeforeIsTotal
<1>4. CASE Before(a, b, order)
  BY <1>1, <1>2, <1>3, <1>4
<1>5. CASE ~Before(a, b, order)
  BY <1>1, <1>2, <1>3, <1>5
<1> QED BY <1>4, <1>5

\* What a quotient of naturals is.
LEMMA Quotient ==
    ASSUME NEW p \in Nat, NEW q \in Nat \ {0}
    PROVE  p \div q \in Nat /\ q * (p \div q) <= p /\ p < q * (p \div q) + q
OBVIOUS

\* A sample lies in the image: the first at its start, the last at its end.
LEMMA SampleInside ==
    ASSUME NEW n \in Nat \ {0, 1}, NEW extent \in Nat \ {0}, NEW i \in 0 .. n - 1
    PROVE  /\ SampleCoordinate(i, n, extent) \in 0 .. extent - 1
           /\ SampleCoordinate(0, n, extent) = 0
           /\ SampleCoordinate(n - 1, n, extent) = extent - 1
<1>1. CASE extent = 1
  BY <1>1 DEF SampleCoordinate
<1>2. CASE extent # 1
  <2> DEFINE q == n - 1
             m == extent - 1
             d(j) == (j * m) \div q
  <2>1. q \in Nat \ {0} /\ m \in Nat \ {0} /\ i \in 0 .. q
    BY <1>2
  <2>2. \A j \in {0, i, q} : SampleCoordinate(j, n, extent) = d(j)
    BY <1>2 DEF SampleCoordinate
  <2> HIDE DEF q, m
  <2>3. 0 * m = 0 /\ i * m \in Nat /\ q * m \in Nat /\ i * m <= q * m
    <3>1. i * m \in Nat /\ q * m \in Nat /\ (q - i) * m \in Nat
      BY <2>1
    <3>2. (q - i) * m = q * m - i * m
      BY <2>1
    <3> QED BY <2>1, <3>1, <3>2
  <2>4. d(0) = 0
    BY <2>1, <2>3
  <2>5. d(q) = m
    BY <2>1, <2>3
  <2>6. d(i) \in 0 .. m
    <3>1. d(i) \in Nat /\ q * d(i) <= q * m
      BY <2>1, <2>3, Quotient
    <3>2. d(i) <= m
      <4> SUFFICES ASSUME d(i) >= m + 1 PROVE FALSE
        BY <2>1, <3>1
      <4>1. q * d(i) >= q * (m + 1)
        <5>1. q * (d(i) - (m + 1)) >= 0
          BY <2>1, <3>1
        <5> QED BY <2>1, <3>1, <5>1
      <4>2. q * (m + 1) = q * m + q
        BY <2>1
      <4> QED BY <2>1, <2>3, <3>1, <4>1, <4>2
    <3> QED BY <2>1, <3>1, <3>2
  <2> QED BY <2>1, <2>2, <2>4, <2>5, <2>6 DEF q, m
<1> QED BY <1>1, <1>2

\* A picture whose columns are bright up to dark, and its hash.
LEMMA EdgeIsSeen ==
    ASSUME NEW width \in Nat \ {0}, NEW height \in Nat \ {0}, NEW dark \in 0 .. width - 1
    PROVE  LET image == [y \in 0 .. height - 1 |->
                           [x \in 0 .. width - 1 |-> IF x > dark THEN 0 ELSE 1]]
           IN  (dark < width - 1) = (DHash(image, width, height) # {})
<1> DEFINE image == [y \in 0 .. height - 1 |->
                       [x \in 0 .. width - 1 |-> IF x > dark THEN 0 ELSE 1]]
           row(r) == SampleCoordinate(r, HashRows, height)
           col(c) == SampleCoordinate(c, HashColumns, width)
           hash == DHash(image, width, height)
<1>0. HashRows \in Nat \ {0, 1} /\ HashColumns \in Nat \ {0, 1}
  BY HashAssumption
<1>1. \A r \in 0 .. HashRows - 1 : row(r) \in 0 .. height - 1
  BY <1>0, SampleInside
<1>2. \A c \in 0 .. HashColumns - 1 : col(c) \in 0 .. width - 1
  BY <1>0, SampleInside
<1>3. col(0) = 0 /\ col(HashColumns - 1) = width - 1
  <2>1. 0 \in 0 .. HashColumns - 1
    BY <1>0
  <2> QED BY <1>0, <2>1, SampleInside
<1>4. hash = {rc \in (0 .. HashRows - 1) \X (0 .. HashColumns - 2) :
                image[row(rc[1])][col(rc[2])] > image[row(rc[1])][col(rc[2] + 1)]}
  BY DEF DHash
<1> HIDE DEF row, col, hash
<1>5. \A r \in 0 .. HashRows - 1, c \in 0 .. HashColumns - 1 :
         image[row(r)][col(c)] = IF col(c) > dark THEN 0 ELSE 1
  BY <1>1, <1>2
<1> HIDE DEF image
<1>6. \A r \in 0 .. HashRows - 1, c \in 0 .. HashColumns - 2 :
         image[row(r)][col(c)] > image[row(r)][col(c + 1)] <=> col(c) <= dark /\ col(c + 1) > dark
  <2> SUFFICES ASSUME NEW r \in 0 .. HashRows - 1, NEW c \in 0 .. HashColumns - 2
               PROVE  image[row(r)][col(c)] > image[row(r)][col(c + 1)]
                        <=> col(c) <= dark /\ col(c + 1) > dark
    OBVIOUS
  <2>1. c \in 0 .. HashColumns - 1 /\ c + 1 \in 0 .. HashColumns - 1
    BY <1>0
  <2>2. col(c) \in Int /\ col(c + 1) \in Int
    BY <1>2, <2>1
  <2>3. /\ image[row(r)][col(c)] = IF col(c) > dark THEN 0 ELSE 1
        /\ image[row(r)][col(c + 1)] = IF col(c + 1) > dark THEN 0 ELSE 1
    BY <1>5, <2>1
  <2> QED BY <2>2, <2>3
<1>7. ASSUME dark < width - 1 PROVE hash # {}
  <2> DEFINE S == {c \in 0 .. HashColumns - 1 : col(c) > dark}
             k == Min(S)
  <2>1. HashColumns - 1 \in S
    BY <1>0, <1>3, <1>7
  <2>2. S \subseteq Nat /\ S # {}
    BY <1>0, <2>1
  <2>3. k \in S /\ \A c \in S : k <= c
    <3> HIDE DEF S
    <3> QED BY <2>2, LeastOf
  <2> HIDE DEF k
  <2>4. k # 0
    BY <1>3, <2>3
  <2>5. k - 1 \in 0 .. HashColumns - 2 /\ k - 1 \in 0 .. HashColumns - 1 /\ (k - 1) + 1 = k
    BY <1>0, <2>3, <2>4
  <2>6. col(k) > dark /\ ~(col(k - 1) > dark)
    BY <1>0, <2>3, <2>5
  <2>7. col(k - 1) <= dark
    BY <1>2, <2>5, <2>6
  <2>8. 0 \in 0 .. HashRows - 1
    BY <1>0
  <2>9. image[row(0)][col(k - 1)] > image[row(0)][col((k - 1) + 1)]
    BY <1>6, <2>5, <2>6, <2>7, <2>8
  <2>10. <<0, k - 1>> \in hash
    BY <1>4, <2>5, <2>8, <2>9
  <2> QED BY <2>10
<1>8. ASSUME hash # {} PROVE dark < width - 1
  <2>1. PICK rc \in hash : TRUE
    BY <1>8
  <2>2. /\ rc[1] \in 0 .. HashRows - 1 /\ rc[2] \in 0 .. HashColumns - 2
        /\ image[row(rc[1])][col(rc[2])] > image[row(rc[1])][col(rc[2] + 1)]
    BY <1>4, <2>1
  <2>3. col(rc[2] + 1) > dark
    BY <1>6, <2>2
  <2>4. rc[2] + 1 \in 0 .. HashColumns - 1
    BY <1>0, <2>2
  <2> QED BY <1>2, <2>3, <2>4
<1>9. (dark < width - 1) = (hash # {})
  BY <1>7, <1>8
<1> QED BY <1>9 DEF hash, image

\* HashReadsInside for pictures of every size and every number of samples: the samples of
\* perceptual_dhash_rgb8 lie in the picture, the last on its edge, and every vertical edge
\* falls between two of them.
THEOREM HashStaysInside ==
    ASSUME NEW width \in Nat \ {0}, NEW height \in Nat \ {0}
    PROVE  HashReadsInside(width, height)
<1>0. HashRows \in Nat \ {0, 1} /\ HashColumns \in Nat \ {0, 1}
  BY HashAssumption
<1>1. \A r \in 0 .. HashRows - 1 : SampleCoordinate(r, HashRows, height) \in 0 .. height - 1
  BY <1>0, SampleInside
<1>2. \A c \in 0 .. HashColumns - 1 : SampleCoordinate(c, HashColumns, width) \in 0 .. width - 1
  BY <1>0, SampleInside
<1>3. SampleCoordinate(HashColumns - 1, HashColumns, width) = width - 1
  <2>1. 0 \in 0 .. HashColumns - 1
    BY <1>0
  <2> QED BY <1>0, <2>1, SampleInside
<1> QED BY <1>1, <1>2, <1>3, EdgeIsSeen, Zenon DEF HashReadsInside

-----------------------------------------------------------------------------
(* The answers of the instance have these types.                           *)


\* The bounded lists are sequences.
LEMMA UptoSeq ==
    ASSUME NEW S, NEW T, S \subseteq T, NEW n \in Nat, NEW s \in Upto(S, n)
    PROVE  s \in Seq(T)
<1>1. PICK k \in 0 .. n : s \in [1 .. k -> S]
  BY DEF Upto
<1>2. s \in [1 .. k -> T]
  BY <1>1
<1> QED BY <1>1, <1>2

\* The types of the instance: its times, queries, diagnostics, and other payloads.
LEMMA SomeTimes == {TimeAt(1), TimeAt(2), Naive} \subseteq Times
<1>1. \A n \in Int : TimeAt(n) \in Times
  BY DEF TimeAt, Times
<1>2. Naive \in Times
  <2>1. \A t \in Times : [t EXCEPT !.aware = FALSE] \in Times
    BY DEF Times
  <2> QED BY <1>1, <2>1 DEF Naive
<1> QED BY <1>1, <1>2

\* Queries.
LEMMA SomeQueriesTyped == SomeQueries \subseteq QueryPayloads(SomeTexts)
<1> DEFINE Citations == [record : SomeTexts, at : Times]
<1> SUFFICES ASSUME NEW q \in SomeQueries PROVE q \in QueryPayloads(SomeTexts)
  OBVIOUS
<1>1. SomeCitations \subseteq Citations
  BY SomeTimes DEF SomeCitations, SomeTexts
<1>2. q = [text |-> q.text, citations |-> q.citations] /\ q.text \in SomeTexts
      /\ q.citations \in Upto(SomeCitations, 2)
  BY DEF SomeQueries, SomeTexts
<1>3. q.citations \in Seq(Citations)
  <2> HIDE DEF Citations
  <2> QED BY <1>1, <1>2, UptoSeq
<1> QED BY <1>2, <1>3 DEF QueryPayloads

\* Diagnostics.
LEMMA SomeDiagnosticsTyped == SomeDiagnostics \subseteq DiagnosticPayloads(SomeTexts)
<1> DEFINE Entries == [name : SomeTexts, state : SomeTexts, value : SomeTexts \cup {None}]
<1> SUFFICES ASSUME NEW d \in SomeDiagnostics PROVE d \in DiagnosticPayloads(SomeTexts)
  OBVIOUS
<1>1. SomeEntries \subseteq Entries
  BY DEF SomeEntries, SomeTexts
<1>2. d = [category |-> d.category, entries |-> d.entries] /\ d.category \in SomeTexts
      /\ d.entries \in Upto(SomeEntries, 2)
  BY DEF SomeDiagnostics, SomeTexts
<1>3. d.entries \in Seq(Entries)
  <2> HIDE DEF Entries
  <2> QED BY <1>1, <1>2, UptoSeq
<1> QED BY <1>2, <1>3 DEF DiagnosticPayloads

\* Statuses and deletions.
LEMMA SomePayloadsTyped ==
    /\ SomeStatuses \subseteq StatusPayloads(SomeTexts)
    /\ SomeDeletions \subseteq DeletionPayloads(SomeTexts)
<1>1. SomeStatuses \subseteq StatusPayloads(SomeTexts)
  BY SomeTimes DEF SomeStatuses, StatusPayloads, SomeTexts
<1>2. SomeDeletions \subseteq DeletionPayloads(SomeTexts)
  BY DEF SomeDeletions, DeletionPayloads, SomeTexts
<1> QED BY <1>1, <1>2

\* The responses of the instance have the types of the contract.
LEMMA SomeResponsesTyped == SomeResponses \subseteq Responses(SomeTexts)
<1>1. BareResponses \subseteq Responses(SomeTexts)
  <2>1. \A b \in BOOLEAN, o \in {"success", "timeout"}, c \in {None, "ok"} : 
           Failure(b, o, c) \in Responses(SomeTexts)
    BY DEF Failure, Responses, Outcomes, SomeTexts
  <2>2. \A x \in Responses(SomeTexts), t \in {None, "off", "recording"} :
           [x EXCEPT !.state = t] \in Responses(SomeTexts)
    BY DEF Responses, SomeTexts
  <2> SUFFICES ASSUME NEW x \in BareResponses PROVE x \in Responses(SomeTexts)
    OBVIOUS
  <2>3. PICK b \in BOOLEAN, o \in {"success", "timeout"}, c \in {None, "ok"},
             t \in {None, "off", "recording"} : x = [Failure(b, o, c) EXCEPT !.state = t]
    BY DEF BareResponses
  <2> QED BY <2>1, <2>2, <2>3
<1>2. \A x \in Responses(SomeTexts), q \in QueryPayloads(SomeTexts) :
         [x EXCEPT !.query = q] \in Responses(SomeTexts)
  BY DEF Responses
<1>3. \A x \in Responses(SomeTexts), d \in DiagnosticPayloads(SomeTexts) :
         [x EXCEPT !.diagnostic = d] \in Responses(SomeTexts)
  BY DEF Responses
<1>4. \A x \in Responses(SomeTexts), t \in StatusPayloads(SomeTexts) :
         [x EXCEPT !.status = t] \in Responses(SomeTexts)
  BY DEF Responses
<1>5. \A x \in Responses(SomeTexts), d \in DeletionPayloads(SomeTexts) :
         [x EXCEPT !.deletion = d] \in Responses(SomeTexts)
  BY DEF Responses
<1>6. \A x \in Responses(SomeTexts), d \in DeletionPayloads(SomeTexts) :
         WithTwo(x, d) \in Responses(SomeTexts)
  <2>1. [text |-> "text", citations |-> <<>>] \in QueryPayloads(SomeTexts)
    BY DEF QueryPayloads, SomeTexts
  <2>2. \A x \in Responses(SomeTexts), d \in DeletionPayloads(SomeTexts),
          q \in QueryPayloads(SomeTexts) :
             [x EXCEPT !.deletion = d, !.query = q] \in Responses(SomeTexts)
    BY DEF Responses
  <2> QED BY <2>1, <2>2, Zenon DEF WithTwo
<1> DEFINE S == Responses(SomeTexts)
           WithQuery == {[x EXCEPT !.query = q] : x \in BareResponses, q \in SomeQueries}
           WithDiagnostic ==
               {[x EXCEPT !.diagnostic = d] : x \in BareResponses, d \in SomeDiagnostics}
           WithStatus == {[x EXCEPT !.status = t] : x \in BareResponses, t \in SomeStatuses}
           WithDeletion == {[x EXCEPT !.deletion = d] : x \in BareResponses, d \in SomeDeletions}
           WithBoth == {WithTwo(x, d) : x \in BareResponses, d \in SomeDeletions}
<1>7. WithQuery \subseteq S
  <2>1. \A x \in BareResponses, q \in SomeQueries : [x EXCEPT !.query = q] \in S
    BY <1>1, <1>2, SomeQueriesTyped, Zenon
  <2> HIDE DEF S
  <2> QED BY <2>1
<1>8. WithDiagnostic \subseteq S
  <2>1. \A x \in BareResponses, d \in SomeDiagnostics : [x EXCEPT !.diagnostic = d] \in S
    BY <1>1, <1>3, SomeDiagnosticsTyped, Zenon
  <2> HIDE DEF S
  <2> QED BY <2>1
<1>9. WithStatus \subseteq S
  <2>1. \A x \in BareResponses, t \in SomeStatuses : [x EXCEPT !.status = t] \in S
    BY <1>1, <1>4, SomePayloadsTyped, Zenon
  <2> HIDE DEF S
  <2> QED BY <2>1
<1>10. WithDeletion \subseteq S
  <2>1. \A x \in BareResponses, d \in SomeDeletions : [x EXCEPT !.deletion = d] \in S
    BY <1>1, <1>5, SomePayloadsTyped, Zenon
  <2> HIDE DEF S
  <2> QED BY <2>1
<1>11. WithBoth \subseteq S
  <2>1. \A x \in BareResponses, d \in SomeDeletions : WithTwo(x, d) \in S
    BY <1>1, <1>6, SomePayloadsTyped, Zenon
  <2> HIDE DEF S
  <2> QED BY <2>1
<1>12. SomeResponses =
          BareResponses \cup WithQuery \cup WithDiagnostic \cup WithStatus
          \cup WithDeletion \cup WithBoth
  BY DEF SomeResponses
<1> HIDE DEF S, WithQuery, WithDiagnostic, WithStatus, WithDeletion, WithBoth
<1>13. BareResponses \subseteq S
  BY <1>1 DEF S
<1>14. SomeResponses \subseteq S
  BY <1>7, <1>8, <1>9, <1>10, <1>11, <1>12, <1>13
<1> QED BY <1>14 DEF S

\* The input of a decision, once there is one, is of the bounded set.
InputInv == input # None => input \in Decisions

\* What an input holds.
LEMMA DecidedInput ==
    ASSUME NEW d \in Decisions
    PROVE  /\ d.kind = "scope" => d.catalogue \in Catalogues
           /\ d.kind = "response" => d.response \in SomeResponses
           /\ d.kind = "compose" => d.first \in SomeCandidates /\ d.second \in SomeCandidates
           /\ d.kind = "idle" => d.observations \in Upto(IdleObservations, 2)
           /\ d.kind = "audit" => d.capability \in {None} \cup Capabilities
           /\ d.kind = "day" => d.day \in 0 .. 20 /\ d.named \in DOMAIN Weekdays
           /\ d.kind = "picture" => d.width \in 1 .. 20 /\ d.height \in 1 .. 10
BY DEF Decisions

\* InputInv is inductive: no step changes an input that was handed over.
LEMMA InputInvariance == Spec => []InputInv
<1>1. Init => InputInv
  BY DEF Init, InputInv
<1>2. InputInv /\ [Next]_vars => InputInv'
  <2> SUFFICES ASSUME InputInv, [Next]_vars PROVE InputInv'
    OBVIOUS
  <2>1. input' = input \/ input' \in Decisions
    BY Zenon DEF Next, vars, Decide
  <2> QED BY <2>1 DEF InputInv
<1> QED BY <1>1, <1>2, PTL DEF Spec

\* ClientTruthful: every answer of the instance is read as it was built, and an exit code
\* of 0 is proof for it.
THEOREM ClientNeverMisled == Spec => []ClientTruthful
<1>1. InputInv => ClientTruthful
  <2> SUFFICES ASSUME InputInv, About("response")
               PROVE  /\ AnswerReadable(input.response)
                      /\ \A c \in Commands : ExitZeroIsProof(c, Wire(input.response))
    BY DEF ClientTruthful, AnswersReadable, ExitZeroProves
  <2>1. input.response \in SomeResponses
    BY DecidedInput DEF InputInv, About
  <2>2. input.response \in Responses(SomeTexts)
    BY <2>1, SomeResponsesTyped
  <2>3. AnswerReadable(input.response)
    BY <2>2, SomeNoneApart, EveryAnswerReadable
  <2>4. \A c \in Commands : ExitZeroIsProof(c, Wire(input.response))
    BY ExitZeroProof
  <2> QED BY <2>3, <2>4
<1> QED BY <1>1, InputInvariance, PTL

\* The catalogues of the instance hold records with identifiers of their own.
LEMMA SomeCatalogued ==
    ASSUME NEW catalogue \in Catalogues
    PROVE  Catalogued(catalogue)
<1> DEFINE R == CatalogueEntries
           Entries == [id : Int, at : Int, application : {"ok", "other"}, visible : BOOLEAN]
<1>1. \A a \in R : a \in Entries /\ a.id = 1
  BY DEF CatalogueEntries
<1>2. \A a \in Entries, n \in Int : [a EXCEPT !.id = n] \in Entries /\ [a EXCEPT !.id = n].id = n
  OBVIOUS
<1>3. \A a \in Entries, n, t \in Int : [a EXCEPT !.id = n, !.at = t] \in Entries
  OBVIOUS
<1>4. \A a \in Entries, n, t \in Int : [a EXCEPT !.id = n, !.at = t].id = n
  OBVIOUS
<1>5. \E x, y, z \in Entries : /\ catalogue = {x, y, z} /\ x.id = 1 /\ y.id = 2
                               /\ z = y \/ z.id = 3
  <2>1. ASSUME NEW a \in R, NEW b \in R, catalogue = TwoRecords(a, b)
        PROVE  \E x, y, z \in Entries : /\ catalogue = {x, y, z} /\ x.id = 1 /\ y.id = 2
                                        /\ z = y \/ z.id = 3
    <3> DEFINE y == [b EXCEPT !.id = 2]
    <3>2. a \in Entries /\ a.id = 1 /\ b \in Entries
      BY <1>1
    <3>3. y \in Entries /\ y.id = 2
      BY <1>2, <3>2
    <3>4. catalogue = {a, y, y}
      BY <2>1 DEF TwoRecords
    <3> HIDE DEF y, Entries
    <3> QED BY <3>2, <3>3, <3>4, Zenon
  <2>2. ASSUME NEW a \in R, catalogue = ThreeRecords(a)
        PROVE  \E x, y, z \in Entries : /\ catalogue = {x, y, z} /\ x.id = 1 /\ y.id = 2
                                        /\ z = y \/ z.id = 3
    <3> DEFINE y == [a EXCEPT !.id = 2]
               z == [a EXCEPT !.id = 3, !.at = 3]
    <3>2. a \in Entries /\ a.id = 1
      BY <1>1
    <3>3. y \in Entries /\ y.id = 2
      BY <1>2, <3>2
    <3>4. z \in Entries /\ z.id = 3
      <4>1. 3 \in Int
        OBVIOUS
      <4> HIDE DEF Entries
      <4> QED BY <1>3, <1>4, <3>2, <4>1, ZenonT(30)
    <3>5. catalogue = {a, y, z}
      BY <2>2 DEF ThreeRecords
    <3> HIDE DEF y, z, Entries
    <3> QED BY <3>2, <3>3, <3>4, <3>5, Zenon
  <2>3. (\E a, b \in R : catalogue = TwoRecords(a, b)) \/ (\E a \in R : catalogue = ThreeRecords(a))
    BY DEF Catalogues
  <2> QED BY <2>1, <2>2, <2>3
<1>6. PICK x \in Entries, y \in Entries, z \in Entries :
         /\ catalogue = {x, y, z} /\ x.id = 1 /\ y.id = 2
         /\ z = y \/ z.id = 3
  BY <1>5
<1>7. IsFiniteSet(catalogue)
  <2>1. IsFiniteSet({x} \cup {y})
    BY FS_Singleton, FS_AddElement
  <2>2. IsFiniteSet(({x} \cup {y}) \cup {z})
    BY <2>1, FS_AddElement
  <2>3. catalogue = ({x} \cup {y}) \cup {z}
    BY <1>6
  <2> QED BY <2>2, <2>3
<1>8. \A r \in catalogue : r.id \in Int /\ r.at \in Int
  BY <1>6
<1>9. \A r, s \in catalogue : r.id = s.id => r = s
  BY <1>6
<1> QED BY <1>7, <1>8, <1>9 DEF Catalogued

\* DecisionsSound: every decision of the instance agrees with its reference, by the
\* theorems above.
THEOREM DecisionsAlwaysSound == Spec => []DecisionsSound
<1>1. InputInv => DecisionsSound
  <2> SUFFICES ASSUME InputInv PROVE DecisionsSound
    OBVIOUS
  <2>0. \A kind : About(kind) => input \in Decisions /\ input.kind = kind
    BY Zenon DEF About, InputInv
  <2>1. DeletionScopeExact
    <3> SUFFICES ASSUME About("scope"), NEW f \in RequestFields, NEW x \in ClusterSnapshots
                 PROVE  ScopeExact(input.catalogue, x, f)
      BY DEF DeletionScopeExact
    <3>1. Catalogued(input.catalogue)
      BY <2>0, DecidedInput, SomeCatalogued
    <3>2. \A c, d \in x : c.id = d.id => c = d
      <4>1. PICK s \in {{1, 2}, {1, 2, 4}} :
              x = {[id |-> "ok", sources |-> s], [id |-> "other", sources |-> {3}]}
        BY DEF ClusterSnapshots
      <4> QED BY <4>1
    <3>3. f.start \in Int \cup {None} /\ f.end \in Int \cup {None}
      BY DEF RequestFields
    <3> QED BY <3>1, <3>2, <3>3, ScopeIsExact
  <2>2. ListingIsDeletion
    <3> SUFFICES ASSUME About("scope"), NEW w \in [start : 0 .. 3, end : 1 .. 4], NEW n \in 1 .. 3
                 PROVE  ListingMatchesDeletion(input.catalogue, w.start, w.end, n)
      BY DEF ListingIsDeletion
    <3>1. Catalogued(input.catalogue)
      BY <2>0, DecidedInput, SomeCatalogued
    <3>2. w.start \in Int /\ w.end \in Int /\ n \in Nat
      OBVIOUS
    <3> QED BY <3>1, <3>2, ListingIsExact
  <2>3. WindowsGoRound
    <3> SUFFICES ASSUME About("day"), NEW w \in [start : 0 .. Hours - 1, end : 0 .. Hours - 1],
                        w.start # w.end
                 PROVE  WindowReference(input.day % Hours, w)
      BY DEF WindowsGoRound
    <3>1. input.day \in 0 .. 20 /\ Hours \in Nat \ {0}
      BY <2>0, DecidedInput, PolicyAssumption
    <3>2. input.day % Hours \in 0 .. Hours - 1
      BY <3>1
    <3> QED BY <3>2, WindowGoesRound
  <2>4. CompositionStable
    <3> SUFFICES ASSUME About("compose"), NEW order \in {<< >>, << 1 >>, << 2, 1 >>}
                 PROVE  ComposeOrderIrrelevant(input.first, input.second, order)
      BY DEF CompositionStable
    <3>1. input.first \in SomeCandidates /\ input.second \in SomeCandidates
      BY <2>0, DecidedInput
    <3>2. \A c \in SomeCandidates : Comparable(c)
      BY DEF SomeCandidates, Comparable
    <3>3. <<>> \in Seq(Int) /\ << 1 >> \in Seq(Int) /\ << 2, 1 >> \in Seq(Int)
      OBVIOUS
    <3>4. order \in Seq(Int)
      BY <3>3
    <3> QED BY <3>1, <3>2, <3>4, CompositionIsStable
  <2>5. IdleDecides
    <3> SUFFICES ASSUME About("idle") PROVE IdleOutweighs(input.observations, 5, 2, 0, 3)
      BY DEF IdleDecides
    <3>1. input.observations \in Upto(IdleObservations, 2)
      BY <2>0, DecidedInput
    <3>2. PICK k \in 0 .. 2 : input.observations \in [1 .. k -> IdleObservations]
      BY <3>1 DEF Upto
    <3>3. \A i \in DOMAIN input.observations : input.observations[i].at \in Int
      <4>1. \A o \in IdleObservations : o.at \in Int
        BY DEF IdleObservations, XorgIdle, ActivityWatchIdle, UnknownIdle
      <4> QED BY <3>2, <4>1
    <3>4. 5 \in Int /\ 2 \in Int /\ 0 \in Int /\ 3 \in Int
      OBVIOUS
    <3> QED BY <3>3, <3>4, IdleWins, Zenon
  <2>6. HashInside
    <3> SUFFICES ASSUME About("picture") PROVE HashReadsInside(input.width, input.height)
      BY DEF HashInside
    <3>1. input.width \in Nat \ {0} /\ input.height \in Nat \ {0}
      BY <2>0, DecidedInput
    <3> QED BY <3>1, HashStaysInside
  <2>7. EventsValid
    BY <2>0, DecidedInput, EventsAreValid DEF EventsValid
  <2>8. WeekdaysLatest
    <3> SUFFICES ASSUME About("day") PROVE WeekdayIsLatest(input.named, input.day)
      BY DEF WeekdaysLatest
    <3>1. input.named \in DOMAIN Weekdays /\ input.day \in Int
      BY <2>0, DecidedInput
    <3> QED BY <3>1, WeekdayLatest
  <2> QED BY <2>1, <2>2, <2>3, <2>4, <2>5, <2>6, <2>7, <2>8 DEF DecisionsSound
<1> QED BY <1>1, InputInvariance, PTL
=============================================================================
