--------------------------- MODULE LazyFSConnection ---------------------------
(***************************************************************************)
(* The WebSocket lifecycle of LazyFS (lazyfs_connection.js): one shared    *)
(* connection attempt with bounded retries, a table of pending requests    *)
(* that is replayed on every new connection, per-request timers, terminal  *)
(* failure and the reset of it by a foreground retry.                      *)
(*                                                                         *)
(* The browser runs one event handler at a time and then drains the queue  *)
(* of promise jobs.  An action below is one handler up to the first job it *)
(* queues; the send jobs of sendPendingRequest are actions of their own,   *)
(* and no handler runs while one is queued.                                *)
(*                                                                         *)
(* The assets server is reduced to what the connection sees of it: it      *)
(* answers a request it received once, or replies with an error frame that *)
(* names no request.                                                       *)
(*                                                                         *)
(* X_Fault is a faulty variant of the operator X that follows it: the same *)
(* code with a plausible slip.  The specification never uses it; it serves *)
(* to see that a property notices the slip.                                *)
(***************************************************************************)
EXTENDS Naturals, FiniteSets

CONSTANTS
  Keys,            \* request keys: "size:<file>", "batch:<file>:<a>:<b>", ...
  Requests,        \* identities of the request() calls that create an entry
  KeyOf,           \* the key each of them asks for
  ProbeKey,        \* the key the keep-alive's get_size answer resolves
  NoRequest,       \* "no entry under this key"
  MaxDelays,       \* RECONNECT_DELAYS_MS.length
  MaxConnections   \* bound: number of sockets that ever open

ASSUME ConnectionAssumption ==
  /\ KeyOf \in [Requests -> Keys]
  /\ ProbeKey \in Keys
  /\ NoRequest \notin Requests
  /\ MaxDelays \in Nat
  /\ MaxConnections \in Nat

VARIABLES
  ws,                        \* this.ws and the state of that socket
  wsConnected,
  loop,                      \* where connectWithRetry is; "idle": connectionPromise = null
  attempt,
  connectionGeneration,
  terminalConnectionFailure,
  shuttingDown,
  keepAliveTimer,            \* armed or not
  pendingRequests,           \* key -> the request whose entry is stored there
  lastGeneration,            \* the entry's lastGeneration field
  fate,                      \* of each request's promise
  waiters,                   \* send thunks chained on connectionPromise, per key
  jobs,                      \* send thunks whose connect() has resolved, per key
  atServer,                  \* copies of a request travelling to the server
  answers,                   \* answers to a request travelling back
  refused,                   \* requests answered by an error frame on this connection
  probe                      \* the keep-alive's get_size on this connection

connection == <<ws, wsConnected, loop, attempt, connectionGeneration,
                terminalConnectionFailure, shuttingDown, keepAliveTimer>>
table == <<pendingRequests, lastGeneration, fate>>
promiseJobs == <<waiters, jobs>>
wire == <<atServer, answers, refused, probe>>
vars == <<connection, table, promiseJobs, wire>>

Nothing == [r \in Requests |-> 0]
NoThunks == [k \in Keys |-> 0]

TypeOK ==
  /\ ws \in {"null", "connecting", "failed", "open", "closing"}
  /\ wsConnected \in BOOLEAN
  /\ loop \in {"idle", "dialing", "delay"}
  /\ attempt \in 0 .. MaxDelays
  /\ connectionGeneration \in Nat
  /\ terminalConnectionFailure \in BOOLEAN
  /\ shuttingDown \in BOOLEAN
  /\ keepAliveTimer \in BOOLEAN
  /\ pendingRequests \in [Keys -> Requests \cup {NoRequest}]
  /\ lastGeneration \in [Requests -> Nat]
  /\ fate \in [Requests -> {"new", "pending", "resolved", "rejected"}]
  /\ waiters \in [Keys -> Nat]
  /\ jobs \in [Keys -> Nat]
  /\ atServer \in [Requests -> Nat]
  /\ answers \in [Requests -> Nat]
  /\ refused \subseteq Requests
  /\ probe \in {"none", "asked", "answered"}

Init ==
  /\ ws = "null"
  /\ wsConnected = FALSE
  /\ loop = "idle"
  /\ attempt = 0
  /\ connectionGeneration = 0
  /\ terminalConnectionFailure = FALSE
  /\ shuttingDown = FALSE
  /\ keepAliveTimer = FALSE
  /\ pendingRequests = [k \in Keys |-> NoRequest]
  /\ lastGeneration = Nothing
  /\ fate = [r \in Requests |-> "new"]
  /\ waiters = NoThunks
  /\ jobs = NoThunks
  /\ atServer = Nothing
  /\ answers = Nothing
  /\ refused = {}
  /\ probe = "none"

-----------------------------------------------------------------------------
(* The event loop: a handler starts only when no promise job is queued.    *)

JobsDone == \A k \in Keys : jobs[k] = 0

\* request() and prefetchFileRange() refuse work after a terminal failure.
AcceptsRequests_Fault == TRUE
AcceptsRequests == ~terminalConnectionFailure

\* The lastGeneration check of sendPendingRequest.
AlreadySent_Fault(r) == FALSE
AlreadySent(r) == lastGeneration[r] = connectionGeneration

\* replayPendingRequests queues one thunk per entry.
ReplayThunks_Fault(k) == 0
ReplayThunks(k) == IF pendingRequests[k] = NoRequest THEN 0 ELSE 1

\* The for loop of connectWithRetry: attempt 0 .. RECONNECT_DELAYS_MS.length.
AttemptsLeft_Fault == attempt <= MaxDelays
AttemptsLeft == attempt < MaxDelays

NextAttempt_Fault == attempt
NextAttempt == attempt + 1

\* onclose of an opened socket dials again unless the page unloads.
Reconnects_Fault == FALSE
Reconnects == ~shuttingDown /\ ~terminalConnectionFailure

\* connect() with no connection and no attempt under way: the first dial is
\* synchronous, unless the page is unloading and connectWithRetry throws.
StartConnecting ==
  IF shuttingDown
  THEN UNCHANGED <<ws, loop, attempt>>
  ELSE /\ ws' = "connecting"
       /\ loop' = "dialing"
       /\ attempt' = 0

ForgetWire ==
  /\ atServer' = Nothing
  /\ answers' = Nothing
  /\ refused' = {}
  /\ probe' = "none"

\* A terminal failure rejects every pending request and empties the table.
RejectAllPending_Fault ==
  /\ UNCHANGED fate
  /\ pendingRequests' = [k \in Keys |-> NoRequest]

RejectAllPending ==
  /\ fate' = [r \in Requests |->
                IF pendingRequests[KeyOf[r]] = r THEN "rejected" ELSE fate[r]]
  /\ pendingRequests' = [k \in Keys |-> NoRequest]

Settle_Fault(k, outcome) ==
  /\ UNCHANGED fate
  /\ pendingRequests' = [pendingRequests EXCEPT ![k] = NoRequest]

Settle(k, outcome) ==
  /\ fate' = [fate EXCEPT ![pendingRequests[k]] = outcome]
  /\ pendingRequests' = [pendingRequests EXCEPT ![k] = NoRequest]

-----------------------------------------------------------------------------
(* request(key, ...).  A second call for a key that is pending returns the *)
(* stored promise and changes nothing, so only first calls appear here.    *)

RefuseRequest(r) ==
  /\ JobsDone
  /\ fate[r] = "new"
  /\ ~AcceptsRequests
  /\ fate' = [fate EXCEPT ![r] = "rejected"]
  /\ UNCHANGED <<connection, pendingRequests, lastGeneration, promiseJobs, wire>>

Request(r) ==
  LET k == KeyOf[r] IN
  /\ JobsDone
  /\ fate[r] = "new"
  /\ AcceptsRequests
  /\ pendingRequests[k] = NoRequest
  /\ fate' = [fate EXCEPT ![r] = "pending"]
  /\ pendingRequests' = [pendingRequests EXCEPT ![k] = r]
  /\ lastGeneration' = [lastGeneration EXCEPT ![r] = 0]
  /\ \/ /\ wsConnected /\ ws # "null"
        /\ jobs' = [jobs EXCEPT ![k] = @ + 1]
        /\ UNCHANGED <<ws, loop, attempt, waiters>>
     \/ /\ ~(wsConnected /\ ws # "null") /\ loop # "idle"
        /\ waiters' = [waiters EXCEPT ![k] = @ + 1]
        /\ UNCHANGED <<ws, loop, attempt, jobs>>
     \/ /\ ~(wsConnected /\ ws # "null") /\ loop = "idle"
        /\ StartConnecting
        /\ waiters' = IF shuttingDown THEN waiters
                      ELSE [waiters EXCEPT ![k] = @ + 1]
        /\ UNCHANGED jobs
  /\ UNCHANGED <<wsConnected, connectionGeneration, terminalConnectionFailure,
                 shuttingDown, keepAliveTimer, wire>>

\* The body of sendPendingRequest, once connect() has resolved.  A send on a
\* socket that is closing is dropped without an error.
SendJob(k) ==
  LET r == pendingRequests[k] IN
  /\ jobs[k] > 0
  /\ jobs' = [jobs EXCEPT ![k] = @ - 1]
  /\ IF r = NoRequest \/ ws = "null"
     THEN UNCHANGED <<lastGeneration, atServer>>
     ELSE IF AlreadySent(r)
     THEN UNCHANGED <<lastGeneration, atServer>>
     ELSE /\ lastGeneration' = [lastGeneration EXCEPT ![r] = connectionGeneration]
          /\ atServer' = IF ws = "open" THEN [atServer EXCEPT ![r] = @ + 1]
                         ELSE atServer
  /\ UNCHANGED <<connection, pendingRequests, fate, waiters, answers, refused, probe>>

-----------------------------------------------------------------------------
(* The socket's events.                                                    *)

\* onopen: a new generation; every pending request gets a send thunk besides
\* those that already wait on connectionPromise.
SocketOpen ==
  /\ JobsDone
  /\ ws = "connecting"
  /\ connectionGeneration < MaxConnections
  /\ ws' = "open"
  /\ wsConnected' = TRUE
  /\ connectionGeneration' = connectionGeneration + 1
  /\ keepAliveTimer' = TRUE
  /\ loop' = "idle"
  /\ jobs' = [k \in Keys |-> waiters[k] + ReplayThunks(k)]
  /\ waiters' = NoThunks
  /\ UNCHANGED <<attempt, terminalConnectionFailure, shuttingDown, table, wire>>

\* onerror or onclose before onopen, with attempts left.
DialFailedRetry ==
  /\ JobsDone
  /\ ws = "connecting"
  /\ AttemptsLeft
  /\ ws' \in {"failed", "null"}
  /\ IF shuttingDown
     THEN /\ loop' = "idle"
          /\ waiters' = NoThunks
          /\ UNCHANGED attempt
     ELSE /\ loop' = "delay"
          /\ attempt' = NextAttempt
          /\ UNCHANGED waiters
  /\ UNCHANGED <<wsConnected, connectionGeneration, terminalConnectionFailure,
                 shuttingDown, keepAliveTimer, table, jobs, wire>>

\* The last attempt failed: failConnection, then connectionPromise rejects.
DialFailedFinal ==
  /\ JobsDone
  /\ ws = "connecting"
  /\ ~AttemptsLeft
  /\ ws' \in {"failed", "null"}
  /\ loop' = "idle"
  /\ waiters' = NoThunks
  /\ IF shuttingDown
     THEN UNCHANGED <<terminalConnectionFailure, wsConnected, keepAliveTimer,
                      pendingRequests, fate>>
     ELSE /\ terminalConnectionFailure' = TRUE
          /\ wsConnected' = FALSE
          /\ keepAliveTimer' = FALSE
          /\ RejectAllPending
  /\ UNCHANGED <<attempt, connectionGeneration, shuttingDown, lastGeneration, jobs, wire>>

\* onclose of a socket that never opened and is still this.ws.
FailedSocketClosed ==
  /\ JobsDone
  /\ ws = "failed"
  /\ ws' = "null"
  /\ UNCHANGED <<wsConnected, loop, attempt, connectionGeneration,
                 terminalConnectionFailure, shuttingDown, keepAliveTimer,
                 table, promiseJobs, wire>>

DelayElapsed ==
  /\ JobsDone
  /\ loop = "delay"
  /\ loop' = "dialing"
  /\ ws' = "connecting"
  /\ UNCHANGED <<wsConnected, attempt, connectionGeneration, terminalConnectionFailure,
                 shuttingDown, keepAliveTimer, table, promiseJobs, wire>>

\* The peer or the network ends an open connection: what is in flight is
\* gone, and until onclose runs the client still believes it is connected.
PeerCloses ==
  /\ ws = "open"
  /\ ws' = "closing"
  /\ ForgetWire
  /\ UNCHANGED <<wsConnected, loop, attempt, connectionGeneration,
                 terminalConnectionFailure, shuttingDown, keepAliveTimer,
                 table, promiseJobs>>

OnClose ==
  /\ JobsDone
  /\ ws = "closing"
  /\ wsConnected' = FALSE
  /\ keepAliveTimer' = FALSE
  /\ IF Reconnects /\ loop = "idle"
     THEN StartConnecting
     ELSE ws' = "null" /\ UNCHANGED <<loop, attempt>>
  /\ UNCHANGED <<connectionGeneration, terminalConnectionFailure, shuttingDown,
                 table, promiseJobs, wire>>

-----------------------------------------------------------------------------
(* The server and the answers.                                             *)

ServerAnswers(r) ==
  /\ atServer[r] > 0
  /\ atServer' = [atServer EXCEPT ![r] = @ - 1]
  /\ \/ answers' = [answers EXCEPT ![r] = @ + 1] /\ UNCHANGED refused
     \/ refused' = refused \cup {r} /\ UNCHANGED answers
  /\ UNCHANGED <<connection, table, promiseJobs, probe>>

\* onmessage: the answer names a key, not a request.
ReceiveAnswer(r) ==
  LET k == KeyOf[r] IN
  /\ JobsDone
  /\ answers[r] > 0
  /\ answers' = [answers EXCEPT ![r] = @ - 1]
  /\ IF pendingRequests[k] = NoRequest
     THEN UNCHANGED <<fate, pendingRequests>>
     ELSE Settle(k, "resolved")
  /\ UNCHANGED <<connection, lastGeneration, promiseJobs, atServer, refused, probe>>

\* The 25 s interval.  Bound: one probe outstanding at a time.
KeepAliveTick ==
  /\ JobsDone
  /\ keepAliveTimer /\ wsConnected /\ ws # "null"
  /\ probe = "none"
  /\ ws = "open"
  /\ probe' = "asked"
  /\ UNCHANGED <<connection, table, promiseJobs, atServer, answers, refused>>

ServerAnswersProbe ==
  /\ probe = "asked"
  /\ probe' = "answered"
  /\ UNCHANGED <<connection, table, promiseJobs, atServer, answers, refused>>

ReceiveProbeAnswer ==
  /\ JobsDone
  /\ probe = "answered"
  /\ probe' = "none"
  /\ IF pendingRequests[ProbeKey] = NoRequest
     THEN UNCHANGED <<fate, pendingRequests>>
     ELSE Settle(ProbeKey, "resolved")
  /\ UNCHANGED <<connection, lastGeneration, promiseJobs, atServer, answers, refused>>

-----------------------------------------------------------------------------
(* Timers, the user's retry and the page's end.                            *)

RequestTimesOut(r) ==
  /\ JobsDone
  /\ fate[r] = "pending"
  /\ pendingRequests[KeyOf[r]] = r
  /\ Settle(KeyOf[r], "rejected")
  /\ UNCHANGED <<connection, lastGeneration, promiseJobs, wire>>

\* The retry button of a failed foreground request.
ResetConnectionFailure ==
  /\ JobsDone
  /\ terminalConnectionFailure
  /\ ~shuttingDown
  /\ terminalConnectionFailure' = FALSE
  /\ UNCHANGED <<ws, wsConnected, loop, attempt, connectionGeneration, shuttingDown,
                 keepAliveTimer, table, promiseJobs, wire>>

BeforeUnload ==
  /\ JobsDone
  /\ ~shuttingDown
  /\ shuttingDown' = TRUE
  /\ keepAliveTimer' = FALSE
  /\ UNCHANGED <<ws, wsConnected, loop, attempt, connectionGeneration,
                 terminalConnectionFailure, table, promiseJobs, wire>>

-----------------------------------------------------------------------------
DialResult == SocketOpen \/ DialFailedRetry \/ DialFailedFinal

Next ==
  \/ \E r \in Requests :
        \/ Request(r) \/ RefuseRequest(r) \/ RequestTimesOut(r)
        \/ ServerAnswers(r) \/ ReceiveAnswer(r)
  \/ \E k \in Keys : SendJob(k)
  \/ SocketOpen \/ DialFailedRetry \/ DialFailedFinal \/ FailedSocketClosed
  \/ DelayElapsed \/ PeerCloses \/ OnClose
  \/ KeepAliveTick \/ ServerAnswersProbe \/ ReceiveProbeAnswer
  \/ ResetConnectionFailure \/ BeforeUnload

Spec == Init /\ [][Next]_vars

\* The browser runs queued jobs and due timers, ends every handshake and
\* reports every close; it owes nothing else.
Fairness ==
  /\ \A k \in Keys : WF_vars(SendJob(k))
  /\ \A r \in Requests : WF_vars(RequestTimesOut(r))
  /\ WF_vars(DialResult)
  /\ WF_vars(DelayElapsed)
  /\ WF_vars(OnClose)

FairSpec == Spec /\ Fairness

-----------------------------------------------------------------------------
(* Safety.                                                                 *)

Pending(r) == fate[r] = "pending"
Copies(r) == atServer[r] + answers[r]

\* Every request whose promise is unsettled is the entry stored under its
\* key, and every stored entry is unsettled: no promise is forgotten by a
\* timeout, a reply to a later request of the same key, or a terminal failure.
NoForgottenPromise ==
  /\ \A r \in Requests : Pending(r) <=> pendingRequests[KeyOf[r]] = r
  /\ \A k \in Keys : pendingRequests[k] # NoRequest => KeyOf[pendingRequests[k]] = k

\* A request travels at most once per connection, although its send thunk may
\* be queued several times (by request(), by the replay, by a re-request).
SentOncePerConnection == \A r \in Requests : Copies(r) <= 1

\* On an open connection with no promise job queued, every pending request
\* has been sent on this very connection, and its message or its answer is
\* still travelling unless the server replied with an error frame.
ReplayComplete ==
  (ws = "open" /\ JobsDone) =>
     \A r \in Requests :
        Pending(r) => /\ lastGeneration[r] = connectionGeneration
                      /\ Copies(r) = 1 \/ r \in refused

\* Requests never wait on nothing: while the page lives, a pending request
\* has a connection or an attempt to get one.
PendingIsServed ==
  ((\E r \in Requests : Pending(r)) /\ ~shuttingDown) =>
     (wsConnected \/ loop # "idle")

\* After a terminal failure nothing is pending, no attempt runs and the
\* keep-alive is off, so the reset by a foreground retry starts clean.
TerminalIsClean ==
  terminalConnectionFailure =>
     /\ loop = "idle"
     /\ ~wsConnected
     /\ ~keepAliveTimer
     /\ \A k \in Keys : pendingRequests[k] = NoRequest /\ waiters[k] = 0

\* request() keeps its promise to its callers, however often the connection is
\* lost, dialled, replayed and given up in between: one waiting promise for a
\* key, settled once, and none left waiting when the connection is given up.
Promises == INSTANCE RequestPromises WITH down <- terminalConnectionFailure
CallersAreServed == Promises!Spec

-----------------------------------------------------------------------------
(* Liveness.                                                               *)

\* Every connection attempt comes to an end, however often dialing fails and
\* requests are made meanwhile.
AttemptEnds == (loop # "idle") ~> (loop = "idle")

\* Every accepted request settles, whatever the server and the network do.
RequestsSettle == \A r \in Requests : Pending(r) ~> ~Pending(r)
=============================================================================
