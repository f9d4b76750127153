------------------------ MODULE LazyFSConnectionProofs ------------------------
(***************************************************************************)
(* Safety of the LazyFS connection for any number of keys, requests,       *)
(* retries and connections.                                                *)
(***************************************************************************)
EXTENDS LazyFSConnection, TLAPS

-----------------------------------------------------------------------------
(* Types.                                                                  *)

\* Every variable of the connection keeps its type: in particular the attempt
\* counter of connectWithRetry never passes the table of reconnect delays.
THEOREM TypeCorrect == Spec => []TypeOK
<1>1. Init => TypeOK
  <2> SUFFICES ASSUME Init
               PROVE  TypeOK
    OBVIOUS
  <2> USE ConnectionAssumption DEF ConnectionAssumption
  <2>1. attempt \in 0 .. MaxDelays
    BY DEF Init
  <2>2. /\ ws \in {"null", "connecting", "failed", "open", "closing"}
        /\ loop \in {"idle", "dialing", "delay"}
        /\ connectionGeneration \in Nat
        /\ refused \subseteq Requests
        /\ probe \in {"none", "asked", "answered"}
        /\ wsConnected \in BOOLEAN
        /\ terminalConnectionFailure \in BOOLEAN
        /\ shuttingDown \in BOOLEAN
        /\ keepAliveTimer \in BOOLEAN
    BY DEF Init
  <2>3. /\ pendingRequests \in [Keys -> Requests \cup {NoRequest}]
        /\ fate \in [Requests -> {"new", "pending", "resolved", "rejected"}]
    BY DEF Init
  <2>4. /\ lastGeneration \in [Requests -> Nat]
        /\ waiters \in [Keys -> Nat]
        /\ jobs \in [Keys -> Nat]
        /\ atServer \in [Requests -> Nat]
        /\ answers \in [Requests -> Nat]
    BY DEF Init, Nothing, NoThunks
  <2>5. QED
    BY <2>1, <2>2, <2>3, <2>4 DEF TypeOK
<1>2. TypeOK /\ [Next]_vars => TypeOK'
  <2> SUFFICES ASSUME TypeOK, [Next]_vars
               PROVE  TypeOK'
    OBVIOUS
  <2> USE ConnectionAssumption DEF ConnectionAssumption
  <2>1. ASSUME NEW r \in Requests, Request(r)
        PROVE  TypeOK'
    BY <2>1 DEF TypeOK, Request, StartConnecting, wire
  <2>2. ASSUME NEW r \in Requests, RefuseRequest(r)
        PROVE  TypeOK'
    BY <2>2 DEF TypeOK, RefuseRequest, connection, promiseJobs, wire
  <2>3. ASSUME NEW r \in Requests, RequestTimesOut(r)
        PROVE  TypeOK'
    BY <2>3 DEF TypeOK, RequestTimesOut, Settle, connection, promiseJobs, wire
  <2>4. ASSUME NEW r \in Requests, ServerAnswers(r)
        PROVE  TypeOK'
    BY <2>4 DEF TypeOK, ServerAnswers, connection, table, promiseJobs
  <2>5. ASSUME NEW r \in Requests, ReceiveAnswer(r)
        PROVE  TypeOK'
    BY <2>5 DEF TypeOK, ReceiveAnswer, Settle, connection, promiseJobs
  <2>6. ASSUME NEW k \in Keys, SendJob(k)
        PROVE  TypeOK'
    BY <2>6 DEF TypeOK, SendJob, AlreadySent, connection
  <2>7. CASE SocketOpen
    BY <2>7 DEF TypeOK, SocketOpen, NoThunks, ReplayThunks, table, wire
  <2>8. CASE DialFailedRetry
    BY <2>8 DEF TypeOK, DialFailedRetry, AttemptsLeft, NextAttempt, NoThunks, table, wire
  <2>9. CASE DialFailedFinal
    BY <2>9 DEF TypeOK, DialFailedFinal, RejectAllPending, NoThunks, wire
  <2>10. CASE FailedSocketClosed
    BY <2>10 DEF TypeOK, FailedSocketClosed, table, promiseJobs, wire
  <2>11. CASE DelayElapsed
    BY <2>11 DEF TypeOK, DelayElapsed, table, promiseJobs, wire
  <2>12. CASE PeerCloses
    BY <2>12 DEF TypeOK, PeerCloses, ForgetWire, Nothing, table, promiseJobs
  <2>13. CASE OnClose
    <3>1. ws' \in {"connecting", "closing", "null"}
      BY <2>13 DEF OnClose, StartConnecting
    <3>2. loop' \in {"idle", "dialing", "delay"}
      BY <2>13 DEF OnClose, StartConnecting, TypeOK
    <3>3. attempt' \in 0 .. MaxDelays
      BY <2>13 DEF OnClose, StartConnecting, TypeOK
    <3>4. QED
      BY <2>13, <3>1, <3>2, <3>3 DEF TypeOK, OnClose, table, promiseJobs, wire
  <2>14. CASE KeepAliveTick
    BY <2>14 DEF TypeOK, KeepAliveTick, connection, table, promiseJobs
  <2>15. CASE ServerAnswersProbe
    BY <2>15 DEF TypeOK, ServerAnswersProbe, connection, table, promiseJobs
  <2>16. CASE ReceiveProbeAnswer
    BY <2>16 DEF TypeOK, ReceiveProbeAnswer, Settle, connection, promiseJobs
  <2>17. CASE ResetConnectionFailure
    BY <2>17 DEF TypeOK, ResetConnectionFailure, table, promiseJobs, wire
  <2>18. CASE BeforeUnload
    BY <2>18 DEF TypeOK, BeforeUnload, table, promiseJobs, wire
  <2>19. CASE UNCHANGED vars
    BY <2>19 DEF TypeOK, vars, connection, table, promiseJobs, wire
  <2>20. QED
    BY <2>1, <2>2, <2>3, <2>4, <2>5, <2>6, <2>7, <2>8, <2>9, <2>10, <2>11, <2>12,
       <2>13, <2>14, <2>15, <2>16, <2>17, <2>18, <2>19 DEF Next
<1>3. QED
  BY <1>1, <1>2, PTL DEF Spec

-----------------------------------------------------------------------------
(* The table of pending requests.                                          *)

\* Settling the entry under a key leaves the table and the promises in step.
LEMMA SettleKeepsTable ==
  ASSUME TypeOK, NoForgottenPromise,
         NEW k \in Keys, pendingRequests[k] # NoRequest,
         NEW outcome \in {"resolved", "rejected"}, Settle(k, outcome)
  PROVE  NoForgottenPromise'
<1> DEFINE s == pendingRequests[k]
<1>1. s \in Requests /\ KeyOf[s] = k
  BY DEF TypeOK, NoForgottenPromise
<1>2. ASSUME NEW r \in Requests
      PROVE  (Pending(r) <=> pendingRequests[KeyOf[r]] = r)'
  <2>1. CASE r = s
    BY <1>1, <2>1, ConnectionAssumption
       DEF TypeOK, Settle, Pending, ConnectionAssumption
  <2>2. CASE r # s
    BY <1>1, <2>2, ConnectionAssumption
       DEF TypeOK, NoForgottenPromise, Settle, Pending, ConnectionAssumption
  <2>3. QED
    BY <2>1, <2>2
<1>3. ASSUME NEW q \in Keys, (pendingRequests[q] # NoRequest)'
      PROVE  (KeyOf[pendingRequests[q]] = q)'
  BY <1>3 DEF TypeOK, NoForgottenPromise, Settle
<1>4. QED
  BY <1>2, <1>3 DEF NoForgottenPromise

\* A step that leaves the table and the promises alone keeps them in step.
LEMMA TableUntouched ==
  ASSUME NoForgottenPromise, UNCHANGED <<pendingRequests, fate>>
  PROVE  NoForgottenPromise'
BY DEF NoForgottenPromise, Pending

\* Every step keeps the table and the promises in step.
LEMMA TableStep ==
  ASSUME TypeOK, NoForgottenPromise, [Next]_vars
  PROVE  NoForgottenPromise'
<1> USE ConnectionAssumption DEF ConnectionAssumption
<1>1. ASSUME NEW r \in Requests, Request(r)
      PROVE  NoForgottenPromise'
  <2>1. ASSUME NEW q \in Requests
        PROVE  (Pending(q) <=> pendingRequests[KeyOf[q]] = q)'
    BY <1>1 DEF TypeOK, NoForgottenPromise, Request, Pending
  <2>2. ASSUME NEW k \in Keys, (pendingRequests[k] # NoRequest)'
        PROVE  (KeyOf[pendingRequests[k]] = k)'
    BY <1>1, <2>2 DEF TypeOK, NoForgottenPromise, Request
  <2>3. QED
    BY <2>1, <2>2 DEF NoForgottenPromise
<1>2. ASSUME NEW r \in Requests, RefuseRequest(r)
      PROVE  NoForgottenPromise'
  BY <1>2 DEF TypeOK, NoForgottenPromise, RefuseRequest, Pending
<1>3. ASSUME NEW r \in Requests, RequestTimesOut(r)
      PROVE  NoForgottenPromise'
  BY <1>3, SettleKeepsTable DEF RequestTimesOut
<1>4. ASSUME NEW r \in Requests, ReceiveAnswer(r)
      PROVE  NoForgottenPromise'
  BY <1>4, SettleKeepsTable, TableUntouched DEF ReceiveAnswer
<1>5. CASE ReceiveProbeAnswer
  BY <1>5, SettleKeepsTable, TableUntouched DEF ReceiveProbeAnswer
<1>6. CASE DialFailedFinal
  <2>1. CASE shuttingDown
    BY <1>6, <2>1, TableUntouched DEF DialFailedFinal
  <2>2. CASE ~shuttingDown
    BY <1>6, <2>2 DEF TypeOK, NoForgottenPromise, DialFailedFinal, RejectAllPending, Pending
  <2>3. QED
    BY <2>1, <2>2
<1>7. ASSUME NEW r \in Requests, ServerAnswers(r)
      PROVE  NoForgottenPromise'
  BY <1>7, TableUntouched DEF ServerAnswers, table
<1>8. ASSUME NEW k \in Keys, SendJob(k)
      PROVE  NoForgottenPromise'
  BY <1>8, TableUntouched DEF SendJob
<1>9. CASE SocketOpen \/ DialFailedRetry \/ FailedSocketClosed \/ DelayElapsed
  BY <1>9, TableUntouched
     DEF SocketOpen, DialFailedRetry, FailedSocketClosed, DelayElapsed, table
<1>10. CASE PeerCloses \/ OnClose \/ KeepAliveTick \/ ServerAnswersProbe
  BY <1>10, TableUntouched DEF PeerCloses, OnClose, KeepAliveTick, ServerAnswersProbe, table
<1>11. CASE ResetConnectionFailure \/ BeforeUnload \/ UNCHANGED vars
  BY <1>11, TableUntouched DEF ResetConnectionFailure, BeforeUnload, vars, table
<1>12. QED
  BY <1>1, <1>2, <1>3, <1>4, <1>5, <1>6, <1>7, <1>8, <1>9, <1>10, <1>11 DEF Next

\* No promise is forgotten: each unsettled request is the entry stored under
\* its key, whatever times out, arrives late or fails for good.
THEOREM PromisesKept == Spec => []NoForgottenPromise
<1>1. Init => NoForgottenPromise
  BY ConnectionAssumption DEF Init, NoForgottenPromise, Pending, ConnectionAssumption
<1>2. QED
  BY <1>1, TypeCorrect, TableStep, PTL DEF Spec

-----------------------------------------------------------------------------
(* The connection.                                                         *)

\* Socket, flag, attempt and keep-alive agree.
Phases ==
  /\ wsConnected <=> ws \in {"open", "closing"}
  /\ ws = "connecting" <=> loop = "dialing"
  /\ wsConnected => loop = "idle"
  /\ ~wsConnected => ~keepAliveTimer
  /\ loop = "idle" => \A k \in Keys : waiters[k] = 0

ConnectionInv == Phases /\ TerminalIsClean /\ PendingIsServed

\* Steps that only touch the wire, or the send jobs, keep it.
LEMMA ConnectionUntouched ==
  ASSUME ConnectionInv, UNCHANGED <<connection, pendingRequests, fate, waiters>>
  PROVE  ConnectionInv'
BY DEF ConnectionInv, Phases, TerminalIsClean, PendingIsServed, Pending, connection

\* So do steps that only settle a request.
LEMMA ConnectionSettles ==
  ASSUME TypeOK, ConnectionInv, UNCHANGED <<connection, waiters>>,
         NEW k \in Keys, NEW outcome \in {"resolved", "rejected"}, Settle(k, outcome)
  PROVE  ConnectionInv'
<1>1. \A r \in Requests : Pending(r)' => Pending(r)
  BY DEF TypeOK, Settle, Pending
<1>2. \A q \in Keys : pendingRequests[q] = NoRequest => pendingRequests'[q] = NoRequest
  BY DEF TypeOK, Settle
<1>3. QED
  BY <1>1, <1>2
     DEF ConnectionInv, Phases, TerminalIsClean, PendingIsServed, Pending, connection

\* Every step keeps the phases of the connection.
LEMMA ConnectionStep ==
  ASSUME TypeOK, NoForgottenPromise, ConnectionInv, [Next]_vars
  PROVE  ConnectionInv'
<1> USE ConnectionAssumption DEF ConnectionAssumption
<1> USE DEF ConnectionInv
<1>1. ASSUME NEW r \in Requests, Request(r)
      PROVE  ConnectionInv'
  <2>1. Phases'
    BY <1>1 DEF TypeOK, Phases, Request, StartConnecting
  <2>2. TerminalIsClean'
    BY <1>1 DEF TerminalIsClean, Request, AcceptsRequests
  <2>3. PendingIsServed'
    BY <1>1 DEF TypeOK, Phases, PendingIsServed, Request, StartConnecting
  <2>4. QED
    BY <2>1, <2>2, <2>3
<1>2. ASSUME NEW r \in Requests, RefuseRequest(r)
      PROVE  ConnectionInv'
  <2>1. \A q \in Requests : Pending(q)' => Pending(q)
    BY <1>2 DEF TypeOK, RefuseRequest, Pending
  <2>2. QED
    BY <1>2, <2>1 DEF Phases, TerminalIsClean, PendingIsServed, RefuseRequest, connection, promiseJobs
<1>3. ASSUME NEW r \in Requests, RequestTimesOut(r)
      PROVE  ConnectionInv'
  BY <1>3, ConnectionSettles DEF RequestTimesOut, promiseJobs
<1>4. ASSUME NEW r \in Requests, ReceiveAnswer(r)
      PROVE  ConnectionInv'
  BY <1>4, ConnectionSettles, ConnectionUntouched DEF ReceiveAnswer, promiseJobs
<1>5. CASE ReceiveProbeAnswer
  BY <1>5, ConnectionSettles, ConnectionUntouched DEF ReceiveProbeAnswer, promiseJobs
<1>6. ASSUME NEW r \in Requests, ServerAnswers(r)
      PROVE  ConnectionInv'
  BY <1>6, ConnectionUntouched DEF ServerAnswers, table, promiseJobs
<1>7. ASSUME NEW k \in Keys, SendJob(k)
      PROVE  ConnectionInv'
  BY <1>7, ConnectionUntouched DEF SendJob
<1>8. CASE SocketOpen
  BY <1>8 DEF Phases, TerminalIsClean, PendingIsServed, Pending, SocketOpen, NoThunks, table
<1>9. CASE DialFailedRetry
  BY <1>9 DEF Phases, TerminalIsClean, PendingIsServed, Pending, DialFailedRetry, NoThunks, table
<1>10. CASE DialFailedFinal
  <2>1. CASE shuttingDown
    BY <1>10, <2>1
       DEF Phases, TerminalIsClean, PendingIsServed, Pending, DialFailedFinal, NoThunks
  <2>2. CASE ~shuttingDown
    <3>1. \A r \in Requests : ~Pending(r)'
      BY <1>10, <2>2 DEF TypeOK, NoForgottenPromise, DialFailedFinal, RejectAllPending, Pending
    <3>2. QED
      BY <1>10, <2>2, <3>1
         DEF Phases, TerminalIsClean, PendingIsServed, DialFailedFinal, RejectAllPending, NoThunks
  <2>3. QED
    BY <2>1, <2>2
<1>11. CASE FailedSocketClosed
  BY <1>11 DEF Phases, TerminalIsClean, PendingIsServed, Pending, FailedSocketClosed,
     table, promiseJobs
<1>12. CASE DelayElapsed
  BY <1>12 DEF Phases, TerminalIsClean, PendingIsServed, Pending, DelayElapsed,
     table, promiseJobs
<1>13. CASE PeerCloses
  BY <1>13 DEF Phases, TerminalIsClean, PendingIsServed, Pending, PeerCloses,
     table, promiseJobs
<1>14. CASE OnClose
  <2>1. terminalConnectionFailure => \A r \in Requests : ~Pending(r)
    BY DEF TerminalIsClean, NoForgottenPromise
  <2>2. QED
    BY <1>14, <2>1
       DEF Phases, TerminalIsClean, PendingIsServed, Pending, OnClose, Reconnects,
           StartConnecting, table, promiseJobs
<1>15. CASE KeepAliveTick \/ ServerAnswersProbe
  BY <1>15, ConnectionUntouched DEF KeepAliveTick, ServerAnswersProbe, table, promiseJobs
<1>16. CASE ResetConnectionFailure
  BY <1>16 DEF Phases, TerminalIsClean, PendingIsServed, Pending, ResetConnectionFailure,
     table, promiseJobs
<1>17. CASE BeforeUnload
  BY <1>17 DEF Phases, TerminalIsClean, PendingIsServed, Pending, BeforeUnload,
     table, promiseJobs
<1>18. CASE UNCHANGED vars
  BY <1>18, ConnectionUntouched DEF vars, table, promiseJobs
<1>19. QED
  BY <1>1, <1>2, <1>3, <1>4, <1>5, <1>6, <1>7, <1>8, <1>9, <1>10, <1>11, <1>12, <1>13,
     <1>14, <1>15, <1>16, <1>17, <1>18 DEF Next

LEMMA ConnectionAlways == Spec => []ConnectionInv
<1>1. Init => ConnectionInv
  <2> SUFFICES ASSUME Init
               PROVE  ConnectionInv
    OBVIOUS
  <2>1. Phases /\ TerminalIsClean
    BY DEF Init, Phases, TerminalIsClean, NoThunks
  <2>2. PendingIsServed
    BY DEF Init, PendingIsServed, Pending
  <2>3. QED
    BY <2>1, <2>2 DEF ConnectionInv
<1>2. QED
  BY <1>1, TypeCorrect, PromisesKept, ConnectionStep, PTL DEF Spec

\* After a terminal failure nothing waits: the reset by a retry starts clean.
THEOREM TerminalFailureIsClean == Spec => []TerminalIsClean
BY ConnectionAlways, PTL DEF ConnectionInv

\* While the page lives a pending request has a connection, or an attempt to
\* get one.
THEOREM RequestsAreServed == Spec => []PendingIsServed
BY ConnectionAlways, PTL DEF ConnectionInv

-----------------------------------------------------------------------------
(* What the callers of request() see.                                      *)

\* A settled entry is a settled promise.
LEMMA SettlesOne ==
  ASSUME TypeOK, NoForgottenPromise, NEW k \in Keys, pendingRequests[k] # NoRequest,
         NEW outcome \in {"resolved", "rejected"}, Settle(k, outcome),
         UNCHANGED terminalConnectionFailure
  PROVE  Promises!Next
<1> DEFINE r == pendingRequests[k]
<1>1. r \in Requests /\ KeyOf[r] = k
  BY DEF TypeOK, NoForgottenPromise
<1>2. fate[r] = "pending"
  BY <1>1 DEF NoForgottenPromise, Pending
<1>3. Promises!Settle(r)
  BY <1>2 DEF Settle, Promises!Settle, Promises!Waiting
<1>4. QED
  BY <1>1, <1>3 DEF Promises!Next

\* Every handler of the connection takes a step of the promise, or none.
LEMMA PromiseStep ==
  ASSUME TypeOK, NoForgottenPromise, ConnectionInv, [Next]_vars
  PROVE  [Promises!Next]_<<fate, terminalConnectionFailure>>
<1>1. ASSUME NEW r \in Requests, Request(r)
      PROVE  Promises!Next
  <2>1. \A q \in Requests : KeyOf[q] = KeyOf[r] => fate[q] # "pending"
    BY <1>1, ConnectionAssumption
       DEF Request, NoForgottenPromise, Pending, ConnectionAssumption
  <2>2. Promises!Accept(r)
    BY <1>1, <2>1 DEF Request, AcceptsRequests, Promises!Accept, Promises!Waiting
  <2>3. QED
    BY <2>2 DEF Promises!Next
<1>2. ASSUME NEW r \in Requests, RefuseRequest(r)
      PROVE  Promises!Next
  <2>1. Promises!Refuse(r)
    BY <1>2 DEF TypeOK, RefuseRequest, AcceptsRequests, connection, Promises!Refuse
  <2>2. QED
    BY <2>1 DEF Promises!Next
<1>3. ASSUME NEW r \in Requests, RequestTimesOut(r)
      PROVE  Promises!Next
  BY <1>3, SettlesOne, ConnectionAssumption
     DEF RequestTimesOut, connection, ConnectionAssumption
<1>4. ASSUME NEW r \in Requests, ReceiveAnswer(r)
      PROVE  Promises!Next \/ UNCHANGED <<fate, terminalConnectionFailure>>
  BY <1>4, SettlesOne, ConnectionAssumption DEF ReceiveAnswer, connection, ConnectionAssumption
<1>5. ASSUME ReceiveProbeAnswer
      PROVE  Promises!Next \/ UNCHANGED <<fate, terminalConnectionFailure>>
  BY <1>5, SettlesOne, ConnectionAssumption
     DEF ReceiveProbeAnswer, connection, ConnectionAssumption
<1>6. ASSUME DialFailedFinal
      PROVE  Promises!Next \/ UNCHANGED <<fate, terminalConnectionFailure>>
  <2>1. CASE shuttingDown
    BY <1>6, <2>1 DEF DialFailedFinal
  <2>2. CASE ~shuttingDown
    <3>1. ~terminalConnectionFailure
      BY <1>6 DEF DialFailedFinal, ConnectionInv, Phases, TerminalIsClean
    <3>2. \A r \in Requests : pendingRequests[KeyOf[r]] = r <=> fate[r] = "pending"
      BY DEF NoForgottenPromise, Pending
    <3>3. Promises!GiveUp
      BY <1>6, <2>2, <3>1, <3>2
         DEF DialFailedFinal, RejectAllPending, Promises!GiveUp, Promises!Waiting
    <3>4. QED
      BY <3>3 DEF Promises!Next
  <2>3. QED
    BY <2>1, <2>2
<1>7. ASSUME ResetConnectionFailure
      PROVE  Promises!Next
  BY <1>7 DEF ResetConnectionFailure, table, Promises!Next, Promises!Retry
<1>8. ASSUME \/ \E r \in Requests : ServerAnswers(r)
             \/ \E k \in Keys : SendJob(k)
             \/ SocketOpen \/ DialFailedRetry \/ FailedSocketClosed \/ DelayElapsed
             \/ PeerCloses \/ OnClose \/ KeepAliveTick \/ ServerAnswersProbe
             \/ BeforeUnload \/ UNCHANGED vars
      PROVE  UNCHANGED <<fate, terminalConnectionFailure>>
  BY <1>8 DEF ServerAnswers, SendJob, SocketOpen, DialFailedRetry, FailedSocketClosed,
              DelayElapsed, PeerCloses, OnClose, KeepAliveTick, ServerAnswersProbe,
              BeforeUnload, vars, table, connection
<1>9. QED
  BY <1>1, <1>2, <1>3, <1>4, <1>5, <1>6, <1>7, <1>8 DEF Next

\* request() keeps its promise: to its callers the connection, with all its
\* retries, replays and timers, is the simple service of RequestPromises.
THEOREM PromisesImplemented == Spec => CallersAreServed
<1>1. Init => Promises!Init
  BY DEF Init, Promises!Init
<1>2. QED
  BY <1>1, TypeCorrect, PromisesKept, ConnectionAlways, PromiseStep, PTL
     DEF Spec, CallersAreServed, Promises!Spec

-----------------------------------------------------------------------------
(* The wire and the replay.                                                *)

\* A request on the wire was sent on the connection that is open now.
OnWire(r) ==
  /\ Copies(r) <= 1
  /\ lastGeneration[r] <= connectionGeneration
  /\ ws # "open" => Copies(r) = 0
  /\ Copies(r) > 0 => lastGeneration[r] = connectionGeneration /\ fate[r] # "new"

\* A pending request waits for its send job or has been sent, and what has
\* been sent still travels, or was refused.
Replayed(r) ==
  /\ jobs[KeyOf[r]] > 0 \/ lastGeneration[r] = connectionGeneration
  /\ lastGeneration[r] = connectionGeneration => Copies(r) = 1 \/ r \in refused

ReplayInv ==
  ws = "open" =>
     /\ connectionGeneration > 0
     /\ \A r \in Requests : Pending(r) => Replayed(r)

WireInv == (\A r \in Requests : OnWire(r)) /\ ReplayInv

\* A step of no request, job or message keeps it while the socket stays open
\* or stays closed.
LEMMA WireUntouched ==
  ASSUME WireInv, ws' = "open" <=> ws = "open",
         UNCHANGED <<connectionGeneration, lastGeneration, jobs, atServer, answers, refused>>,
         \A r \in Requests : /\ Pending(r)' => Pending(r)
                             /\ fate[r]' = "new" => fate[r] = "new"
  PROVE  WireInv'
BY DEF WireInv, OnWire, ReplayInv, Replayed, Copies

\* Settling a request never makes another one pending or new.
LEMMA SettleSettles ==
  ASSUME TypeOK, NEW k \in Keys, NEW outcome \in {"resolved", "rejected"},
         Settle(k, outcome)
  PROVE  \A r \in Requests : /\ Pending(r)' => Pending(r)
                             /\ fate[r]' = "new" => fate[r] = "new"
BY DEF TypeOK, Settle, Pending

\* Every step keeps the wire and the replay in order.
LEMMA WireStep ==
  ASSUME TypeOK, NoForgottenPromise, Phases, WireInv, [Next]_vars
  PROVE  WireInv'
<1> USE ConnectionAssumption DEF ConnectionAssumption
<1>1. ASSUME NEW r \in Requests, Request(r)
      PROVE  WireInv'
  <2>1. ws' = "open" <=> ws = "open"
    BY <1>1 DEF Request, StartConnecting, Phases
  <2>2. ASSUME NEW q \in Requests
        PROVE  OnWire(q)'
    BY <1>1, <2>1 DEF TypeOK, WireInv, OnWire, Copies, Request, wire
  <2>3. ASSUME ws = "open", NEW q \in Requests, Pending(q)'
        PROVE  Replayed(q)'
    <3>1. jobs' = [jobs EXCEPT ![KeyOf[r]] = @ + 1]
      BY <1>1, <2>3 DEF Request, Phases
    <3>2. CASE q = r
      BY <1>1, <2>3, <3>1, <3>2
         DEF TypeOK, WireInv, ReplayInv, Replayed, Request, wire
    <3>3. CASE q # r
      BY <1>1, <2>3, <3>1, <3>3
         DEF TypeOK, WireInv, ReplayInv, Replayed, Copies, Pending, Request, wire
    <3>4. QED
      BY <3>2, <3>3
  <2>4. connectionGeneration' = connectionGeneration
    BY <1>1 DEF Request
  <2>5. QED
    BY <2>1, <2>2, <2>3, <2>4 DEF WireInv, ReplayInv
<1>2. ASSUME NEW r \in Requests, RefuseRequest(r)
      PROVE  WireInv'
  BY <1>2, WireUntouched DEF TypeOK, RefuseRequest, Pending, connection, promiseJobs, wire
<1>3. ASSUME NEW r \in Requests, RequestTimesOut(r)
      PROVE  WireInv'
  BY <1>3, SettleSettles, WireUntouched
     DEF RequestTimesOut, connection, promiseJobs, wire
<1>4. ASSUME NEW r \in Requests, ServerAnswers(r)
      PROVE  WireInv'
  BY <1>4 DEF TypeOK, WireInv, OnWire, ReplayInv, Replayed, Copies, Pending, ServerAnswers,
     connection, table, promiseJobs
<1>5. ASSUME NEW r \in Requests, ReceiveAnswer(r)
      PROVE  WireInv'
  <2>1. \A q \in Requests : /\ Pending(q)' => Pending(q)
                            /\ fate[q]' = "new" => fate[q] = "new"
    BY <1>5, SettleSettles DEF ReceiveAnswer, Pending
  <2>2. ~Pending(r)'
    BY <1>5 DEF TypeOK, NoForgottenPromise, ReceiveAnswer, Settle, Pending
  <2>3. QED
    BY <1>5, <2>1, <2>2
       DEF TypeOK, WireInv, OnWire, ReplayInv, Replayed, Copies, ReceiveAnswer,
           connection, promiseJobs
<1>6. CASE ReceiveProbeAnswer
  <2>1. \A q \in Requests : /\ Pending(q)' => Pending(q)
                            /\ fate[q]' = "new" => fate[q] = "new"
    BY <1>6, SettleSettles DEF ReceiveProbeAnswer, Pending
  <2>2. QED
    BY <1>6, <2>1, WireUntouched DEF ReceiveProbeAnswer, connection, promiseJobs
<1>7. ASSUME NEW k \in Keys, SendJob(k)
      PROVE  WireInv'
  <2> DEFINE s == pendingRequests[k]
  <2>1. CASE s = NoRequest \/ ws = "null"
    BY <1>7, <2>1
       DEF TypeOK, NoForgottenPromise, WireInv, OnWire, ReplayInv, Replayed, Copies, Pending,
           SendJob, connection
  <2>2. CASE s # NoRequest /\ ws # "null" /\ AlreadySent(s)
    <3>1. s \in Requests /\ KeyOf[s] = k
      BY <2>2 DEF TypeOK, NoForgottenPromise
    <3>2. \A q \in Requests : Pending(q) /\ KeyOf[q] = k => q = s
      BY DEF NoForgottenPromise
    <3>3. UNCHANGED <<lastGeneration, atServer, answers, refused, fate, ws, connectionGeneration>>
      BY <1>7, <2>2 DEF SendJob, connection
    <3>4. \A q \in Keys \ {k} : jobs'[q] = jobs[q]
      BY <1>7 DEF TypeOK, SendJob
    <3>5. QED
      BY <2>2, <3>1, <3>2, <3>3, <3>4
         DEF TypeOK, WireInv, OnWire, ReplayInv, Replayed, Copies, Pending, AlreadySent
  <2>3. CASE s # NoRequest /\ ws # "null" /\ ~AlreadySent(s)
    <3>1. s \in Requests /\ KeyOf[s] = k /\ Pending(s)
      BY <2>3 DEF TypeOK, NoForgottenPromise
    <3>2. \A q \in Requests : Pending(q) /\ KeyOf[q] = k => q = s
      BY DEF NoForgottenPromise
    <3>3. /\ lastGeneration' = [lastGeneration EXCEPT ![s] = connectionGeneration]
          /\ atServer' = IF ws = "open" THEN [atServer EXCEPT ![s] = @ + 1] ELSE atServer
          /\ UNCHANGED <<answers, refused, fate, ws, connectionGeneration>>
      BY <1>7, <2>3 DEF SendJob, connection
    <3>4. \A q \in Keys \ {k} : jobs'[q] = jobs[q]
      BY <1>7 DEF TypeOK, SendJob
    <3>5. Copies(s) = 0
      BY <2>3, <3>1 DEF TypeOK, WireInv, OnWire, Copies, AlreadySent
    <3>6. ASSUME NEW q \in Requests
          PROVE  OnWire(q)'
      BY <3>1, <3>3, <3>5 DEF TypeOK, WireInv, OnWire, Copies, Pending
    <3>7. ASSUME ws = "open", NEW q \in Requests, Pending(q)
          PROVE  Replayed(q)'
      BY <3>1, <3>2, <3>3, <3>4, <3>5, <3>7
         DEF TypeOK, WireInv, ReplayInv, Replayed, Copies
    <3>8. QED
      BY <3>3, <3>6, <3>7 DEF WireInv, ReplayInv, Pending
  <2>4. QED
    BY <2>1, <2>2, <2>3
<1>8. CASE SocketOpen
  <2>1. ASSUME NEW r \in Requests
        PROVE  OnWire(r)'
    BY <1>8 DEF TypeOK, WireInv, OnWire, Copies, SocketOpen, table, wire
  <2>2. ASSUME NEW r \in Requests, Pending(r)'
        PROVE  Replayed(r)'
    <3>1. pendingRequests[KeyOf[r]] # NoRequest
      BY <1>8, <2>2 DEF NoForgottenPromise, Pending, SocketOpen, table
    <3>2. jobs'[KeyOf[r]] > 0
      BY <1>8, <3>1 DEF TypeOK, SocketOpen, ReplayThunks
    <3>3. lastGeneration'[r] # connectionGeneration'
      BY <1>8 DEF TypeOK, WireInv, OnWire, SocketOpen, table
    <3>4. QED
      BY <3>2, <3>3 DEF Replayed
  <2>3. QED
    BY <1>8, <2>1, <2>2 DEF TypeOK, WireInv, ReplayInv, SocketOpen
<1>9. CASE DialFailedRetry \/ FailedSocketClosed \/ DelayElapsed
  <2>1. ws # "open" /\ ws' # "open"
    BY <1>9 DEF Phases, DialFailedRetry, FailedSocketClosed, DelayElapsed
  <2>2. UNCHANGED <<connectionGeneration, jobs, table, wire>>
    BY <1>9 DEF DialFailedRetry, FailedSocketClosed, DelayElapsed, promiseJobs
  <2>3. QED
    BY <2>1, <2>2, WireUntouched DEF Pending, table, wire
<1>10. CASE DialFailedFinal
  <2>1. \A r \in Requests : /\ Pending(r)' => Pending(r)
                            /\ fate[r]' = "new" => fate[r] = "new"
    BY <1>10 DEF TypeOK, DialFailedFinal, RejectAllPending, Pending
  <2>2. QED
    BY <1>10, <2>1, WireUntouched DEF DialFailedFinal, wire
<1>11. CASE PeerCloses
  BY <1>11 DEF TypeOK, WireInv, OnWire, ReplayInv, Copies, Nothing, PeerCloses, ForgetWire,
     table, promiseJobs
<1>12. CASE OnClose
  <2>1. ws # "open" /\ ws' # "open"
    BY <1>12 DEF OnClose, StartConnecting
  <2>2. QED
    BY <1>12, <2>1, WireUntouched DEF Pending, OnClose, table, promiseJobs, wire
<1>13. CASE KeepAliveTick \/ ServerAnswersProbe
  BY <1>13, WireUntouched
     DEF Pending, KeepAliveTick, ServerAnswersProbe, connection, table, promiseJobs
<1>14. CASE ResetConnectionFailure \/ BeforeUnload
  BY <1>14, WireUntouched
     DEF Pending, ResetConnectionFailure, BeforeUnload, table, promiseJobs, wire
<1>15. CASE UNCHANGED vars
  BY <1>15, WireUntouched DEF Pending, vars, connection, table, promiseJobs, wire
<1>16. QED
  BY <1>1, <1>2, <1>3, <1>4, <1>5, <1>6, <1>7, <1>8, <1>9, <1>10, <1>11, <1>12, <1>13,
     <1>14, <1>15 DEF Next

LEMMA WireAlways == Spec => []WireInv
<1>1. Init => WireInv
  BY ConnectionAssumption
     DEF Init, WireInv, OnWire, ReplayInv, Copies, Nothing, ConnectionAssumption
<1>2. ConnectionInv => Phases
  BY DEF ConnectionInv
<1>3. QED
  BY <1>1, <1>2, TypeCorrect, PromisesKept, ConnectionAlways, WireStep, PTL DEF Spec

\* However often its send thunk is queued, a request travels at most once per
\* connection.
THEOREM SentOnce == Spec => []SentOncePerConnection
<1>1. WireInv => SentOncePerConnection
  BY DEF WireInv, OnWire, SentOncePerConnection
<1>2. QED
  BY <1>1, WireAlways, PTL

\* On an open connection with no job queued every pending request has been
\* sent on that connection and is not lost.
THEOREM EverythingReplayed == Spec => []ReplayComplete
<1>1. TypeOK /\ WireInv => ReplayComplete
  BY ConnectionAssumption
     DEF TypeOK, WireInv, ReplayInv, Replayed, ReplayComplete, JobsDone, ConnectionAssumption
<1>2. QED
  BY <1>1, TypeCorrect, WireAlways, PTL
=============================================================================
