--------------------------- MODULE LazyFSPrefetch ---------------------------
(****************************************************************************)
(* Background and foreground fetching of file ranges (lazyfs.js): a queue   *)
(* of prefetches with a concurrency cap, which foreground and priority      *)
(* requests jump and exceed, and the failed state of a foreground request   *)
(* from which the player may retry.                                         *)
(*                                                                          *)
(* A range is the chunks First[r] .. Last[r] of a registered file whose     *)
(* version does not change. A task that runs is always at some await:       *)
(* "starting" for the database, which the reads that found the range have   *)
(* opened before, "lookup" for a cached chunk, "fetching" for the server,   *)
(* "rejected" once that batch has failed, "yielding" for the timer between  *)
(* two chunks. Continuations of promises that are settled run before the    *)
(* next event: Microtask says that some are left.                           *)
(****************************************************************************)
EXTENDS Integers, Sequences, FiniteSets

CONSTANTS
  Ranges,                    \* the ranges that are asked for
  First, Last,               \* their first and last chunk
  MAX_CONCURRENT_PREFETCHES

ASSUME RangesAssumption ==
  /\ IsFiniteSet(Ranges)
  /\ First \in [Ranges -> Nat]
  /\ Last \in [Ranges -> Nat]
  /\ \A r \in Ranges : First[r] <= Last[r]
  /\ MAX_CONCURRENT_PREFETCHES \in Nat \ {0}

VARIABLES
  terminalConnectionFailure,
  pool,        \* prefetchQueue, activePrefetches and the tasks that run
  inFlight,    \* the keys of inFlightPrefetches
  phase, at,   \* [Ranges -> the await and the chunk of a task that runs]
  chunkCache,  \* chunks resident in memory
  foreground,  \* [Ranges -> the entry of foregroundRequests and its overlay]
  priority     \* ranges some priority request waits for

prefetchVars == <<terminalConnectionFailure, pool, inFlight, phase, at, chunkCache,
                  foreground, priority>>
taskVars == <<phase, at>>

PrefetchInit ==
  /\ terminalConnectionFailure = FALSE
  /\ pool = [queue |-> <<>>, active |-> 0, running |-> {}]
  /\ inFlight = {}
  /\ phase = [r \in Ranges |-> "starting"]
  /\ at = First
  /\ chunkCache = {}
  /\ foreground = [r \in Ranges |-> "none"]
  /\ priority = {}

-----------------------------------------------------------------------------
(* isFileRangeResident *)
Resident(r) == First[r] .. Last[r] \subseteq chunkCache

Queued(p) == {p.queue[i] : i \in DOMAIN p.queue}

(* drainPrefetchQueue: the head of the queue starts while a slot is free. *)
Drain(p) ==
  LET free == MAX_CONCURRENT_PREFETCHES - p.active
      n == IF free < 0 THEN 0
           ELSE IF free < Len(p.queue) THEN free ELSE Len(p.queue)
  IN [queue |-> SubSeq(p.queue, n + 1, Len(p.queue)),
      active |-> p.active + n,
      running |-> p.running \cup {p.queue[i] : i \in 1 .. n}]

Without(q, i) == SubSeq(q, 1, i - 1) \o SubSeq(q, i + 1, Len(q))

(* promotePrefetch: a task that is queued starts at once, above the cap. *)
Promote(p, r) ==
  IF r \in Queued(p)
  THEN [queue |-> Without(p.queue, CHOOSE i \in DOMAIN p.queue : p.queue[i] = r),
        active |-> p.active + 1,
        running |-> p.running \cup {r}]
  ELSE p

Finish_Fault(p, r) == [p EXCEPT !.active = @ - 1, !.running = @ \ {r}]

(* The task of r ends, whatever its result: its slot is free again. *)
Finish(p, r) ==
  Drain([p EXCEPT !.active = @ - 1, !.running = @ \ {r}])

(* prefetchFileRange joins a prefetch in flight or queues a new one. *)
Prefetched(r) ==
  IF r \in inFlight THEN pool ELSE Drain([pool EXCEPT !.queue = Append(@, r)])

PrefetchFileRange(r) ==
  IF terminalConnectionFailure
  THEN UNCHANGED <<pool, inFlight>>
  ELSE pool' = Prefetched(r) /\ inFlight' = inFlight \cup {r}

PrefetchNow(r) ==
  /\ pool' = Promote(Prefetched(r), r)
  /\ inFlight' = inFlight \cup {r}

(* requestForegroundFileRange, up to the first await of the operation. *)
RequestForeground(r) ==
  foreground' = IF Resident(r) \/ foreground[r] # "none" THEN foreground
                ELSE [foreground EXCEPT ![r] = "starting"]

(* requestPriorityFileRange: a refusal escalates to a foreground request. *)
RequestPriority(r) ==
  IF Resident(r) THEN UNCHANGED <<pool, inFlight, foreground, priority>>
  ELSE IF terminalConnectionFailure
  THEN RequestForeground(r) /\ UNCHANGED <<pool, inFlight, priority>>
  ELSE /\ PrefetchNow(r)
       /\ priority' = priority \cup {r}
       /\ UNCHANGED foreground

(* The operation of a foreground request that has begun. *)
Operate(r) ==
  /\ foreground[r] = "starting"
  /\ IF terminalConnectionFailure
     THEN /\ foreground' = [foreground EXCEPT ![r] = "failed"]
          /\ UNCHANGED <<pool, inFlight>>
     ELSE /\ foreground' = [foreground EXCEPT ![r] = "loading"]
          /\ PrefetchNow(r)
  /\ UNCHANGED <<terminalConnectionFailure, taskVars, chunkCache, priority>>

-----------------------------------------------------------------------------
(* The promise of r is resolved: who waited for it is done. A foreground       *)
(* request that was refused while the task ran is not chained on it.           *)
Resolve(r) ==
  /\ pool' = Finish(pool, r)
  /\ inFlight' = inFlight \ {r}
  /\ phase' = [phase EXCEPT ![r] = "starting"]
  /\ at' = [at EXCEPT ![r] = First[r]]
  /\ foreground' = [foreground EXCEPT ![r] = IF @ = "loading" THEN "none" ELSE @]
  /\ priority' = priority \ {r}

Rejects_Fault(R) ==
  /\ inFlight' = inFlight \ R
  /\ priority' = priority \ R
  /\ UNCHANGED foreground

(* The promises of the ranges in R are rejected: a foreground request offers  *)
(* a retry, and a priority request becomes a foreground request.              *)
Rejects(R) ==
  /\ inFlight' = inFlight \ R
  /\ foreground' = [r \in Ranges |->
       CASE r \in R /\ foreground[r] = "loading" -> "failed"
         [] r \in R \cap priority /\ foreground[r] = "none" /\ ~Resident(r)
              -> "starting"
         [] OTHER -> foreground[r]]
  /\ priority' = priority \ R

Reject_Fault(r) ==
  /\ Rejects({r})
  /\ pool' = Finish(Finish(pool, r), r)
  /\ UNCHANGED <<phase, at>>

Reject(r) ==
  /\ Rejects({r})
  /\ pool' = Finish(pool, r)
  /\ phase' = [phase EXCEPT ![r] = "starting"]
  /\ at' = [at EXCEPT ![r] = First[r]]

(* The top of the loop over the chunks of the range. *)
LoopTop(r, chunk) ==
  IF terminalConnectionFailure THEN Reject(r)
  ELSE /\ at' = [at EXCEPT ![r] = chunk]
       /\ phase' = [phase EXCEPT ![r] =
            IF chunk \in chunkCache THEN "yielding" ELSE "lookup"]
       /\ UNCHANGED <<pool, inFlight, foreground, priority>>

Runs(r, await) == r \in pool.running /\ phase[r] = await

Begin(r) ==
  /\ Runs(r, "starting")
  /\ LoopTop(r, First[r])
  /\ UNCHANGED <<terminalConnectionFailure, chunkCache>>

(* getCachedChunk has an answer: the chunk, or nothing and it is fetched. *)
Looked(r) ==
  /\ Runs(r, "lookup")
  /\ \/ /\ chunkCache' = chunkCache \cup {at[r]}
        /\ phase' = [phase EXCEPT ![r] = "yielding"]
        /\ UNCHANGED <<pool, inFlight, at, foreground, priority>>
     \/ /\ ~terminalConnectionFailure
        /\ phase' = [phase EXCEPT ![r] = "fetching"]
        /\ UNCHANGED <<pool, inFlight, at, chunkCache, foreground, priority>>
     \/ terminalConnectionFailure /\ Reject(r) /\ UNCHANGED chunkCache
  /\ UNCHANGED terminalConnectionFailure

(* The server sends the chunk, and then says that the batch is done. *)
ChunkArrives(r) ==
  /\ Runs(r, "fetching")
  /\ chunkCache' = chunkCache \cup {at[r]}
  /\ UNCHANGED <<terminalConnectionFailure, pool, inFlight, taskVars, foreground,
                 priority>>

(* The tasks that wait for one chunk share its batch (inFlightBatches). *)
BatchEnds(r, await) ==
  phase' = [q \in Ranges |->
    IF Runs(q, "fetching") /\ at[q] = at[r] THEN await ELSE phase[q]]

BatchDone(r) ==
  /\ Runs(r, "fetching")
  /\ at[r] \in chunkCache
  /\ BatchEnds(r, "yielding")
  /\ UNCHANGED <<terminalConnectionFailure, pool, inFlight, at, chunkCache,
                 foreground, priority>>

(* The 60 s timer of the batch fires, on a connection that may be alive: an    *)
(* error frame names no request, and a peer may be gone without a close.       *)
BatchTimesOut(r) ==
  /\ Runs(r, "fetching")
  /\ BatchEnds(r, "rejected")
  /\ UNCHANGED <<terminalConnectionFailure, pool, inFlight, at, chunkCache,
                 foreground, priority>>

(* A chunk becomes resident that no task waits for: one that readFileData      *)
(* wants, or the late answer to a batch that timed out.                        *)
OtherChunk(chunk) ==
  /\ chunkCache' = chunkCache \cup {chunk}
  /\ UNCHANGED <<terminalConnectionFailure, pool, inFlight, taskVars, foreground,
                 priority>>

Yielded(r) ==
  /\ Runs(r, "yielding")
  /\ IF at[r] = Last[r] THEN Resolve(r) ELSE LoopTop(r, at[r] + 1)
  /\ UNCHANGED <<terminalConnectionFailure, chunkCache>>

PendingBatchesRejected ==
  phase' = [q \in Ranges |-> IF Runs(q, "fetching") THEN "rejected" ELSE phase[q]]

ConnectionFails_Fault ==
  /\ ~terminalConnectionFailure
  /\ terminalConnectionFailure' = TRUE
  /\ pool' = [pool EXCEPT !.queue = <<>>]
  /\ PendingBatchesRejected
  /\ UNCHANGED <<inFlight, foreground, priority, at, chunkCache>>

(* failConnection: the pending batches and the queued prefetches are rejected; *)
(* any other task learns it when it continues.                                 *)
ConnectionFails ==
  /\ ~terminalConnectionFailure
  /\ terminalConnectionFailure' = TRUE
  /\ Rejects(Queued(pool))
  /\ pool' = [pool EXCEPT !.queue = <<>>]
  /\ PendingBatchesRejected
  /\ UNCHANGED <<at, chunkCache>>

(* A task whose batch was rejected throws, and its slot goes to the next one   *)
(* in the queue.                                                               *)
BatchRejected(r) ==
  /\ Runs(r, "rejected")
  /\ Reject(r)
  /\ UNCHANGED <<terminalConnectionFailure, chunkCache>>

Microtask ==
  \E r \in Ranges :
    foreground[r] = "starting" \/ Runs(r, "starting") \/ Runs(r, "rejected")

Continue(r) == Operate(r) \/ Begin(r) \/ BatchRejected(r)

Event(r) == Looked(r) \/ ChunkArrives(r) \/ BatchDone(r) \/ Yielded(r)
=============================================================================
