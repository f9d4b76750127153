------------------------- MODULE BitmapLoadingProofs -------------------------
(****************************************************************************)
(* Safety of the loading of bitmaps for any ranges, any concurrency cap and *)
(* any number of failures.                                                  *)
(****************************************************************************)
EXTENDS BitmapLoading, LazyFSPrefetchProofs

-----------------------------------------------------------------------------
(* The queue *)

\* A step that does not touch the queue leaves it in order.
LEMMA SameQueue ==
  ASSUME QueueOK, UNCHANGED <<terminalConnectionFailure, pool, inFlight>>
  PROVE  QueueOK'
BY DEF QueueOK, PoolOK, Drained, Members, Queued

\* Whatever class a bitmap is fetched with, the queue stays in order.
LEMMA FetchKeepsQueue ==
  ASSUME QueueOK, NEW b \in Ranges, NEW class, Fetch(b, class),
         UNCHANGED terminalConnectionFailure
  PROVE  QueueOK'
<1>1. CASE UNCHANGED <<pool, inFlight>>
  BY <1>1, SameQueue
<1>2. CASE PrefetchFileRange(b)
  BY <1>2, PrefetchFileRangeKeepsQueue
<1>3. CASE RequestPriority(b)
  <2>1. CASE Resident(b) \/ terminalConnectionFailure
    BY <1>3, <2>1, SameQueue DEF RequestPriority
  <2>2. CASE ~Resident(b) /\ ~terminalConnectionFailure
    BY <1>3, <2>2, PrefetchNowKeepsQueue DEF RequestPriority
  <2>3. QED
    BY <2>1, <2>2
<1>4. QED
  BY <1>1, <1>2, <1>3 DEF Fetch

\* The retry of a map queues what is missing and not in flight, each once.
LEMMA RetryBatchKeepsQueue ==
  ASSUME LoadingTypeOK, QueueOK, RetryBatch, ~terminalConnectionFailure'
  PROVE  QueueOK'
<1> DEFINE refetched == Missing \ inFlight
<1>1. PICK order \in [1 .. Cardinality(refetched) -> refetched] :
        /\ \A i, j \in DOMAIN order : order[i] = order[j] => i = j
        /\ pool' = Drain([pool EXCEPT !.queue = @ \o order])
  BY DEF RetryBatch
<1>2. inFlight' = inFlight \cup refetched
  BY DEF RetryBatch
<1>3. refetched \in SUBSET Ranges /\ refetched \cap inFlight = {}
  BY DEF Missing, LoadingTypeOK
<1> HIDE DEF refetched
<1>4. IsFiniteSet(refetched) /\ Cardinality(refetched) \in Nat
  BY <1>3, FS_Subset, FS_CardinalityType, RangesAssumption DEF RangesAssumption
<1>5. order \in Seq(Ranges) /\ Len(order) = Cardinality(refetched)
  <2>1. order \in [1 .. Cardinality(refetched) -> Ranges]
    BY <1>3
  <2>2. QED
    BY <1>4, <2>1, SeqDef
<1>6. NoDuplicates(order)
  BY <1>1 DEF NoDuplicates
<1>7. {order[i] : i \in DOMAIN order} = refetched
  <2> DEFINE n == Cardinality(refetched)
             S == {order[i] : i \in 1 .. n}
  <2>1. n \in 0 .. Len(order) /\ DOMAIN order = 1 .. n
    BY <1>4, <1>5
  <2>2. Cardinality(S) = n
    BY <1>5, <1>6, <2>1, PrefixCount
  <2>3. S \in SUBSET refetched
    BY <1>4
  <2> HIDE DEF S
  <2>4. S = refetched
    BY <1>4, <2>2, <2>3, FS_Subset
  <2>5. QED
    BY <2>1, <2>4 DEF S
<1>8. {order[i] : i \in DOMAIN order} \cap Members(pool) = {}
  BY <1>3, <1>7 DEF QueueOK
<1>9. PoolOK(pool') /\ Drained(pool') /\ Members(pool') = inFlight'
  BY <1>1, <1>2, <1>5, <1>6, <1>7, <1>8, QueueMore DEF QueueOK
<1>10. QED
  BY <1>9 DEF QueueOK, PoolOK, Drained, Members, Queued

\* Tasks that run end once and free one slot.
LEMMA TaskKeepsQueue ==
  ASSUME QueueOK, NEW r \in Ranges, Continue(r) \/ Event(r)
  PROVE  QueueOK'
<1>1. ASSUME r \in pool.running, Resolve(r), UNCHANGED terminalConnectionFailure
      PROVE  QueueOK'
  BY <1>1, FinishKeepsQueue DEF Resolve
<1>2. ASSUME r \in pool.running, Reject(r), UNCHANGED terminalConnectionFailure
      PROVE  QueueOK'
  BY <1>2, FinishKeepsQueue DEF Reject, Rejects
<1>3. ASSUME NEW chunk, r \in pool.running, LoopTop(r, chunk),
             UNCHANGED terminalConnectionFailure
      PROVE  QueueOK'
  BY <1>2, <1>3, SameQueue DEF LoopTop
<1>4. CASE Operate(r)
  <2>1. CASE terminalConnectionFailure
    BY <1>4, <2>1, SameQueue DEF Operate
  <2>2. CASE ~terminalConnectionFailure
    BY <1>4, <2>2, PrefetchNowKeepsQueue DEF Operate
  <2>3. QED
    BY <2>1, <2>2
<1>5. CASE Begin(r)
  BY <1>3, <1>5 DEF Begin, Runs
<1>6. CASE BatchRejected(r)
  BY <1>2, <1>6 DEF BatchRejected, Runs
<1>7. CASE Looked(r)
  BY <1>2, <1>7, SameQueue DEF Looked, Runs
<1>8. CASE ChunkArrives(r) \/ BatchDone(r)
  BY <1>8, SameQueue DEF ChunkArrives, BatchDone
<1>9. CASE Yielded(r)
  BY <1>1, <1>3, <1>9 DEF Yielded, Runs
<1>10. QED
  BY <1>4, <1>5, <1>6, <1>7, <1>8, <1>9 DEF Continue, Event

\* No prefetch is forgotten, started twice or leaks its slot.
LEMMA QueueStep ==
  ASSUME LoadingTypeOK, QueueOK, [Next]_vars
  PROVE  QueueOK'
<1>1. ASSUME NEW b \in Ranges, NEW class \in Uses[b], Queue(b, class)
      PROVE  QueueOK'
  BY <1>1, SameQueue, FetchKeepsQueue DEF Queue, QueueBitmap
<1>2. ASSUME NEW r \in Ranges, Continue(r) \/ Event(r)
      PROVE  QueueOK'
  BY <1>2, TaskKeepsQueue
<1>3. ASSUME NEW r \in Ranges, PrepareBitmap(r) \/ PrepareGoesWrong(r)
      PROVE  QueueOK'
  BY <1>3, SameQueue DEF PrepareBitmap, PrepareGoesWrong, Prepares, prefetchVars
<1>4. ASSUME NEW late \in BOOLEAN, UpdateLoading(late)
      PROVE  QueueOK'
  BY <1>4, SameQueue DEF UpdateLoading, prefetchVars
<1>5. CASE StableWindow \/ Clear \/ Load \/ OtherReads
  BY <1>5, SameQueue DEF StableWindow, Clear, Load, OtherReads, OtherChunk, prefetchVars
<1>6. CASE Retry
  <2>1. CASE overlay = "failed"
    BY <1>6, <2>1, RetryBatchKeepsQueue DEF Retry
  <2>2. CASE overlay # "failed"
    BY <1>6, <2>2 DEF Retry, QueueOK, PoolOK, Drained, Members, Queued
  <2>3. QED
    BY <2>1, <2>2
<1>7. CASE Fails
  BY <1>7, FailureKeepsQueue, SameQueue DEF Fails, BatchTimesOut
<1>8. CASE UNCHANGED vars
  BY <1>8, SameQueue DEF vars, prefetchVars
<1>9. QED
  BY <1>1, <1>2, <1>3, <1>4, <1>5, <1>6, <1>7, <1>8 DEF Next, Advance

-----------------------------------------------------------------------------
(* Types *)

States == {"none", "starting", "loading", "failed"}
Awaits == {"starting", "lookup", "fetching", "rejected", "yielding"}

Types == LoadingTypeOK /\ QueueOK

\* Only ranges are ever in flight.
LEMMA InFlightRanges ==
  ASSUME QueueOK
  PROVE  /\ pool \in Pools /\ pool.running \subseteq Ranges
         /\ Queued(pool) \subseteq Ranges /\ inFlight \subseteq Ranges
<1>1. pool \in Pools /\ inFlight = Members(pool)
  BY DEF QueueOK, PoolOK
<1>2. pool.running \subseteq Ranges /\ pool.queue \in Seq(Ranges)
  BY <1>1 DEF Pools
<1>3. Queued(pool) \subseteq Ranges
  BY <1>2 DEF Queued
<1>4. QED
  BY <1>1, <1>2, <1>3 DEF Members

\* Types of the requests that a fetch starts.
LEMMA FetchTypes ==
  ASSUME LoadingTypeOK, NEW b \in Ranges, NEW class, Fetch(b, class)
  PROVE  foreground' \in [Ranges -> States] /\ priority' \subseteq Ranges
<1>1. foreground \in [Ranges -> States] /\ priority \subseteq Ranges
  BY DEF LoadingTypeOK, States
<1>2. RequestForeground(b) => foreground' \in [Ranges -> States]
  BY <1>1 DEF RequestForeground, States
<1>3. QED
  BY <1>1, <1>2 DEF Fetch, RequestPriority

\* Types of what a task changes, but for the queue.
LEMMA TaskTypes ==
  ASSUME Types, NEW r \in Ranges, Continue(r) \/ Event(r)
  PROVE  /\ terminalConnectionFailure' = terminalConnectionFailure
         /\ phase' \in [Ranges -> Awaits]
         /\ at' \in [Ranges -> Nat] /\ chunkCache' \subseteq Nat
         /\ foreground' \in [Ranges -> States] /\ priority' \subseteq Ranges
<1> USE DEF Types, Awaits
<1>1. /\ phase \in [Ranges -> Awaits]
      /\ at \in [Ranges -> Nat] /\ chunkCache \subseteq Nat
      /\ foreground \in [Ranges -> States] /\ priority \subseteq Ranges
  BY DEF LoadingTypeOK, States
<1>2. First \in [Ranges -> Nat] /\ Last \in [Ranges -> Nat]
  BY RangesAssumption DEF RangesAssumption
<1> DEFINE Kept == /\ phase' \in [Ranges -> Awaits]
                   /\ at' \in [Ranges -> Nat]
                   /\ foreground' \in [Ranges -> States] /\ priority' \subseteq Ranges
<1>3. ASSUME Resolve(r)
      PROVE  Kept
  BY <1>1, <1>2, <1>3 DEF Resolve, States
<1>4. ASSUME NEW R, Rejects(R)
      PROVE  foreground' \in [Ranges -> States] /\ priority' \subseteq Ranges
  BY <1>1, <1>4 DEF Rejects, States
<1>5. ASSUME Reject(r)
      PROVE  Kept
  BY <1>1, <1>2, <1>4, <1>5 DEF Reject
<1>6. ASSUME NEW chunk \in Nat, LoopTop(r, chunk)
      PROVE  Kept
  BY <1>1, <1>5, <1>6 DEF LoopTop
<1>7. CASE Operate(r)
  BY <1>1, <1>7 DEF Operate, taskVars, States
<1>8. CASE Begin(r)
  BY <1>1, <1>2, <1>6, <1>8 DEF Begin
<1>9. CASE BatchRejected(r)
  BY <1>1, <1>5, <1>9 DEF BatchRejected
<1>10. CASE Looked(r)
  BY <1>1, <1>5, <1>10 DEF Looked
<1>11. CASE ChunkArrives(r) \/ BatchDone(r)
  BY <1>1, <1>11 DEF ChunkArrives, BatchDone, BatchEnds, taskVars
<1>12. CASE Yielded(r)
  <2>1. at[r] + 1 \in Nat
    BY <1>1
  <2>2. QED
    BY <1>1, <1>3, <1>6, <1>12, <2>1 DEF Yielded
<1>13. QED
  BY <1>7, <1>8, <1>9, <1>10, <1>11, <1>12 DEF Continue, Event

\* The bound on mishaps is kept.
LEMMA MishapTypes ==
  ASSUME LoadingTypeOK, Mishap
  PROVE  mishaps' \in 0 .. MaxMishaps
BY LoadingAssumption DEF LoadingTypeOK, Mishap, LoadingAssumption

\* The gate counts sets of ranges.
LEMMA ProgressType ==
  ASSUME LoadingTypeOK
  PROVE  Progress \in [resident : Nat, total : Nat, prepared : Nat, required : Nat]
<1>1. \A S \in SUBSET Ranges : Cardinality(S) \in Nat
  BY FS_Subset, FS_CardinalityType, RangesAssumption DEF RangesAssumption
<1>2. /\ batch.bitmaps \in SUBSET Ranges /\ batch.required \in SUBSET Ranges
      /\ offsets \in SUBSET Ranges
  BY DEF LoadingTypeOK
<1>3. {b \in batch.bitmaps : Resident(b)} \in SUBSET Ranges
  BY <1>2
<1>4. QED
  BY <1>1, <1>2, <1>3 DEF Progress

\* Every step keeps the types.
LEMMA TypeStep ==
  ASSUME Types, [Next]_vars
  PROVE  LoadingTypeOK'
<1> USE DEF Types, Awaits
<1>1. QueueOK'
  BY QueueStep
<1>2. /\ pool' \in [queue : Seq(Ranges), active : Nat, running : SUBSET Ranges]
      /\ inFlight' \subseteq Ranges
  BY <1>1 DEF QueueOK, PoolOK, Pools, Members, Queued
<1> USE <1>2
<1>3. ASSUME NEW b \in Ranges, NEW class \in Uses[b], Queue(b, class)
      PROVE  LoadingTypeOK'
  <2>1. foreground' \in [Ranges -> States] /\ priority' \subseteq Ranges
    BY <1>3, FetchTypes DEF Queue, QueueBitmap, LoadingTypeOK, States
  <2>2. batch' \in [bitmaps : SUBSET Ranges, required : SUBSET Ranges]
        /\ stable' \in BOOLEAN
    <3>1. batch \in [bitmaps : SUBSET Ranges, required : SUBSET Ranges] /\ stable \in BOOLEAN
      BY DEF LoadingTypeOK
    <3>2. AddToBatch(b, class)
      BY <1>3 DEF Queue, QueueBitmap
    <3>3. CASE ~loading
      BY <3>1, <3>2, <3>3 DEF AddToBatch
    <3>4. CASE loading
      <4> DEFINE bs == batch.bitmaps \cup {b}
                 rs == batch.required \cup (IF IsMapRequired(class) THEN {b} ELSE {})
      <4>1. bs \in SUBSET Ranges /\ rs \in SUBSET Ranges
        BY <3>1
      <4>2. batch' = [bitmaps |-> bs, required |-> rs] /\ stable' \in BOOLEAN
        BY <3>2, <3>4 DEF AddToBatch
      <4> HIDE DEF bs, rs
      <4>3. QED
        BY <4>1, <4>2
    <3>5. QED
      BY <3>3, <3>4
  <2>3. /\ lane' \in [Ranges -> {"none", "normal", "priority"}]
        /\ blocking' \subseteq Ranges /\ quiet' \subseteq Ranges
    <3>1. QueueBitmap(b, class)
      BY <1>3 DEF Queue
    <3>2. lane' \in [Ranges -> {"none", "normal", "priority"}]
      <4>1. lane \in [Ranges -> {"none", "normal", "priority"}]
        BY DEF LoadingTypeOK
      <4>2. lane' \in {lane, [lane EXCEPT ![b] = "priority"], [lane EXCEPT ![b] = "normal"]}
        BY <3>1 DEF QueueBitmap
      <4>3. QED
        BY <4>1, <4>2
    <3>3. blocking' = blocking \/ blocking' = blocking \cup {b}
      BY <3>1 DEF QueueBitmap
    <3>4. quiet' \in {quiet, quiet \cup {b}, quiet \ {b}}
      BY <3>1 DEF QueueBitmap, Quieted
    <3>5. blocking \subseteq Ranges /\ quiet \subseteq Ranges
      BY DEF LoadingTypeOK
    <3>6. QED
      BY <3>2, <3>3, <3>4, <3>5
  <2>4. QED
    BY <1>3, <2>1, <2>2, <2>3 DEF Queue, taskVars, LoadingTypeOK, States
<1>4. ASSUME NEW r \in Ranges, Continue(r) \/ Event(r), UNCHANGED loadingVars
      PROVE  LoadingTypeOK'
  BY <1>4, TaskTypes DEF loadingVars, bitmapVars, gateVars, LoadingTypeOK, States
<1>5. ASSUME NEW r \in Ranges, PrepareBitmap(r) \/ PrepareGoesWrong(r)
      PROVE  LoadingTypeOK'
  <2>1. /\ lane' \in [Ranges -> {"none", "normal", "priority"}]
        /\ blocking' \subseteq Ranges /\ offsets' \subseteq Ranges /\ quiet' \subseteq Ranges
    <3>1. Prepares(r) /\ offsets' \in {offsets, offsets \cup {r}, {r}}
      BY <1>5 DEF PrepareBitmap, PrepareGoesWrong
    <3>2. /\ lane' = [lane EXCEPT ![r] = "none"]
          /\ blocking' = blocking \ {r} /\ quiet' = quiet \ {r}
      BY <3>1 DEF Prepares
    <3>3. /\ lane \in [Ranges -> {"none", "normal", "priority"}]
          /\ blocking \subseteq Ranges /\ offsets \subseteq Ranges /\ quiet \subseteq Ranges
      BY DEF LoadingTypeOK
    <3>4. QED
      BY <3>1, <3>2, <3>3
  <2>2. mishaps' \in 0 .. MaxMishaps
    BY <1>5, MishapTypes DEF PrepareBitmap, PrepareGoesWrong, LoadingTypeOK
  <2>3. UNCHANGED prefetchVars /\ UNCHANGED gateVars
    BY <1>5 DEF PrepareBitmap, PrepareGoesWrong, Prepares
  <2>4. QED
    BY <2>1, <2>2, <2>3 DEF prefetchVars, gateVars, LoadingTypeOK
<1>6. ASSUME NEW late \in BOOLEAN, UpdateLoading(late)
      PROVE  LoadingTypeOK'
  <2>1. shown' \in [resident : Nat, total : Nat, prepared : Nat, required : Nat]
    <3>1. shown' = NoProgress \/ shown' = Progress
      BY <1>6 DEF UpdateLoading, NoLoading
    <3>2. NoProgress \in [resident : Nat, total : Nat, prepared : Nat, required : Nat]
      BY DEF NoProgress
    <3>3. QED
      BY <3>1, <3>2, ProgressType
  <2>2. batch' \in [bitmaps : SUBSET Ranges, required : SUBSET Ranges]
    <3>1. batch \in [bitmaps : SUBSET Ranges, required : SUBSET Ranges]
      BY DEF LoadingTypeOK
    <3>2. batch' = NoBatch \/ batch' = batch
      BY <1>6 DEF UpdateLoading, NoLoading
    <3>3. QED
      BY <3>1, <3>2 DEF NoBatch
  <2>3. QED
    <3>1. loading' \in BOOLEAN /\ stable' \in BOOLEAN /\ overlay' \in {"none", "loading", "failed"}
      BY <1>6 DEF UpdateLoading, NoLoading, LoadingTypeOK
    <3>2. UNCHANGED prefetchVars /\ UNCHANGED bitmapVars /\ UNCHANGED mishaps
      BY <1>6 DEF UpdateLoading
    <3>3. QED
      BY <2>1, <2>2, <3>1, <3>2 DEF prefetchVars, bitmapVars, LoadingTypeOK
<1>7. CASE StableWindow
  BY <1>7 DEF StableWindow, prefetchVars, bitmapVars, LoadingTypeOK
<1>8. CASE Load
  <2>1. offsets' \subseteq Ranges /\ mishaps' \in 0 .. MaxMishaps
    BY <1>8, MishapTypes DEF Load, LoadingTypeOK
  <2>2. QED
    BY <1>8, <2>1 DEF Load, NoBatch, NoProgress, prefetchVars, LoadingTypeOK
<1>9. CASE Clear
  BY <1>9 DEF Clear, NoLoading, NoBatch, NoProgress, prefetchVars, bitmapVars, LoadingTypeOK
<1>10. CASE Retry
  <2>1. foreground' \in [Ranges -> States]
    BY <1>10 DEF Retry, LoadingTypeOK, States
  <2>2. /\ lane' \in [Ranges -> {"none", "normal", "priority"}]
        /\ overlay' \in {"none", "loading", "failed"}
        /\ shown' \in [resident : Nat, total : Nat, prepared : Nat, required : Nat]
    BY <1>10 DEF Retry, RetryBatch, NoProgress, LoadingTypeOK
  <2>3. QED
    BY <1>10, <2>1, <2>2 DEF Retry, taskVars, LoadingTypeOK, States
<1>11. CASE Fails
  <2>1. foreground' \in [Ranges -> States] /\ priority' \subseteq Ranges
    BY <1>11 DEF Fails, ConnectionFails, BatchTimesOut, Rejects, LoadingTypeOK, States
  <2>2. phase' \in [Ranges -> Awaits]
    BY <1>11 DEF Fails, ConnectionFails, PendingBatchesRejected, BatchTimesOut, BatchEnds,
                 LoadingTypeOK
  <2>3. UNCHANGED <<at, chunkCache, bitmapVars, gateVars>>
    BY <1>11 DEF Fails, ConnectionFails, BatchTimesOut
  <2>4. terminalConnectionFailure' \in BOOLEAN /\ mishaps' \in 0 .. MaxMishaps
    BY <1>11, MishapTypes DEF Fails, ConnectionFails, BatchTimesOut, LoadingTypeOK
  <2>5. QED
    BY <2>1, <2>2, <2>3, <2>4 DEF bitmapVars, gateVars, LoadingTypeOK, States
<1>11a. CASE OtherReads
  <2>1. chunkCache' \subseteq Nat
    <3>1. PICK chunk \in Chunks : OtherChunk(chunk)
      BY <1>11a DEF OtherReads
    <3>2. PICK r \in Ranges : chunk \in First[r] .. Last[r]
      BY <3>1 DEF Chunks
    <3>3. First[r] \in Nat /\ Last[r] \in Nat
      BY RangesAssumption DEF RangesAssumption
    <3>4. chunk \in Nat
      BY <3>2, <3>3
    <3>5. QED
      BY <3>1, <3>4 DEF OtherChunk, LoadingTypeOK
  <2>2. mishaps' \in 0 .. MaxMishaps
    BY <1>11a, MishapTypes DEF OtherReads
  <2>3. QED
    BY <1>11a, <2>1, <2>2
       DEF OtherReads, OtherChunk, taskVars, bitmapVars, gateVars, LoadingTypeOK
<1>12. CASE UNCHANGED vars
  BY <1>12 DEF vars, prefetchVars, loadingVars, bitmapVars, gateVars, LoadingTypeOK
<1>13. QED
  BY <1>3, <1>4, <1>5, <1>6, <1>7, <1>8, <1>9, <1>10, <1>11, <1>11a, <1>12
     DEF Next, Advance

\* At the start nothing is queued.
LEMMA TypesInit ==
  ASSUME Init
  PROVE  Types
<1> USE RangesAssumption, LoadingAssumption DEF Init, PrefetchInit
<1>1. QueueOK
  <2>1. pool \in Pools /\ Queued(pool) = {} /\ pool.running = {}
    BY DEF Pools, Queued
  <2>2. QED
    BY <2>1, FS_EmptySet
       DEF QueueOK, PoolOK, Drained, Members, NoDuplicates
<1>2. pool \in Pools
  BY <1>1 DEF QueueOK, PoolOK
<1>3. /\ batch \in [bitmaps : SUBSET Ranges, required : SUBSET Ranges]
      /\ shown \in [resident : Nat, total : Nat, prepared : Nat, required : Nat]
  BY DEF NoBatch, NoProgress
<1>4. /\ lane \in [Ranges -> {"none", "normal", "priority"}]
      /\ foreground \in [Ranges -> {"none", "starting", "loading", "failed"}]
      /\ phase \in [Ranges -> Awaits]
      /\ at \in [Ranges -> Nat]
      /\ mishaps \in 0 .. MaxMishaps
  BY DEF RangesAssumption, LoadingAssumption, Awaits
<1>5. QED
  BY <1>1, <1>2, <1>3, <1>4 DEF Types, Pools, LoadingTypeOK, Awaits

\* Types and queue, whatever happens.
THEOREM TypesHold == Spec => []Types
<1>1. Init => Types
  BY TypesInit
<1>2. Types /\ [Next]_vars => Types'
  BY QueueStep, TypeStep DEF Types
<1>3. QED
  BY <1>1, <1>2, PTL DEF Spec

\* Every variable keeps its type: in particular the number of slots in use is
\* never negative.
THEOREM TypeCorrect == Spec => []LoadingTypeOK
BY TypesHold, PTL DEF Types

\* Every prefetch whose promise was handed out is queued, once, or runs, and a
\* terminal failure leaves none in the queue.
THEOREM PrefetchesKept == Spec => []NoLostPrefetch
<1>1. Types => NoLostPrefetch
  BY DEF Types, QueueOK, PoolOK, Members, NoDuplicates, NoLostPrefetch
<1>2. QED
  BY <1>1, TypesHold, PTL

\* Slots are counted exactly, and none is free while a prefetch is queued.
THEOREM SlotsCounted == Spec => []SlotsAccounted
<1>1. Types => SlotsAccounted
  BY DEF Types, QueueOK, PoolOK, Drained, SlotsAccounted
<1>2. QED
  BY <1>1, TypesHold, PTL

-----------------------------------------------------------------------------
(* Who waits *)

\* Foreground and priority requests that wait have a prefetch under way.
LEMMA WaitersStep ==
  ASSUME Types, WaitersAreServed, [Next]_vars
  PROVE  WaitersAreServed'
<1>1. /\ foreground \in [Ranges -> States] /\ priority \subseteq Ranges
      /\ inFlight \subseteq Ranges
  BY DEF Types, LoadingTypeOK, States
<1>2. \A r \in Ranges : foreground[r] = "loading" \/ r \in priority => r \in inFlight
  BY DEF WaitersAreServed
<1>3. ASSUME UNCHANGED <<foreground, priority, inFlight>>
      PROVE  WaitersAreServed'
  BY <1>3 DEF WaitersAreServed
<1>4. ASSUME NEW b \in Ranges, NEW class \in Uses[b], Queue(b, class)
      PROVE  WaitersAreServed'
  <2>1. ASSUME RequestForeground(b), UNCHANGED <<priority, inFlight>>
        PROVE  WaitersAreServed'
    BY <1>1, <1>2, <2>1 DEF RequestForeground, WaitersAreServed
  <2>2. ASSUME PrefetchFileRange(b), UNCHANGED <<foreground, priority>>
        PROVE  WaitersAreServed'
    BY <1>2, <2>2 DEF PrefetchFileRange, WaitersAreServed
  <2>3. ASSUME RequestPriority(b)
        PROVE  WaitersAreServed'
    BY <1>2, <1>3, <2>1, <2>3 DEF RequestPriority, PrefetchNow, WaitersAreServed
  <2>4. Fetch(b, class) \/ UNCHANGED <<foreground, priority, inFlight>>
    BY <1>4 DEF Queue, QueueBitmap
  <2>5. QED
    BY <1>3, <2>1, <2>2, <2>3, <2>4 DEF Fetch
<1>5. ASSUME NEW R, Rejects(R)
      PROVE  WaitersAreServed'
  BY <1>1, <1>2, <1>5 DEF Rejects, WaitersAreServed
<1>6. ASSUME NEW r \in Ranges, Continue(r) \/ Event(r)
      PROVE  WaitersAreServed'
  <2>1. ASSUME Resolve(r)
        PROVE  WaitersAreServed'
    BY <1>1, <1>2, <2>1 DEF Resolve, WaitersAreServed
  <2>2. ASSUME NEW chunk, LoopTop(r, chunk)
        PROVE  WaitersAreServed'
    BY <1>3, <1>5, <2>2 DEF LoopTop, Reject
  <2>3. CASE Operate(r)
    BY <1>1, <1>2, <2>3 DEF Operate, PrefetchNow, WaitersAreServed
  <2>4. CASE Begin(r)
    BY <2>2, <2>4 DEF Begin
  <2>5. CASE BatchRejected(r)
    BY <1>5, <2>5 DEF BatchRejected, Reject
  <2>6. CASE Looked(r)
    BY <1>3, <1>5, <2>6 DEF Looked, Reject
  <2>7. CASE ChunkArrives(r) \/ BatchDone(r)
    BY <1>3, <2>7 DEF ChunkArrives, BatchDone
  <2>8. CASE Yielded(r)
    BY <2>1, <2>2, <2>8 DEF Yielded
  <2>9. QED
    BY <1>6, <2>3, <2>4, <2>5, <2>6, <2>7, <2>8 DEF Continue, Event
<1>7. CASE Retry
  BY <1>1, <1>2, <1>7 DEF Retry, RetryBatch, WaitersAreServed
<1>8. CASE Fails
  BY <1>3, <1>5, <1>8 DEF Fails, ConnectionFails, BatchTimesOut
<1>9. CASE \/ StableWindow \/ Clear \/ Load \/ OtherReads
           \/ \E r \in Ranges : PrepareBitmap(r) \/ PrepareGoesWrong(r)
  BY <1>3, <1>9 DEF StableWindow, Clear, Load, OtherReads, OtherChunk, PrepareBitmap,
                    PrepareGoesWrong, Prepares, prefetchVars
<1>10. CASE \E late \in BOOLEAN : UpdateLoading(late)
  BY <1>3, <1>10 DEF UpdateLoading, prefetchVars
<1>11. CASE UNCHANGED vars
  BY <1>3, <1>11 DEF vars, prefetchVars
<1>12. QED
  BY <1>4, <1>6, <1>7, <1>8, <1>9, <1>10, <1>11 DEF Next, Advance

\* Nobody waits for a prefetch that is not under way.
THEOREM WaitersServed == Spec => []WaitersAreServed
<1>1. Init => WaitersAreServed
  BY DEF Init, PrefetchInit, WaitersAreServed
<1>2. Types /\ WaitersAreServed /\ [Next]_vars => WaitersAreServed'
  BY WaitersStep
<1>3. QED
  BY <1>1, <1>2, TypesHold, PTL DEF Spec

-----------------------------------------------------------------------------
(* A bitmap that blocks the game. Three facts carry the argument: a task has  *)
(* every chunk before the one it is at, so a range whose task succeeds is     *)
(* resident; what the gate requires is part of its batch, so a retry of the   *)
(* map makes only resident bitmaps urgent; and a bitmap in the priority lane  *)
(* that is not resident has a request that hears of a failure, unless         *)
(* MAP_REQUIRED put it there.                                                 *)

TasksOK ==
  \A r \in Ranges :
    /\ at[r] \in First[r] .. Last[r]
    /\ First[r] .. at[r] - 1 \subseteq chunkCache
    /\ phase[r] = "yielding" => at[r] \in chunkCache

RequiredInBatch == batch.required \subseteq batch.bitmaps

Asked(b) ==
  \/ b \in priority
  \/ foreground[b] # "none"
  \/ b \in quiet

PriorityAsked ==
  \A b \in Ranges : ~Resident(b) =>
    /\ b \in blocking => lane[b] = "priority"
    /\ lane[b] = "priority" => Asked(b)

\* Tasks advance over resident chunks only.
LEMMA TasksStep ==
  ASSUME Types, TasksOK, [Next]_vars
  PROVE  TasksOK'
<1>1. /\ phase \in [Ranges -> Awaits]
      /\ at \in [Ranges -> Nat]
      /\ First \in [Ranges -> Nat] /\ Last \in [Ranges -> Nat]
      /\ \A r \in Ranges : First[r] <= Last[r]
  BY RangesAssumption DEF Types, LoadingTypeOK, RangesAssumption, Awaits
<1>2. ASSUME UNCHANGED taskVars, chunkCache \subseteq chunkCache'
      PROVE  TasksOK'
  BY <1>2 DEF TasksOK, taskVars
<1>3. ASSUME NEW r \in Ranges, UNCHANGED chunkCache,
             phase' = [phase EXCEPT ![r] = "starting"],
             at' = [at EXCEPT ![r] = First[r]]
      PROVE  TasksOK'
  BY <1>1, <1>3 DEF TasksOK
<1>4. ASSUME NEW r \in Ranges, NEW chunk \in First[r] .. Last[r], LoopTop(r, chunk),
             UNCHANGED chunkCache, First[r] .. chunk - 1 \subseteq chunkCache
      PROVE  TasksOK'
  <2>1. CASE terminalConnectionFailure
    BY <1>3, <1>4, <2>1 DEF LoopTop, Reject
  <2>2. CASE ~terminalConnectionFailure
    BY <1>1, <1>4, <2>2 DEF LoopTop, TasksOK
  <2>3. QED
    BY <2>1, <2>2
<1>5. ASSUME NEW r \in Ranges, Continue(r) \/ Event(r)
      PROVE  TasksOK'
  <2>1. CASE Operate(r)
    BY <1>2, <2>1 DEF Operate
  <2>2. CASE Begin(r)
    <3>1. First[r] \in First[r] .. Last[r] /\ First[r] .. First[r] - 1 = {}
      BY <1>1
    <3>2. QED
      BY <1>4, <2>2, <3>1 DEF Begin
  <2>3. CASE BatchRejected(r)
    BY <1>3, <2>3 DEF BatchRejected, Reject
  <2>4. CASE Looked(r)
    <3>1. CASE Reject(r) /\ UNCHANGED chunkCache
      BY <1>3, <3>1 DEF Reject
    <3>2. CASE ~(Reject(r) /\ UNCHANGED chunkCache)
      BY <1>1, <2>4, <3>2 DEF Looked, TasksOK
    <3>3. QED
      BY <3>1, <3>2
  <2>5. CASE ChunkArrives(r)
    BY <1>2, <2>5 DEF ChunkArrives
  <2>6. CASE BatchDone(r)
    <3>1. \A q \in Ranges :
             phase'[q] = phase[q] \/ (phase'[q] = "yielding" /\ at[q] \in chunkCache)
      BY <2>6 DEF BatchDone, BatchEnds
    <3>2. UNCHANGED <<at, chunkCache>>
      BY <2>6 DEF BatchDone
    <3>3. QED
      BY <3>1, <3>2 DEF TasksOK
  <2>7. CASE Yielded(r)
    <3>1. at[r] \in chunkCache /\ phase[r] = "yielding"
      BY <2>7 DEF Yielded, Runs, TasksOK
    <3>2. CASE at[r] = Last[r]
      BY <1>3, <2>7, <3>2 DEF Yielded, Resolve
    <3>3. CASE at[r] # Last[r]
      <4>1. /\ at[r] + 1 \in First[r] .. Last[r]
            /\ First[r] .. (at[r] + 1) - 1 \subseteq chunkCache
        BY <1>1, <3>1, <3>3 DEF TasksOK
      <4>2. QED
        BY <1>4, <2>7, <3>3, <4>1 DEF Yielded
    <3>4. QED
      BY <3>2, <3>3
  <2>8. QED
    BY <1>5, <2>1, <2>2, <2>3, <2>4, <2>5, <2>6, <2>7 DEF Continue, Event
<1>6. ASSUME NEW b \in Ranges, NEW class \in Uses[b], Queue(b, class)
      PROVE  TasksOK'
  BY <1>2, <1>6 DEF Queue
<1>7. CASE Fails
  <2>1. \A q \in Ranges : phase'[q] = phase[q] \/ phase'[q] = "rejected"
    BY <1>7 DEF Fails, ConnectionFails, PendingBatchesRejected, BatchTimesOut, BatchEnds
  <2>2. UNCHANGED <<at, chunkCache>>
    BY <1>7 DEF Fails, ConnectionFails, BatchTimesOut
  <2>3. QED
    BY <2>1, <2>2 DEF TasksOK
<1>8. CASE \/ Retry \/ StableWindow \/ Clear \/ Load \/ OtherReads
           \/ \E r \in Ranges : PrepareBitmap(r) \/ PrepareGoesWrong(r)
  BY <1>2, <1>8 DEF Retry, StableWindow, Clear, Load, OtherReads, OtherChunk, PrepareBitmap,
                    PrepareGoesWrong, Prepares, prefetchVars, taskVars
<1>9. CASE \E late \in BOOLEAN : UpdateLoading(late)
  BY <1>2, <1>9 DEF UpdateLoading, prefetchVars, taskVars
<1>10. CASE UNCHANGED vars
  BY <1>2, <1>10 DEF vars, prefetchVars, taskVars
<1>11. QED
  BY <1>5, <1>6, <1>7, <1>8, <1>9, <1>10 DEF Next, Advance

\* Chunks stay resident, and a range whose task succeeds is resident.
LEMMA ResidentStays ==
  ASSUME Types, TasksOK, [Next]_vars
  PROVE  /\ chunkCache \subseteq chunkCache'
         /\ \A r \in Ranges : Yielded(r) /\ at[r] = Last[r] => Resident(r)
<1>1. \A r \in Ranges : Yielded(r) /\ at[r] = Last[r] => Resident(r)
  <2> SUFFICES ASSUME NEW r \in Ranges, Yielded(r), at[r] = Last[r]
               PROVE  Resident(r)
    OBVIOUS
  <2>1. at[r] \in chunkCache /\ First[r] .. at[r] - 1 \subseteq chunkCache
    BY DEF Yielded, Runs, TasksOK
  <2>2. First[r] \in Nat /\ Last[r] \in Nat
    BY RangesAssumption DEF RangesAssumption
  <2>3. ASSUME NEW k \in First[r] .. Last[r]
        PROVE  k = Last[r] \/ k \in First[r] .. Last[r] - 1
    BY <2>2
  <2>4. QED
    BY <2>1, <2>3 DEF Resident
<1>2. chunkCache \subseteq chunkCache'
  BY DEF Next, Advance, Continue, Event, Operate, Begin, BatchRejected, Looked,
         ChunkArrives, BatchDone, Yielded, PrepareBitmap, PrepareGoesWrong, Prepares,
         UpdateLoading, StableWindow, Clear, Load, Retry, Fails, ConnectionFails,
         BatchTimesOut, OtherReads, OtherChunk, Queue, vars, prefetchVars
<1>3. QED
  BY <1>1, <1>2

\* What is required is in the batch.
LEMMA BatchStep ==
  ASSUME Types, RequiredInBatch, [Next]_vars
  PROVE  RequiredInBatch'
<1>1. ASSUME UNCHANGED batch \/ batch' = NoBatch
      PROVE  RequiredInBatch'
  BY <1>1 DEF RequiredInBatch, NoBatch
<1>2. ASSUME NEW b \in Ranges, NEW class \in Uses[b], Queue(b, class)
      PROVE  RequiredInBatch'
  BY <1>1, <1>2 DEF Queue, QueueBitmap, AddToBatch, RequiredInBatch
<1>3. QED
  BY <1>1, <1>2
     DEF Next, Advance, PrepareBitmap, PrepareGoesWrong, Prepares, UpdateLoading,
         NoLoading, StableWindow, Clear, Load, Retry, Fails, OtherReads, vars, gateVars,
         loadingVars

\* A bitmap in the priority lane never loses its last asker before it is
\* resident.
LEMMA AskedStep ==
  ASSUME Types, TasksOK, RequiredInBatch, PriorityAsked, [Next]_vars
  PROVE  PriorityAsked'
<1>1. /\ foreground \in [Ranges -> States] /\ priority \subseteq Ranges
      /\ lane \in [Ranges -> {"none", "normal", "priority"}]
  BY DEF Types, LoadingTypeOK, States
<1>2. /\ chunkCache \subseteq chunkCache'
      /\ \A r \in Ranges : Resident(r) => Resident(r)'
  BY ResidentStays DEF Resident
<1>3. SUFFICES ASSUME NEW b \in Ranges, ~Resident(b)'
               PROVE  /\ (b \in blocking)' => (lane[b] = "priority")'
                      /\ (lane[b] = "priority")' => Asked(b)'
  BY DEF PriorityAsked
<1>4. /\ ~Resident(b)
      /\ b \in blocking => lane[b] = "priority"
      /\ lane[b] = "priority" => Asked(b)
  BY <1>2, <1>3 DEF PriorityAsked
<1> DEFINE Goal == /\ (b \in blocking)' => (lane[b] = "priority")'
                   /\ (lane[b] = "priority")' => Asked(b)'
           SameLane == UNCHANGED <<lane, blocking, quiet>>
<1>5. ASSUME SameLane, UNCHANGED <<priority, foreground>>
      PROVE  Goal
  BY <1>4, <1>5 DEF Asked
<1>6. ASSUME NEW q \in Ranges, NEW class \in Uses[q], Queue(q, class)
      PROVE  Goal
  <2>1. QueueBitmap(q, class) /\ class \in Classes
    BY <1>6, LoadingAssumption DEF Queue, LoadingAssumption
  <2>2. CASE \/ q \in offsets
             \/ ~(lane[q] = "none" \/ (lane[q] = "normal" /\ IsPriority(class)))
    <3>1. UNCHANGED <<lane, quiet, foreground, priority>>
      BY <2>1, <2>2 DEF QueueBitmap
    <3>2. (b \in blocking)' => b \in blocking \/ lane[b] = "priority"
      BY <1>1, <2>1, <2>2 DEF QueueBitmap, IsPriority
    <3>3. QED
      BY <1>4, <3>1, <3>2 DEF Asked
  <2>3. CASE /\ lane' = [lane EXCEPT ![q] =
                            IF IsPriority(class) THEN "priority" ELSE "normal"]
             /\ lane[q] = "none" \/ (lane[q] = "normal" /\ IsPriority(class))
             /\ quiet' = Quieted(q, class)
             /\ Fetch(q, class)
    <3>1. /\ priority \subseteq priority'
          /\ foreground[b] # "none" => foreground'[b] # "none"
      BY <1>1, <2>3 DEF Fetch, RequestForeground, RequestPriority
    <3>2. CASE b # q
      <4>1. (b \in quiet)' <=> b \in quiet
        BY <2>3, <3>2 DEF Quieted
      <4>2. (b \in blocking)' => b \in blocking
        BY <2>1, <3>2 DEF QueueBitmap
      <4>3. QED
        BY <1>1, <1>4, <2>3, <3>1, <3>2, <4>1, <4>2 DEF Asked
    <3>3. CASE b = q
      <4>1. CASE class = "BACKGROUND"
        BY <1>1, <1>4, <2>1, <2>3, <3>3, <4>1 DEF QueueBitmap, IsPriority
      <4>2. CASE class = "MAP_REQUIRED"
        <5>1. Asked(b)'
          BY <2>3, <3>3, <4>2 DEF Asked, Quieted
        <5>2. lane'[b] = "priority"
          BY <1>1, <2>3, <3>3, <4>2 DEF IsPriority
        <5>3. QED
          BY <5>1, <5>2
      <4>3. CASE class = "BLOCKING_VISIBLE"
        <5>1. RequestForeground(b)
          BY <2>3, <3>3, <4>3 DEF Fetch
        <5>2. foreground'[b] # "none"
          BY <1>1, <1>4, <5>1 DEF RequestForeground
        <5>3. lane'[b] = "priority"
          BY <1>1, <2>3, <3>3, <4>3 DEF IsPriority
        <5>4. QED
          BY <5>2, <5>3 DEF Asked
      <4>4. CASE class = "TRANSIENT_EFFECT"
        <5>1. RequestPriority(b)
          BY <2>3, <3>3, <4>4 DEF Fetch
        <5>2. foreground'[b] # "none" \/ b \in priority'
          BY <1>1, <1>4, <5>1 DEF RequestPriority, RequestForeground
        <5>3. lane'[b] = "priority"
          BY <1>1, <2>3, <3>3, <4>4 DEF IsPriority
        <5>4. QED
          BY <5>2, <5>3 DEF Asked
      <4>5. QED
        BY <2>1, <4>1, <4>2, <4>3, <4>4 DEF Classes
    <3>4. QED
      BY <3>2, <3>3
  <2>4. QED
    BY <2>1, <2>2, <2>3 DEF QueueBitmap
<1>7. ASSUME NEW R, Rejects(R), SameLane
      PROVE  Goal
  <2>1. Asked(b) => Asked(b)'
    BY <1>1, <1>4, <1>7 DEF Rejects, Asked
  <2>2. QED
    BY <1>4, <1>7, <2>1
<1>8. ASSUME NEW r \in Ranges, Continue(r) \/ Event(r), UNCHANGED loadingVars
      PROVE  Goal
  <2> USE DEF loadingVars, bitmapVars
  <2>1. SameLane
    BY <1>8
  <2>2. ASSUME Reject(r)
        PROVE  Goal
    BY <1>7, <2>1, <2>2 DEF Reject
  <2>3. ASSUME NEW chunk, LoopTop(r, chunk)
        PROVE  Goal
    BY <1>5, <2>1, <2>2, <2>3 DEF LoopTop
  <2>4. CASE Operate(r)
    <3>1. Asked(b) => Asked(b)'
      BY <1>1, <2>1, <2>4 DEF Operate, Asked
    <3>2. QED
      BY <1>4, <2>1, <3>1
  <2>5. CASE Begin(r)
    BY <2>3, <2>5 DEF Begin
  <2>6. CASE BatchRejected(r)
    BY <2>2, <2>6 DEF BatchRejected
  <2>7. CASE Looked(r)
    BY <1>5, <2>1, <2>2, <2>7 DEF Looked
  <2>8. CASE ChunkArrives(r) \/ BatchDone(r)
    BY <1>5, <2>1, <2>8 DEF ChunkArrives, BatchDone
  <2>9. CASE Yielded(r)
    <3>1. CASE at[r] # Last[r]
      BY <2>3, <2>9, <3>1 DEF Yielded
    <3>2. CASE at[r] = Last[r]
      <4>1. b # r
        BY <1>4, <2>9, <3>2, ResidentStays
      <4>2. Asked(b) => Asked(b)'
        BY <1>1, <2>1, <2>9, <3>2, <4>1 DEF Yielded, Resolve, Asked
      <4>3. QED
        BY <1>4, <2>1, <4>2
    <3>3. QED
      BY <3>1, <3>2
  <2>10. QED
    BY <1>8, <2>4, <2>5, <2>6, <2>7, <2>8, <2>9 DEF Continue, Event
<1>9. ASSUME NEW r \in Ranges, Prepares(r)
      PROVE  Goal
  <2>1. UNCHANGED <<priority, foreground>>
    BY <1>9 DEF Prepares, prefetchVars
  <2>2. CASE b = r
    BY <1>1, <1>9, <2>2 DEF Prepares
  <2>3. CASE b # r
    BY <1>1, <1>4, <1>9, <2>1, <2>3 DEF Prepares, Asked
  <2>4. QED
    BY <2>2, <2>3
<1>10. CASE \/ StableWindow \/ Clear \/ Load \/ OtherReads
            \/ \E late \in BOOLEAN : UpdateLoading(late)
  BY <1>5, <1>10 DEF StableWindow, Clear, Load, OtherReads, OtherChunk, UpdateLoading,
                     prefetchVars, bitmapVars
<1>11. CASE Retry
  <2>1. foreground[b] # "none" => foreground'[b] # "none"
    BY <1>1, <1>11 DEF Retry
  <2>2. UNCHANGED <<priority, blocking, quiet>>
    BY <1>11 DEF Retry
  <2>3. lane'[b] = lane[b]
    <3>1. b \in batch.required => b \in Missing
      BY <1>4 DEF RequiredInBatch, Missing
    <3>2. QED
      BY <1>1, <1>11, <3>1 DEF Retry, RetryBatch
  <2>4. QED
    BY <1>4, <2>1, <2>2, <2>3 DEF Asked
<1>12. CASE Fails
  BY <1>5, <1>7, <1>12 DEF Fails, ConnectionFails, BatchTimesOut, bitmapVars
<1>13. CASE UNCHANGED vars
  BY <1>5, <1>13 DEF vars, prefetchVars, loadingVars, bitmapVars
<1>14. QED
  BY <1>6, <1>8, <1>9, <1>10, <1>11, <1>12, <1>13
     DEF Next, Advance, PrepareBitmap, PrepareGoesWrong

\* A bitmap that blocks the game is there, on its way, or offers a retry by
\* itself, unless it was made urgent by MAP_REQUIRED before it blocked: for any
\* ranges and classes, in and out of a map that loads, over lost connections,
\* timeouts of batches, maps given up and bitmaps that are never decoded.
THEOREM OthersOfferRetry == Spec => []OnlyQuietOnesStrand
<1> DEFINE Inv == TasksOK /\ RequiredInBatch /\ PriorityAsked
<1>1. Init => Inv
  <2> SUFFICES ASSUME Init
               PROVE  Inv
    OBVIOUS
  <2>1. TasksOK
    BY RangesAssumption DEF Init, PrefetchInit, TasksOK, RangesAssumption
  <2>2. QED
    BY <2>1 DEF Init, RequiredInBatch, NoBatch, PriorityAsked
<1>2. Types /\ Inv /\ [Next]_vars => Inv'
  BY TasksStep, BatchStep, AskedStep
<1>3. Types /\ WaitersAreServed /\ Inv => OnlyQuietOnesStrand
  <2> SUFFICES ASSUME Types, WaitersAreServed, PriorityAsked,
                      NEW b \in blocking, Stranded(b)
               PROVE  b \in quiet
    BY DEF OnlyQuietOnesStrand
  <2>1. b \in Ranges /\ foreground[b] \in States
    BY DEF Types, LoadingTypeOK, States
  <2>2. Asked(b)
    BY <2>1 DEF PriorityAsked, Stranded
  <2>3. QED
    BY <2>1, <2>2 DEF Asked, Stranded, WaitersAreServed, States
<1> HIDE DEF Inv
<1>4. Spec => []Inv
  BY <1>1, <1>2, TypesHold, PTL DEF Spec
<1>5. QED
  BY <1>3, <1>4, TypesHold, WaitersServed, PTL
=============================================================================
