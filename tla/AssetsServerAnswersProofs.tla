----------------------- MODULE AssetsServerAnswersProofs -----------------------
(***************************************************************************)
(* An answer is served under a version the file had while the request was  *)
(* in progress, for any number of tasks, with or without rollback.         *)
(*                                                                         *)
(* The argument is about metadata, which are always read in the interval   *)
(* of every request that may come to use them: whoever rebuilds the entry  *)
(* reads them with the lock held, and no request arrives until it is       *)
(* released.                                                               *)
(***************************************************************************)
EXTENDS AssetsServerAnswers, AssetsServerProofs

HistoryTyped == seen \in [Tasks -> SUBSET Images] /\ failed \in [Tasks -> BOOLEAN]

\* The file's image now is in the interval of every request in progress ...
DiskSeen == \A t \in Tasks : pc[t] # "idle" => disk \in seen[t]

\* ... so are the metadata being made into an entry ...
BuiltSeen ==
  \A u \in Tasks : pc[u] = "build" =>
     writer = u /\ \A t \in Tasks : pc[t] # "idle" => built[u] \in seen[t]

\* ... and the entry itself, for a request that finds it was replaced.
EntrySeen ==
  \A t \in Tasks : pc[t] \in {"check", "refresh"} /\ t \notin sharers =>
     entry.version \in seen[t]

SeenInv == ServerTypeOK /\ HistoryTyped /\ DiskSeen /\ BuiltSeen /\ EntrySeen /\ AnswerIsCurrent

LEMMA SeenInvInit == Init => SeenInv
<1> SUFFICES ASSUME Init
             PROVE  SeenInv
  OBVIOUS
<1>1. ServerTypeOK
  BY ServerInitTyped DEF Init
<1>2. \A t \in Tasks : pc[t] = "idle"
  BY DEF Init, ServerInit
<1>3. HistoryTyped
  BY DEF Init, HistoryTyped
<1>4. QED
  BY <1>1, <1>2, <1>3 DEF SeenInv, DiskSeen, BuiltSeen, EntrySeen, AnswerIsCurrent

LEMMA NextDrivesServer ==
  ASSUME Next
  PROVE  ServerAction
<1>1. ASSUME NEW t \in Tasks, NEW range \in Ranges, Asks(t, ChunksRequest(range[1], range[2]))
      PROVE  ServerAction
  <2>1. ChunksRequest(range[1], range[2]) \in ServerRequests
    BY ServerAssumption DEF ServerAssumption, ChunksRequest, ServerRequests
  <2>2. QED
    BY <1>1, <2>1 DEF Asks, ServerAction
<1>2. QED
  BY <1>1, ConstantsTyped
     DEF Next, RewriteSeen, TaskWorks, TaskFails, Answered, Lost, Asks, ServerAction, Step

LEMMA HistoryStep ==
  ASSUME ServerTypeOK, ServerTypeOK', HistoryTyped, Next
  PROVE  HistoryTyped'
<1>1. disk \in Images /\ disk' \in Images
  BY DEF ServerTypeOK
<1>2. QED
  BY <1>1 DEF HistoryTyped, Next, RewriteSeen, TaskWorks, TaskFails, Answered, Lost, Asks

LEMMA SeenInvStep ==
  ASSUME SeenInv, [Next]_vars
  PROVE  SeenInv'
<1> USE DEF SeenInv
<1>1. CASE UNCHANGED vars
  BY <1>1 DEF vars, serverVars, ServerTypeOK, HistoryTyped, DiskSeen, BuiltSeen, EntrySeen,
              AnswerIsCurrent
<1> SUFFICES ASSUME Next
             PROVE  SeenInv'
  BY <1>1
<1>2. ServerTypeOK' /\ HistoryTyped'
  BY NextDrivesServer, ServerTypeStep, HistoryStep
<1>3. CASE RewriteSeen
  <2>1. /\ UNCHANGED <<entry, sharers, writer, pc, asset, built, failed>>
        /\ \A t \in Tasks : pc[t] # "idle" => seen'[t] = seen[t] \cup {disk'}
    BY <1>3 DEF RewriteSeen, Rewrite, HistoryTyped
  <2>2. QED
    BY <1>2, <2>1 DEF DiskSeen, BuiltSeen, EntrySeen, AnswerIsCurrent
<1>4. ASSUME NEW t \in Tasks, NEW r, Asks(t, r)
      PROVE  SeenInv'
  <2>1. \A u \in Tasks : pc'[u] # "build"
    BY <1>4, ServerAssumption
       DEF Asks, Arrive, LockFree, BuiltSeen, ServerTypeOK, ServerAssumption
  <2>2. /\ pc'[t] = "check" /\ t \in sharers' /\ seen'[t] = {disk} /\ disk' = disk
        /\ entry' = entry /\ failed' = failed
        /\ \A u \in Tasks \ {t} : /\ pc'[u] = pc[u] /\ seen'[u] = seen[u]
                                  /\ asset'[u] = asset[u]
                                  /\ u \in sharers' <=> u \in sharers
    BY <1>4 DEF Asks, Arrive, ServerTypeOK, HistoryTyped
  <2>3. DiskSeen' /\ EntrySeen' /\ AnswerIsCurrent'
    BY <2>2 DEF DiskSeen, EntrySeen, AnswerIsCurrent
  <2>4. BuiltSeen'
    BY <2>1 DEF BuiltSeen
  <2>5. QED
    BY <1>2, <2>3, <2>4
<1>5. ASSUME NEW t \in Tasks, Answered(t) \/ Lost(t)
      PROVE  SeenInv'
  <2>1. /\ pc'[t] = "idle" /\ disk' = disk /\ entry' = entry /\ writer' = writer
        /\ \A u \in Tasks \ {t} : /\ pc'[u] = pc[u] /\ seen'[u] = seen[u]
                                  /\ asset'[u] = asset[u] /\ built'[u] = built[u]
                                  /\ failed'[u] = failed[u]
                                  /\ u \in sharers' <=> u \in sharers
    BY <1>5 DEF Answered, Lost, Finish, Replaced, Ends, ServerTypeOK, HistoryTyped
  <2>2. QED
    BY <1>2, <2>1 DEF DiskSeen, BuiltSeen, EntrySeen, AnswerIsCurrent
<1>6. ASSUME NEW t \in Tasks, CheckStale(t), UNCHANGED <<seen, failed>>
      PROVE  SeenInv'
  <2>1. /\ pc[t] = "check" /\ pc'[t] = IF Stale(asset[t]) THEN "refresh" ELSE "serve"
        /\ \A u \in Tasks \ {t} : pc'[u] = pc[u]
        /\ UNCHANGED <<disk, entry, sharers, writer, asset, built>>
    BY <1>6 DEF CheckStale, ServerTypeOK
  <2>2. ~Stale(asset[t]) => asset[t].version \in seen[t]
    BY <2>1 DEF Stale, DiskSeen
  <2>3. QED
    BY <1>2, <1>6, <2>1, <2>2 DEF DiskSeen, BuiltSeen, EntrySeen, AnswerIsCurrent
<1>7. ASSUME NEW t \in Tasks, LosesRace(t), UNCHANGED <<seen, failed>>
      PROVE  SeenInv'
  <2>1. /\ pc[t] = "refresh" /\ t \notin sharers /\ pc'[t] = "serve"
        /\ asset'[t] = entry /\ sharers' = sharers \cup {t}
        /\ \A u \in Tasks \ {t} : pc'[u] = pc[u] /\ asset'[u] = asset[u]
        /\ UNCHANGED <<disk, entry, writer, built>>
    BY <1>7 DEF LosesRace, MayRebuild, AfterLostRace, ServerTypeOK
  <2>2. entry.version \in seen[t]
    BY <2>1 DEF EntrySeen
  <2>3. QED
    BY <1>2, <1>7, <2>1, <2>2 DEF DiskSeen, BuiltSeen, EntrySeen, AnswerIsCurrent
<1>8. ASSUME NEW t \in Tasks, BeginBuild(t), UNCHANGED <<seen, failed>>
      PROVE  SeenInv'
  <2>1. \A u \in Tasks : pc[u] # "build"
    BY <1>8, ServerAssumption DEF BeginBuild, LockFree, BuiltSeen, ServerAssumption
  <2>2. /\ pc[t] = "refresh" /\ pc'[t] = "build" /\ built'[t] = disk /\ writer' = t
        /\ \A u \in Tasks \ {t} : pc'[u] = pc[u]
        /\ UNCHANGED <<disk, entry, sharers, asset>>
    BY <1>8 DEF BeginBuild, ServerTypeOK
  <2>3. BuiltSeen'
    BY <1>8, <2>1, <2>2 DEF DiskSeen, BuiltSeen
  <2>4. QED
    BY <1>2, <1>8, <2>2, <2>3 DEF DiskSeen, EntrySeen, AnswerIsCurrent
<1>9. ASSUME NEW t \in Tasks, EndBuild(t), UNCHANGED <<seen, failed>>
      PROVE  SeenInv'
  <2>1. /\ pc[t] = "build" /\ pc'[t] = "serve"
        /\ entry'.version = built[t] /\ asset'[t].version = built[t]
        /\ \A u \in Tasks \ {t} : pc'[u] = pc[u] /\ asset'[u] = asset[u]
        /\ disk' = disk
    BY <1>9 DEF EndBuild, Rebuilt, ServerTypeOK
  <2>2. writer = t /\ \A u \in Tasks : pc[u] # "idle" => built[t] \in seen[u]
    BY <2>1 DEF BuiltSeen
  <2>3. \A u \in Tasks : pc'[u] # "build"
    BY <2>1, <2>2 DEF BuiltSeen
  <2>4. QED
    BY <1>2, <1>9, <2>1, <2>2, <2>3 DEF DiskSeen, BuiltSeen, EntrySeen, AnswerIsCurrent
<1>10. ASSUME NEW t \in Tasks,
              ServeSize(t) \/ ServeChunk(t) \/ ChunkPanics(t) \/ ChunkUnreadable(t)
                 \/ ServeDone(t),
              UNCHANGED <<seen, failed>>
       PROVE  SeenInv'
  <2>1. /\ pc[t] = "serve" /\ pc'[t] \in {"serve", "done", "panicked"}
        /\ \A u \in Tasks \ {t} : pc'[u] = pc[u]
        /\ UNCHANGED <<disk, entry, sharers, writer, asset, built>>
    BY <1>10 DEF ServeSize, ServeChunk, ServesChunk, ChunkPanics, ChunkUnreadable, ServeDone,
                 ServerTypeOK
  <2>2. QED
    BY <1>2, <1>10, <2>1 DEF DiskSeen, BuiltSeen, EntrySeen, AnswerIsCurrent
<1>11. ASSUME NEW t \in Tasks, TaskFails(t)
       PROVE  SeenInv'
  <2>1. /\ pc[t] \in {"check", "build"} /\ pc'[t] = "serve" /\ failed'[t] = TRUE
        /\ \A u \in Tasks \ {t} : pc'[u] = pc[u] /\ failed'[u] = failed[u]
        /\ UNCHANGED <<disk, entry, sharers, asset, built, seen>>
        /\ writer' = writer \/ pc[t] = "build"
    BY <1>11 DEF TaskFails, Fails, CheckFails, BuildFails, ServerTypeOK, HistoryTyped
  <2>2. BuiltSeen'
    BY <2>1 DEF BuiltSeen
  <2>3. QED
    BY <1>2, <2>1, <2>2 DEF DiskSeen, EntrySeen, AnswerIsCurrent
<1>12. QED
  BY <1>3, <1>4, <1>5, <1>6, <1>7, <1>8, <1>9, <1>10, <1>11 DEF Next, TaskWorks, Works

\* An answer's version is one the file had between the arrival of the request
\* and the answer, unless the file system failed this request: the look-up,
\* the stale check and the rebuild of AssetCache::get act as one.
THEOREM AnswersAreCurrent == Spec => []AnswerIsCurrent
<1>1. SeenInv => AnswerIsCurrent
  BY DEF SeenInv
<1>2. QED
  BY SeenInvInit, SeenInvStep, <1>1, PTL DEF Spec

-----------------------------------------------------------------------------
(* When a chunk of a cached asset may be missing: only in memory mode, and *)
(* only if the file once got shorter or older.                             *)

\* A task panics at a chunk and nowhere else.
LEMMA PanicsAtChunks ==
  ASSUME ServerTypeOK, ChunksReadSafely, ServerAction,
         \A t \in Tasks : ~(ServesChunk(t) /\ Panics(t))
  PROVE  ChunksReadSafely'
<1>1. ASSUME NEW t \in Tasks, pc'[t] = "panicked"
      PROVE  pc[t] = "panicked" \/ ChunkPanics(t)
  BY <1>1 DEF ServerAction, Rewrite, Arrive, Step, Works, Fails, Finish, Replaced, Ends,
     CheckStale, CheckFails,
     LosesRace, AfterLostRace, BeginBuild, EndBuild, BuildFails, ServeSize, ServeChunk,
     ChunkPanics,
     ChunkUnreadable, ServeDone, ServerTypeOK
<1>2. \A t \in Tasks : ~ChunkPanics(t)
  BY DEF ChunkPanics
<1>3. QED
  BY <1>1, <1>2 DEF ChunksReadSafely

\* While images only get newer and never shorter, the entry may mix the
\* metadata of one image with the data of another, but read_chunk finds every
\* chunk that chunk_range allows: the panic of an entry that announces more
\* than it holds needs a file that shrinks.
THEOREM NoPanicWhileFilesGrow ==
  ASSUME ~AllowRollback,
         \A older, newer \in Images : older <= newer => SizeOf[older] <= SizeOf[newer]
  PROVE  Spec => []ChunksReadSafely
<1> DEFINE Inv == ServerTypeOK /\ AssetsOrdered /\ ChunksReadSafely
<1>1. Init => Inv
  <2>1. Init => ServerTypeOK /\ AssetsOrdered
    BY ServerInitTyped, ServerInitOrdered DEF Init, ServerOrder
  <2>2. Init => ChunksReadSafely
    BY DEF Init, ServerInit, ChunksReadSafely
  <2>3. QED
    BY <2>1, <2>2
<1>2. ASSUME Inv, [Next]_vars
      PROVE  Inv'
  <2>1. CASE UNCHANGED vars
    BY <1>2, <2>1 DEF vars, serverVars, ServerTypeOK, AssetsOrdered, EntryOrdered, AssetOrdered,
                      BuildOrdered, ChunksReadSafely
  <2>2. CASE Next
    <3>1. ServerAction
      BY <2>2, NextDrivesServer
    <3>2. ServerTypeOK' /\ AssetsOrdered'
      BY <1>2, <3>1, ServerTypeStep, AssetsOrderedStep
    <3>3. ASSUME NEW t \in Tasks, ServesChunk(t), Panics(t)
          PROVE  FALSE
      <4>1. /\ asset[t].version \in Images /\ asset[t].data \in Images
            /\ asset[t].version <= asset[t].data /\ next[t] \in Nat
        BY <1>2 DEF ServerTypeOK, Assets, AssetsOrdered, AssetOrdered
      <4>2. SizeOf[asset[t].version] <= SizeOf[asset[t].data]
        BY <4>1
      <4>3. next[t] < SizeOf[asset[t].version] /\ next[t] >= SizeOf[asset[t].data]
        BY <3>3 DEF Panics, InRange
      <4>4. SizeOf[asset[t].version] \in Nat /\ SizeOf[asset[t].data] \in Nat
        BY <4>1, ConstantsTyped
      <4>5. QED
        BY <4>1, <4>2, <4>3, <4>4
    <3>4. ChunksReadSafely'
      BY <1>2, <3>1, <3>3, PanicsAtChunks
    <3>5. QED
      BY <3>2, <3>4
  <2>3. QED
    BY <1>2, <2>1, <2>2
<1>3. Inv => ChunksReadSafely
  OBVIOUS
<1>4. QED
  BY <1>1, <1>2, <1>3, PTL DEF Spec

\* Without --cache-all-nx no rewrite, roll-back or truncation makes a task
\* panic: a chunk the file has lost is answered by no frame.
THEOREM NoPanicFromDisk ==
  ASSUME Modes \subseteq {FALSE}
  PROVE  Spec => []ChunksReadSafely
<1> DEFINE Inv == ServerTypeOK /\ cacheAll = FALSE /\ ChunksReadSafely
<1>1. Init => Inv
  <2>1. Init => ServerTypeOK
    BY ServerInitTyped DEF Init
  <2>2. Init => cacheAll = FALSE /\ ChunksReadSafely
    BY DEF Init, ServerInit, ChunksReadSafely
  <2>3. QED
    BY <2>1, <2>2
<1>2. ASSUME Inv, [Next]_vars
      PROVE  Inv'
  <2>1. CASE UNCHANGED vars
    BY <1>2, <2>1 DEF vars, serverVars, ServerTypeOK, ChunksReadSafely
  <2>2. CASE Next
    <3>1. ServerAction
      BY <2>2, NextDrivesServer
    <3>2. ServerTypeOK'
      BY <1>2, <3>1, ServerTypeStep
    <3>3. cacheAll' = cacheAll
      BY <3>1 DEF ServerAction, Rewrite, Arrive, Step, Works, Fails, Finish, Replaced,
         Ends, CheckStale, CheckFails,
         LosesRace, BeginBuild, EndBuild, BuildFails, ServeSize, ServeChunk, ChunkPanics,
         ChunkUnreadable, ServeDone
    <3>4. \A t \in Tasks : ~Panics(t)
      BY <1>2 DEF Panics
    <3>5. ChunksReadSafely'
      BY <1>2, <3>1, <3>4, PanicsAtChunks
    <3>6. QED
      BY <1>2, <3>2, <3>3, <3>5
  <2>3. QED
    BY <1>2, <2>1, <2>2
<1>3. Inv => ChunksReadSafely
  OBVIOUS
<1>4. QED
  BY <1>1, <1>2, <1>3, PTL DEF Spec
=============================================================================
