-------------------------- MODULE AssetsServerProofs --------------------------
(***************************************************************************)
(* What every step of the assets server preserves, whoever drives it: the  *)
(* types, and the order between what is announced, what is held and what   *)
(* is on disk.                                                             *)
(***************************************************************************)
EXTENDS AssetsServer, TLAPS

\* A step of the server: of the operator, of a task, or a request's arrival.
ServerAction ==
  \/ Rewrite
  \/ \E t \in Tasks : Step(t) \/ Finish(t)
  \/ \E t \in Tasks, r \in ServerRequests : Arrive(t, r)

LEMMA FramesAreFrames ==
  /\ \A v \in Images : SizeFrame(v) \in Frames
  /\ \A i \in Nat, d \in Images : ChunkFrame(i, d) \in Frames
  /\ \A a, b \in Nat : DoneFrame(a, b) \in Frames
  /\ ErrorFrame \in Frames
BY ServerAssumption
   DEF ServerAssumption, SizeFrame, ChunkFrame, DoneFrame, ErrorFrame, Frames, Images

\* The constants as numbers.
LEMMA ConstantsTyped ==
  /\ Images \subseteq Nat
  /\ \A image \in Images : SizeOf[image] \in Nat
  /\ FirstAsset \in Assets
  /\ SizeRequest \in ServerRequests
BY ServerAssumption DEF ServerAssumption, Images, FirstAsset, Assets, SizeRequest, ServerRequests

LEMMA AssetFields == \A a \in Assets : a.version \in Nat /\ a.data \in Nat
BY ConstantsTyped DEF Assets

LEMMA ServerInitTyped == ServerInit => ServerTypeOK
<1> SUFFICES ASSUME ServerInit
             PROVE  ServerTypeOK
  OBVIOUS
<1>1. disk \in Images /\ cacheAll \in BOOLEAN
  BY ServerAssumption DEF ServerInit, ServerAssumption, Images
<1>2. entry \in Assets /\ asset \in [Tasks -> Assets]
  BY ConstantsTyped DEF ServerInit
<1>3. /\ sharers \subseteq Tasks
      /\ writer \in Tasks \cup {NoTask}
      /\ pc \in [Tasks -> {"idle", "check", "refresh", "build", "serve", "done", "panicked"}]
  BY DEF ServerInit
<1>4. request \in [Tasks -> ServerRequests] /\ next \in [Tasks -> Nat]
  BY ConstantsTyped DEF ServerInit
<1>5. built \in [Tasks -> Images] /\ reply \in [Tasks -> Seq(Frames)]
  BY ServerAssumption DEF ServerInit, ServerAssumption, Images
<1>6. QED
  BY <1>1, <1>2, <1>3, <1>4, <1>5 DEF ServerTypeOK

\* A task that emits frames keeps the replies typed.
LEMMA EmitTyped ==
  ASSUME ServerTypeOK, NEW t \in Tasks, NEW frames \in Seq(Frames), Emit(t, frames)
  PROVE  reply' \in [Tasks -> Seq(Frames)]
<1>1. reply[t] \o frames \in Seq(Frames)
  BY DEF ServerTypeOK
<1>2. QED
  BY <1>1 DEF ServerTypeOK, Emit

LEMMA ServerTypeStep ==
  ASSUME ServerTypeOK, ServerAction
  PROVE  ServerTypeOK'
<1> USE ConstantsTyped
<1>1. CASE Rewrite
  BY <1>1 DEF ServerTypeOK, Rewrite
<1>2. ASSUME NEW t \in Tasks, NEW r \in ServerRequests, Arrive(t, r)
      PROVE  ServerTypeOK'
  <2>1. r.first \in Nat
    BY DEF ServerRequests, SizeRequest
  <2>2. QED
    BY <1>2, <2>1 DEF ServerTypeOK, Arrive
<1>3. ASSUME NEW t \in Tasks, CheckStale(t)
      PROVE  ServerTypeOK'
  BY <1>3 DEF ServerTypeOK, CheckStale
<1>4. ASSUME NEW t \in Tasks, CheckFails(t)
      PROVE  ServerTypeOK'
  BY <1>4 DEF ServerTypeOK, CheckFails
<1>5. ASSUME NEW t \in Tasks, LosesRace(t)
      PROVE  ServerTypeOK'
  BY <1>5 DEF ServerTypeOK, LosesRace, AfterLostRace
<1>6. ASSUME NEW t \in Tasks, BeginBuild(t)
      PROVE  ServerTypeOK'
  BY <1>6 DEF ServerTypeOK, BeginBuild
<1>7. ASSUME NEW t \in Tasks, EndBuild(t)
      PROVE  ServerTypeOK'
  <2>1. Rebuilt(t) \in Assets
    BY DEF ServerTypeOK, Rebuilt, Assets
  <2>2. QED
    BY <1>7, <2>1 DEF ServerTypeOK, EndBuild
<1>8. ASSUME NEW t \in Tasks, BuildFails(t)
      PROVE  ServerTypeOK'
  BY <1>8 DEF ServerTypeOK, BuildFails
<1>9. ASSUME NEW t \in Tasks, ServeSize(t)
      PROVE  ServerTypeOK'
  <2>1. <<SizeFrame(asset[t].version)>> \in Seq(Frames)
    <3>1. asset[t].version \in Images
      BY DEF ServerTypeOK, Assets
    <3>2. SizeFrame(asset[t].version) \in Frames
      BY <3>1, FramesAreFrames
    <3>3. QED
      BY <3>2
  <2>2. reply' \in [Tasks -> Seq(Frames)]
    BY <1>9, <2>1, EmitTyped DEF ServeSize
  <2>3. QED
    BY <1>9, <2>2 DEF ServerTypeOK, ServeSize
<1>10. ASSUME NEW t \in Tasks, ServeChunk(t)
       PROVE  ServerTypeOK'
  <2>1. <<ChunkFrame(next[t], Source(asset[t]))>> \in Seq(Frames)
    <3>1. next[t] \in Nat /\ Source(asset[t]) \in Images
      BY DEF ServerTypeOK, Assets, Source
    <3>2. ChunkFrame(next[t], Source(asset[t])) \in Frames
      BY <3>1, FramesAreFrames
    <3>3. QED
      BY <3>2
  <2>2. reply' \in [Tasks -> Seq(Frames)]
    <3>1. CASE Emit(t, <<ChunkFrame(next[t], Source(asset[t]))>>)
      BY <3>1, <2>1, EmitTyped
    <3>2. CASE UNCHANGED reply
      BY <3>2 DEF ServerTypeOK
    <3>3. QED
      BY <1>10, <3>1, <3>2 DEF ServeChunk
  <2>3. next' \in [Tasks -> Nat]
    BY <1>10 DEF ServerTypeOK, ServeChunk
  <2>4. UNCHANGED <<disk, cacheAll, entry, sharers, writer, pc, request, asset, built>>
    BY <1>10 DEF ServeChunk
  <2>5. QED
    BY <2>2, <2>3, <2>4 DEF ServerTypeOK
<1>11. ASSUME NEW t \in Tasks, ChunkPanics(t)
       PROVE  ServerTypeOK'
  BY <1>11 DEF ServerTypeOK, ChunkPanics
<1>12. ASSUME NEW t \in Tasks, ChunkUnreadable(t)
       PROVE  ServerTypeOK'
  <2>1. <<ErrorFrame>> \in Seq(Frames)
    BY FramesAreFrames
  <2>2. QED
    BY <1>12, <2>1 DEF ServerTypeOK, ChunkUnreadable
<1>13. ASSUME NEW t \in Tasks, ServeDone(t)
       PROVE  ServerTypeOK'
  <2>1. request[t].first \in Nat /\ request[t].last \in Nat
    BY DEF ServerTypeOK, ServerRequests, SizeRequest
  <2>2. <<DoneFrame(request[t].first, request[t].last)>> \in Seq(Frames)
    BY <2>1, FramesAreFrames
  <2>3. reply' \in [Tasks -> Seq(Frames)]
    BY <1>13, <2>2, EmitTyped DEF ServeDone
  <2>4. QED
    BY <1>13, <2>3 DEF ServerTypeOK, ServeDone
<1>14. ASSUME NEW t \in Tasks, Finish(t) \/ Replaced(t)
       PROVE  ServerTypeOK'
  <2>1. 1 \in Images
    BY ServerAssumption DEF ServerAssumption, Images
  <2>2. Ends(t)
    BY <1>14 DEF Finish, Replaced
  <2>3. QED
    BY <2>1, <2>2 DEF ServerTypeOK, Ends
<1>15. QED
  BY <1>1, <1>2, <1>3, <1>4, <1>5, <1>6, <1>7, <1>8, <1>9, <1>10, <1>11, <1>12, <1>13, <1>14
     DEF ServerAction, Step, Works, Fails

-----------------------------------------------------------------------------
(* The order of versions, data and disk, when no older image comes back.   *)

\* Who builds holds the lock, and has read metadata no older than the entry.
BuildOrdered(t) ==
  pc[t] = "build" =>
     /\ writer = t
     /\ entry.version <= built[t] /\ entry.data <= built[t] /\ built[t] <= disk

AssetOrdered(t) ==
  /\ asset[t].version <= asset[t].data
  /\ asset[t].data <= disk
  /\ asset[t].version <= entry.version
  /\ asset[t].data <= entry.data

EntryOrdered == entry.version <= entry.data /\ entry.data <= disk

AssetsOrdered == EntryOrdered /\ \A t \in Tasks : AssetOrdered(t) /\ BuildOrdered(t)

\* A frame tells the version of the asset it is served from, or bytes that
\* are no older.
FrameFits(t, frame) ==
  /\ frame.type = "size" => frame.image = asset[t].version
  /\ frame.type = "chunk" => asset[t].version <= frame.image /\ frame.image <= disk

ReplyFits(t) ==
  /\ pc[t] \in {"idle", "check", "refresh", "build"} => reply[t] = <<>>
  /\ \A i \in 1 .. Len(reply[t]) : FrameFits(t, reply[t][i])

RepliesFit == \A t \in Tasks : ReplyFits(t)

ServerOrder == AssetsOrdered /\ RepliesFit

\* The fields of what the state holds are numbers.
LEMMA Numbers ==
  ASSUME ServerTypeOK
  PROVE  /\ disk \in Nat /\ entry.version \in Nat /\ entry.data \in Nat
         /\ \A t \in Tasks : /\ asset[t].version \in Nat /\ asset[t].data \in Nat
                             /\ built[t] \in Nat
                             /\ asset[t].version >= 1 /\ asset[t].data >= 1
         /\ disk >= 1 /\ entry.version >= 1
BY DEF ServerTypeOK, Assets, Images

LEMMA ServerInitOrdered == ServerInit => ServerOrder
BY DEF ServerInit, ServerOrder, AssetsOrdered, EntryOrdered, AssetOrdered, BuildOrdered,
       RepliesFit, ReplyFits, FrameFits, FirstAsset

LEMMA AssetsOrderedStep ==
  ASSUME ServerTypeOK, ServerTypeOK', AssetsOrdered, ~AllowRollback, ServerAction
  PROVE  AssetsOrdered'
<1> USE Numbers DEF AssetsOrdered, EntryOrdered, AssetOrdered, BuildOrdered
<1>1. CASE Rewrite
  <2>1. disk' > disk
    BY <1>1 DEF Rewrite
  <2>2. disk' \in Nat
    BY DEF ServerTypeOK, Images
  <2>3. UNCHANGED <<entry, asset, pc, writer, built>>
    BY <1>1 DEF Rewrite
  <2>4. QED
    BY <2>1, <2>2, <2>3
<1>2. ASSUME NEW t \in Tasks, NEW r \in ServerRequests, Arrive(t, r)
      PROVE  AssetsOrdered'
  BY <1>2 DEF Arrive, ServerTypeOK
<1>3. ASSUME NEW t \in Tasks, CheckStale(t) \/ CheckFails(t)
      PROVE  AssetsOrdered'
  BY <1>3 DEF CheckStale, CheckFails, ServerTypeOK
<1>4. ASSUME NEW t \in Tasks, LosesRace(t)
      PROVE  AssetsOrdered'
  BY <1>4 DEF LosesRace, AfterLostRace, ServerTypeOK
<1>5. ASSUME NEW t \in Tasks, BeginBuild(t)
      PROVE  AssetsOrdered'
  <2>1. \A u \in Tasks : pc[u] # "build"
    BY <1>5, ServerAssumption DEF BeginBuild, LockFree, ServerAssumption
  <2>2. \A u \in Tasks : pc'[u] = "build" => u = t
    BY <1>5, <2>1 DEF BeginBuild, ServerTypeOK
  <2>3. writer' = t /\ built'[t] = disk /\ UNCHANGED <<entry, asset, disk>>
    BY <1>5 DEF BeginBuild, ServerTypeOK
  <2>4. QED
    BY <2>2, <2>3
<1>6. ASSUME NEW t \in Tasks, EndBuild(t)
      PROVE  AssetsOrdered'
  <2>1. /\ writer = t
        /\ entry.version <= built[t] /\ entry.data <= built[t] /\ built[t] <= disk
    BY <1>6 DEF EndBuild
  <2>2. \A u \in Tasks : pc'[u] # "build"
    BY <1>6, <2>1 DEF EndBuild, ServerTypeOK
  <2>3. /\ entry' = Rebuilt(t) /\ asset'[t] = Rebuilt(t)
        /\ \A u \in Tasks \ {t} : asset'[u] = asset[u]
        /\ disk' = disk
    BY <1>6 DEF EndBuild, ServerTypeOK
  <2>4. /\ Rebuilt(t).version = built[t]
        /\ Rebuilt(t).data \in {disk, built[t]}
    BY DEF Rebuilt
  <2>5. EntryOrdered'
    BY <2>1, <2>3, <2>4
  <2>6. ASSUME NEW u \in Tasks
        PROVE  AssetOrdered(u)'
    BY <2>1, <2>3, <2>4
  <2>7. QED
    BY <2>2, <2>5, <2>6
<1>7. ASSUME NEW t \in Tasks, BuildFails(t)
      PROVE  AssetsOrdered'
  <2>1. \A u \in Tasks : pc'[u] # "build"
    BY <1>7 DEF BuildFails, ServerTypeOK
  <2>2. UNCHANGED <<entry, asset, disk>>
    BY <1>7 DEF BuildFails
  <2>3. QED
    BY <2>1, <2>2
<1>8. ASSUME NEW t \in Tasks,
             ServeSize(t) \/ ServeChunk(t) \/ ChunkPanics(t) \/ ChunkUnreadable(t)
                \/ ServeDone(t)
      PROVE  AssetsOrdered'
  <2>1. \A u \in Tasks : pc'[u] = "build" => pc[u] = "build"
    BY <1>8 DEF ServeSize, ServeChunk, ChunkPanics, ChunkUnreadable, ServeDone, ServerTypeOK
  <2>2. UNCHANGED <<entry, asset, disk, writer, built>>
    BY <1>8 DEF ServeSize, ServeChunk, ChunkPanics, ChunkUnreadable, ServeDone
  <2>3. QED
    BY <2>1, <2>2
<1>9. ASSUME NEW t \in Tasks, Finish(t) \/ Replaced(t)
      PROVE  AssetsOrdered'
  <2>1. \A u \in Tasks : /\ asset'[u] \in {asset[u], FirstAsset}
                         /\ pc'[u] = "build" => pc[u] = "build" /\ built'[u] = built[u]
    BY <1>9 DEF Finish, Replaced, Ends, ServerTypeOK
  <2>2. UNCHANGED <<entry, disk, writer>>
    BY <1>9 DEF Finish, Replaced, Ends
  <2>3. FirstAsset.version = 1 /\ FirstAsset.data = 1
    BY DEF FirstAsset
  <2>4. ASSUME NEW u \in Tasks
        PROVE  AssetOrdered(u)'
    BY <2>1, <2>2, <2>3
  <2>5. QED
    BY <2>1, <2>2, <2>4
<1>10. QED
  BY <1>1, <1>2, <1>3, <1>4, <1>5, <1>6, <1>7, <1>8, <1>9
     DEF ServerAction, Step, Works, Fails

\* Bytes only get newer: a frame that fits goes on fitting its asset.
LEMMA FitsLater ==
  ASSUME ServerTypeOK, NEW t \in Tasks, ReplyFits(t),
         disk' \in Nat, disk <= disk',
         asset'[t] = asset[t], reply'[t] = reply[t],
         pc'[t] \in {"idle", "check", "refresh", "build"} => reply[t] = <<>>
  PROVE  ReplyFits(t)'
<1>1. reply[t] \in Seq(Frames)
  BY DEF ServerTypeOK
<1>2. ASSUME NEW i \in 1 .. Len(reply[t])
      PROVE  reply[t][i].image \in Nat
  <2>1. reply[t][i] \in Frames
    BY <1>1
  <2>2. QED
    BY <2>1 DEF Frames
<1>3. disk \in Nat /\ asset[t].version \in Nat
  BY Numbers
<1>4. ASSUME NEW i \in 1 .. Len(reply[t])
      PROVE  FrameFits(t, reply[t][i])'
  <2>1. FrameFits(t, reply[t][i]) /\ reply[t][i].image \in Nat
    BY <1>2 DEF ReplyFits
  <2>2. reply'[t][i] = reply[t][i]
    OBVIOUS
  <2>3. QED
    BY <2>1, <2>2, <1>3 DEF FrameFits
<1>5. QED
  BY <1>4 DEF ReplyFits

\* So does a reply that grows by a frame that fits.
LEMMA FitsAfterEmit ==
  ASSUME ServerTypeOK, NEW t \in Tasks, ReplyFits(t), NEW frame \in Frames,
         FrameFits(t, frame), UNCHANGED <<disk, asset>>,
         reply'[t] = reply[t] \o <<frame>>,
         pc'[t] \in {"serve", "done"}
  PROVE  ReplyFits(t)'
<1>1. reply[t] \in Seq(Frames)
  BY DEF ServerTypeOK
<1>2. \A i \in 1 .. Len(reply'[t]) : FrameFits(t, reply'[t][i])
  BY <1>1 DEF ReplyFits
<1>3. QED
  BY <1>2 DEF ReplyFits, FrameFits

LEMMA RepliesFitStep ==
  ASSUME ServerTypeOK, ServerTypeOK', AssetsOrdered, RepliesFit, ~AllowRollback, ServerAction
  PROVE  RepliesFit'
<1>0. disk' \in Nat /\ disk <= disk'
  <2>1. disk' = disk \/ disk' > disk
    BY DEF ServerAction, Rewrite, Step, Works, Fails, Finish, Replaced, Ends, Arrive, CheckStale, CheckFails,
           LosesRace, BeginBuild, EndBuild, BuildFails, ServeSize, ServeChunk, ChunkPanics,
           ChunkUnreadable, ServeDone
  <2>2. disk \in Nat /\ disk' \in Nat
    BY DEF ServerTypeOK, Images
  <2>3. QED
    BY <2>1, <2>2
\* Steps that leave the reply and the asset alone.
<1>1. ASSUME UNCHANGED <<asset, reply>>,
             \A t \in Tasks : pc'[t] \in {"idle", "check", "refresh", "build"} =>
                pc[t] \in {"idle", "check", "refresh", "build"}
      PROVE  RepliesFit'
  <2>1. ASSUME NEW t \in Tasks
        PROVE  ReplyFits(t)'
    <3>1. ReplyFits(t)
      BY DEF RepliesFit
    <3>2. asset'[t] = asset[t] /\ reply'[t] = reply[t]
      BY <1>1
    <3>3. pc'[t] \in {"idle", "check", "refresh", "build"} => reply[t] = <<>>
      BY <1>1, <3>1 DEF ReplyFits
    <3>4. QED
      BY <3>1, <3>2, <3>3, <1>0, FitsLater
  <2>2. QED
    BY <2>1 DEF RepliesFit
\* Steps of t that find its reply empty, whatever asset it takes.
<1>2. ASSUME NEW t \in Tasks, pc[t] \in {"idle", "check", "refresh", "build"},
             UNCHANGED reply,
             \A u \in Tasks \ {t} : asset'[u] = asset[u] /\ pc'[u] = pc[u]
      PROVE  RepliesFit'
  <2>1. ReplyFits(t)'
    BY <1>2 DEF RepliesFit, ReplyFits
  <2>2. ASSUME NEW u \in Tasks \ {t}
        PROVE  ReplyFits(u)'
    <3>1. ReplyFits(u) /\ asset'[u] = asset[u] /\ reply'[u] = reply[u] /\ pc'[u] = pc[u]
      BY <1>2 DEF RepliesFit
    <3>2. QED
      BY <3>1, <1>0, FitsLater DEF ReplyFits
  <2>3. QED
    BY <2>1, <2>2 DEF RepliesFit
\* Steps of t alone, whose reply is known to fit.
<1>3. ASSUME NEW t \in Tasks, ReplyFits(t)',
             \A u \in Tasks \ {t} :
                asset'[u] = asset[u] /\ pc'[u] = pc[u] /\ reply'[u] = reply[u]
      PROVE  RepliesFit'
  <2>1. ASSUME NEW u \in Tasks \ {t}
        PROVE  ReplyFits(u)'
    <3>1. ReplyFits(u) /\ asset'[u] = asset[u] /\ reply'[u] = reply[u] /\ pc'[u] = pc[u]
      BY <1>3 DEF RepliesFit
    <3>2. QED
      BY <3>1, <1>0, FitsLater DEF ReplyFits
  <2>2. QED
    BY <1>3, <2>1 DEF RepliesFit
<1>4. CASE Rewrite
  BY <1>4, <1>1 DEF Rewrite
<1>5. ASSUME NEW t \in Tasks, NEW r \in ServerRequests, Arrive(t, r)
      PROVE  RepliesFit'
  <2>1. /\ pc[t] \in {"idle", "check", "refresh", "build"} /\ UNCHANGED reply
        /\ \A u \in Tasks \ {t} : asset'[u] = asset[u] /\ pc'[u] = pc[u]
    BY <1>5 DEF Arrive, ServerTypeOK
  <2>2. QED
    BY <2>1, <1>2
<1>6. ASSUME NEW t \in Tasks,
             \/ CheckStale(t) \/ CheckFails(t) \/ LosesRace(t)
             \/ BeginBuild(t) \/ EndBuild(t) \/ BuildFails(t)
      PROVE  RepliesFit'
  <2>1. /\ pc[t] \in {"idle", "check", "refresh", "build"} /\ UNCHANGED reply
        /\ \A u \in Tasks \ {t} : asset'[u] = asset[u] /\ pc'[u] = pc[u]
    BY <1>6 DEF CheckStale, CheckFails, LosesRace, BeginBuild, EndBuild, BuildFails, ServerTypeOK
  <2>2. QED
    BY <2>1, <1>2
<1>7. ASSUME NEW t \in Tasks, ServeSize(t)
      PROVE  RepliesFit'
  <2> DEFINE frame == SizeFrame(asset[t].version)
  <2>1. frame \in Frames /\ FrameFits(t, frame)
    <3>1. asset[t].version \in Images
      BY DEF ServerTypeOK, Assets
    <3>2. QED
      BY <3>1, FramesAreFrames DEF SizeFrame, FrameFits
  <2>2. /\ reply'[t] = reply[t] \o <<frame>> /\ pc'[t] = "done" /\ UNCHANGED <<disk, asset>>
        /\ \A u \in Tasks \ {t} : pc'[u] = pc[u] /\ reply'[u] = reply[u]
    BY <1>7 DEF ServeSize, Emit, ServerTypeOK
  <2>3. ReplyFits(t)'
    BY <2>1, <2>2, FitsAfterEmit DEF RepliesFit
  <2>4. QED
    BY <2>2, <2>3, <1>3
<1>8. ASSUME NEW t \in Tasks, ServeChunk(t)
      PROVE  RepliesFit'
  <2> DEFINE frame == ChunkFrame(next[t], Source(asset[t]))
  <2>1. UNCHANGED <<disk, asset, pc>> /\ pc[t] = "serve"
    BY <1>8 DEF ServeChunk, ServesChunk
  <2>2. CASE UNCHANGED reply
    BY <2>1, <2>2, <1>1
  <2>3. CASE Emit(t, <<frame>>)
    <3>1. asset[t].version <= Source(asset[t]) /\ Source(asset[t]) <= disk
      BY Numbers DEF Source, AssetsOrdered, AssetOrdered
    <3>2. next[t] \in Nat /\ Source(asset[t]) \in Images
      BY DEF ServerTypeOK, Assets, Source
    <3>3. frame \in Frames
      BY <3>1, <3>2, FramesAreFrames
    <3>4. FrameFits(t, frame)
      BY <3>1 DEF ChunkFrame, FrameFits
    <3>5. /\ reply'[t] = reply[t] \o <<frame>>
          /\ \A u \in Tasks \ {t} : reply'[u] = reply[u]
      BY <2>3 DEF Emit, ServerTypeOK
    <3>6. ReplyFits(t)'
      BY <2>1, <3>3, <3>4, <3>5, FitsAfterEmit DEF RepliesFit
    <3>7. QED
      BY <2>1, <3>5, <3>6, <1>3
  <2>4. QED
    BY <1>8, <2>2, <2>3 DEF ServeChunk
<1>9. ASSUME NEW t \in Tasks, ChunkPanics(t)
      PROVE  RepliesFit'
  <2>1. UNCHANGED <<asset, reply>> /\ \A u \in Tasks : pc'[u] \in {pc[u], "panicked"}
    BY <1>9 DEF ChunkPanics, ServerTypeOK
  <2>2. QED
    BY <2>1, <1>1
<1>10. ASSUME NEW t \in Tasks, ChunkUnreadable(t)
       PROVE  RepliesFit'
  <2>1. /\ reply'[t] = <<ErrorFrame>> /\ pc'[t] = "done" /\ UNCHANGED asset
        /\ \A u \in Tasks \ {t} : pc'[u] = pc[u] /\ reply'[u] = reply[u]
    BY <1>10 DEF ChunkUnreadable, ServerTypeOK
  <2>2. \A i \in 1 .. Len(reply'[t]) : reply'[t][i].type = "error"
    BY <2>1 DEF ErrorFrame
  <2>3. ReplyFits(t)'
    BY <2>1, <2>2 DEF ReplyFits, FrameFits
  <2>4. QED
    BY <2>1, <2>3, <1>3
<1>11. ASSUME NEW t \in Tasks, ServeDone(t)
       PROVE  RepliesFit'
  <2> DEFINE frame == DoneFrame(request[t].first, request[t].last)
  <2>1. request[t].first \in Nat /\ request[t].last \in Nat
    BY DEF ServerTypeOK, ServerRequests, SizeRequest
  <2>2. frame \in Frames /\ FrameFits(t, frame)
    BY <2>1, FramesAreFrames DEF DoneFrame, FrameFits
  <2>3. /\ reply'[t] = reply[t] \o <<frame>> /\ pc'[t] = "done" /\ UNCHANGED <<disk, asset>>
        /\ \A u \in Tasks \ {t} : pc'[u] = pc[u] /\ reply'[u] = reply[u]
    BY <1>11 DEF ServeDone, Emit, ServerTypeOK
  <2>4. ReplyFits(t)'
    BY <2>2, <2>3, FitsAfterEmit DEF RepliesFit
  <2>5. QED
    BY <2>3, <2>4, <1>3
<1>12. ASSUME NEW t \in Tasks, Finish(t) \/ Replaced(t)
       PROVE  RepliesFit'
  <2>1. /\ reply'[t] = <<>>
        /\ \A u \in Tasks \ {t} :
              asset'[u] = asset[u] /\ pc'[u] = pc[u] /\ reply'[u] = reply[u]
    BY <1>12 DEF Finish, Replaced, Ends, ServerTypeOK
  <2>2. ReplyFits(t)'
    BY <2>1 DEF ReplyFits
  <2>3. QED
    BY <2>1, <2>2, <1>3
<1>13. QED
  BY <1>4, <1>5, <1>6, <1>7, <1>8, <1>9, <1>10, <1>11, <1>12
     DEF ServerAction, Step, Works, Fails

LEMMA ServerOrderStep ==
  ASSUME ServerTypeOK, ServerOrder, ~AllowRollback, ServerAction
  PROVE  ServerOrder'
BY ServerTypeStep, AssetsOrderedStep, RepliesFitStep DEF ServerOrder

\* Nothing a step replaces gets older: the file, the entry, and the asset of a
\* task that is at work, which starts from the entry.
LEMMA ServerOnlyAdvances ==
  ASSUME ServerTypeOK, AssetsOrdered, ~AllowRollback, ServerAction
  PROVE  /\ disk <= disk'
         /\ entry.version <= entry'.version /\ entry.data <= entry'.data
         /\ \A t \in Tasks :
               pc'[t] # "idle" =>
                  IF pc[t] = "idle"
                  THEN asset'[t] = entry
                  ELSE asset[t].version <= asset'[t].version /\ asset[t].data <= asset'[t].data
<1> USE Numbers
<1>1. CASE Rewrite
  <2>1. disk' \in Images /\ disk' > disk
    BY <1>1 DEF Rewrite
  <2>2. QED
    BY <1>1, <2>1 DEF Rewrite, Images
<1>2. ASSUME NEW t \in Tasks, NEW r \in ServerRequests, Arrive(t, r)
      PROVE  /\ UNCHANGED <<disk, entry>> /\ asset'[t] = entry /\ pc[t] = "idle"
             /\ \A u \in Tasks \ {t} : asset'[u] = asset[u] /\ pc'[u] = pc[u]
  BY <1>2 DEF Arrive, ServerTypeOK
<1>3. ASSUME NEW t \in Tasks, EndBuild(t)
      PROVE  /\ disk' = disk /\ entry.version <= entry'.version /\ entry.data <= entry'.data
             /\ asset[t].version <= asset'[t].version /\ asset[t].data <= asset'[t].data
             /\ pc[t] # "idle"
             /\ \A u \in Tasks \ {t} : asset'[u] = asset[u] /\ pc'[u] = pc[u]
  <2>1. /\ entry.version <= built[t] /\ entry.data <= built[t] /\ built[t] <= disk
        /\ asset[t].version <= entry.version /\ asset[t].data <= entry.data
    BY <1>3 DEF EndBuild, AssetsOrdered, BuildOrdered, AssetOrdered
  <2>2. Rebuilt(t).version = built[t] /\ Rebuilt(t).data \in {disk, built[t]}
    BY DEF Rebuilt
  <2>3. /\ entry' = Rebuilt(t) /\ asset'[t] = Rebuilt(t) /\ disk' = disk /\ pc[t] # "idle"
        /\ \A u \in Tasks \ {t} : asset'[u] = asset[u] /\ pc'[u] = pc[u]
    BY <1>3 DEF EndBuild, ServerTypeOK
  <2>4. QED
    BY <2>1, <2>2, <2>3
<1>4. ASSUME NEW t \in Tasks, LosesRace(t)
      PROVE  /\ UNCHANGED <<disk, entry>>
             /\ asset[t].version <= asset'[t].version /\ asset[t].data <= asset'[t].data
             /\ pc[t] # "idle"
             /\ \A u \in Tasks \ {t} : asset'[u] = asset[u] /\ pc'[u] = pc[u]
  BY <1>4 DEF LosesRace, ServerTypeOK, AssetsOrdered, AssetOrdered
<1>5. ASSUME NEW t \in Tasks,
             \/ CheckStale(t) \/ CheckFails(t) \/ BeginBuild(t) \/ BuildFails(t)
             \/ ServeSize(t) \/ ServeChunk(t) \/ ChunkPanics(t) \/ ChunkUnreadable(t)
             \/ ServeDone(t)
      PROVE  /\ UNCHANGED <<disk, entry, asset>>
             /\ \A u \in Tasks : pc'[u] # "idle" => pc[u] # "idle"
  BY <1>5 DEF CheckStale, CheckFails, BeginBuild, BuildFails, ServeSize, ServeChunk,
              ServesChunk, ChunkPanics, ChunkUnreadable, ServeDone, ServerTypeOK
<1>6. ASSUME NEW t \in Tasks, Finish(t) \/ Replaced(t)
      PROVE  /\ UNCHANGED <<disk, entry>> /\ pc'[t] = "idle"
             /\ \A u \in Tasks \ {t} : asset'[u] = asset[u] /\ pc'[u] = pc[u]
  BY <1>6 DEF Finish, Replaced, Ends, ServerTypeOK
<1>7. QED
  BY <1>1, <1>2, <1>3, <1>4, <1>5, <1>6 DEF ServerAction, Step, Works, Fails

-----------------------------------------------------------------------------
(* What a task adds to its reply.                                          *)

\* The bytes a task reads now or, if it has no request, would read next are
\* as new as these.
Freshest(t) == IF pc[t] = "idle" THEN Source(entry) ELSE Source(asset[t])

LEMMA FreshestAdvances ==
  ASSUME ServerTypeOK, ServerTypeOK', AssetsOrdered, ~AllowRollback, ServerAction, NEW t \in Tasks
  PROVE  Freshest(t) <= Freshest(t)'
<1> USE Numbers
<1>1. cacheAll' = cacheAll
  BY DEF ServerAction, Rewrite, Step, Works, Fails, Finish, Replaced, Ends, Arrive, CheckStale,
         CheckFails, LosesRace, BeginBuild, EndBuild, BuildFails, ServeSize, ServeChunk, ChunkPanics,
         ChunkUnreadable, ServeDone
<1>2. /\ disk <= disk' /\ entry.data <= entry'.data
      /\ pc'[t] # "idle" =>
            IF pc[t] = "idle" THEN asset'[t] = entry ELSE asset[t].data <= asset'[t].data
  BY ServerOnlyAdvances
<1>3. asset[t].data <= entry.data
  BY DEF AssetsOrdered, AssetOrdered
<1>4. entry'.data \in Nat /\ disk' \in Nat /\ asset'[t].data \in Nat
  BY ConstantsTyped, AssetFields DEF ServerTypeOK
<1>5. QED
  BY <1>1, <1>2, <1>3, <1>4 DEF Freshest, Source

\* A frame that task t, serving, puts at the end of its reply.
Emits(t, frame) ==
  /\ pc[t] = "serve"
  /\ reply'[t] = Append(reply[t], frame)
  /\ \/ frame = SizeFrame(asset[t].version)
     \/ frame = ChunkFrame(next[t], Source(asset[t]))
     \/ frame = DoneFrame(request[t].first, request[t].last) /\ ~MoreChunks(t)
  /\ UNCHANGED <<disk, cacheAll, entry, asset>>

\* A reply is left alone, grows by a frame, gives way to an error or is taken.
LEMMA ReplyStep ==
  ASSUME ServerTypeOK, ServerAction, NEW t \in Tasks
  PROVE  \/ reply'[t] = reply[t]
         \/ \E frame \in Frames : Emits(t, frame)
         \/ reply'[t] = <<ErrorFrame>>
         \/ Finish(t) \/ Replaced(t)
<1>1. ASSUME NEW u \in Tasks, u # t, Works(u) \/ Finish(u) \/ Replaced(u)
      PROVE  reply'[t] = reply[t]
  BY <1>1 DEF Works, Finish, Replaced, Ends, CheckStale, LosesRace, BeginBuild, EndBuild,
              ServeSize, ServeChunk, ChunkPanics, ChunkUnreadable, ServeDone, Emit, ServerTypeOK
<1>2. ASSUME \/ Rewrite \/ (\E u \in Tasks, r \in ServerRequests : Arrive(u, r))
             \/ (\E u \in Tasks : Fails(u))
             \/ CheckStale(t) \/ LosesRace(t) \/ BeginBuild(t) \/ EndBuild(t) \/ ChunkPanics(t)
      PROVE  reply'[t] = reply[t]
  BY <1>2 DEF Rewrite, Arrive, Fails, CheckFails, BuildFails, CheckStale, LosesRace, BeginBuild,
              EndBuild, ChunkPanics
<1>3. asset[t].version \in Images /\ Source(asset[t]) \in Images /\ next[t] \in Nat
      /\ request[t].first \in Nat /\ request[t].last \in Nat /\ reply[t] \in Seq(Frames)
  BY DEF ServerTypeOK, Assets, Source, ServerRequests, SizeRequest
<1>4. CASE ServeSize(t)
  <2>1. SizeFrame(asset[t].version) \in Frames
    BY <1>3, FramesAreFrames
  <2>2. Emits(t, SizeFrame(asset[t].version))
    BY <1>4, <2>1, <1>3 DEF ServeSize, Emit, Emits, ServerTypeOK
  <2>3. QED
    BY <2>1, <2>2
<1>5. CASE ServeChunk(t)
  <2> DEFINE frame == ChunkFrame(next[t], Source(asset[t]))
  <2>1. frame \in Frames
    BY <1>3, FramesAreFrames
  <2>2. CASE Emit(t, <<frame>>)
    <3>1. reply'[t] = Append(reply[t], frame)
      BY <2>1, <2>2, <1>3 DEF Emit, ServerTypeOK
    <3>2. Emits(t, frame)
      BY <1>5, <3>1 DEF ServeChunk, ServesChunk, Emits
    <3>3. QED
      BY <2>1, <3>2
  <2>3. QED
    BY <1>5, <2>2 DEF ServeChunk
<1>6. CASE ServeDone(t)
  <2> DEFINE frame == DoneFrame(request[t].first, request[t].last)
  <2>1. frame \in Frames
    BY <1>3, FramesAreFrames
  <2>2. reply'[t] = Append(reply[t], frame)
    BY <1>6, <2>1, <1>3 DEF ServeDone, Emit, ServerTypeOK
  <2>3. Emits(t, frame)
    BY <1>6, <2>2 DEF ServeDone, Emits
  <2>4. QED
    BY <2>1, <2>3
<1>7. CASE ChunkUnreadable(t)
  BY <1>7 DEF ChunkUnreadable, ServerTypeOK
<1>8. QED
  BY <1>1, <1>2, <1>4, <1>5, <1>6, <1>7 DEF ServerAction, Step, Works

-----------------------------------------------------------------------------
(* What a batch has been answered with so far.                             *)

\* The reply of a task that still serves holds chunks only: all those it has
\* passed that the file, if it is still the one the answer is about, contains.
ServedUpTo(t) ==
  /\ pc[t] \in {"check", "refresh", "build"} => next[t] = request[t].first
  /\ pc[t] = "serve" =>
        /\ \A j \in 1 .. Len(reply[t]) : reply[t][j].type = "chunk"
        /\ asset[t].version = disk =>
              \A i \in Nat : request[t].first <= i /\ i < next[t] /\ i < SizeOf[disk] =>
                 \E j \in 1 .. Len(reply[t]) : reply[t][j].index = i

RepliesComplete == \A t \in Tasks : ServedUpTo(t)

LEMMA ServerInitComplete == ServerInit => RepliesComplete
BY DEF ServerInit, RepliesComplete, ServedUpTo

LEMMA RepliesCompleteStep ==
  ASSUME ServerTypeOK, ServerTypeOK', ServerOrder, RepliesComplete, ~AllowRollback, ServerAction
  PROVE  RepliesComplete'
<1> USE Numbers
\* Steps of another task.
<1>1. ASSUME NEW t \in Tasks, disk' = disk, pc'[t] = pc[t], reply'[t] = reply[t],
             request'[t] = request[t], next'[t] = next[t], asset'[t] = asset[t]
      PROVE  ServedUpTo(t)'
  BY <1>1 DEF RepliesComplete, ServedUpTo
<1>2. CASE Rewrite
  <2>1. disk < disk'
    BY <1>2 DEF Rewrite, ServerTypeOK, Images
  <2>2. disk \in Nat /\ disk' \in Nat
    BY DEF ServerTypeOK, Images
  <2>3. ASSUME NEW t \in Tasks
        PROVE  asset[t].version # disk'
    <3>1. asset[t].version <= asset[t].data /\ asset[t].data <= disk
      BY DEF ServerOrder, AssetsOrdered, AssetOrdered
    <3>2. QED
      BY <2>1, <2>2, <3>1
  <2>4. QED
    BY <1>2, <2>3 DEF Rewrite, RepliesComplete, ServedUpTo
<1>3. ASSUME NEW t \in Tasks, NEW r \in ServerRequests, Arrive(t, r)
      PROVE  RepliesComplete'
  <2>1. ServedUpTo(t)'
    BY <1>3 DEF Arrive, ServedUpTo, ServerTypeOK
  <2>2. \A u \in Tasks \ {t} : ServedUpTo(u)'
    BY <1>3, <1>1 DEF Arrive, ServerTypeOK
  <2>3. QED
    BY <2>1, <2>2 DEF RepliesComplete
\* Steps up to the answer proper: the reply is empty, no chunk is passed.
<1>4. ASSUME NEW t \in Tasks,
             \/ CheckStale(t) \/ CheckFails(t) \/ LosesRace(t)
             \/ BeginBuild(t) \/ EndBuild(t) \/ BuildFails(t)
      PROVE  RepliesComplete'
  <2>1. /\ pc[t] \in {"check", "refresh", "build"}
        /\ pc'[t] \in {"check", "refresh", "build", "serve"}
        /\ UNCHANGED <<disk, request, next, reply>>
        /\ \A u \in Tasks \ {t} : pc'[u] = pc[u] /\ asset'[u] = asset[u]
    BY <1>4 DEF CheckStale, CheckFails, LosesRace, AfterLostRace, BeginBuild, EndBuild, BuildFails,
                ServerTypeOK
  <2>2. next[t] = request[t].first /\ reply[t] = <<>>
    BY <2>1 DEF RepliesComplete, ServedUpTo, ServerOrder, RepliesFit, ReplyFits
  <2>3. ServedUpTo(t)'
    BY <2>1, <2>2 DEF ServedUpTo, ServerTypeOK
  <2>4. \A u \in Tasks \ {t} : ServedUpTo(u)'
    BY <2>1, <1>1
  <2>5. QED
    BY <2>3, <2>4 DEF RepliesComplete
\* Steps that end the answer.
<1>5. ASSUME NEW t \in Tasks,
             \/ ServeSize(t) \/ ChunkPanics(t) \/ ChunkUnreadable(t) \/ ServeDone(t)
             \/ Finish(t) \/ Replaced(t)
      PROVE  RepliesComplete'
  <2>1. /\ pc'[t] \in {"done", "panicked", "idle"} /\ disk' = disk
        /\ \A u \in Tasks \ {t} : /\ pc'[u] = pc[u] /\ asset'[u] = asset[u]
                                  /\ request'[u] = request[u] /\ next'[u] = next[u]
                                  /\ reply'[u] = reply[u]
    BY <1>5 DEF ServeSize, ChunkPanics, ChunkUnreadable, ServeDone, Finish, Replaced, Ends,
                Emit, ServerTypeOK
  <2>2. ServedUpTo(t)'
    BY <2>1 DEF ServedUpTo
  <2>3. \A u \in Tasks \ {t} : ServedUpTo(u)'
    BY <2>1, <1>1
  <2>4. QED
    BY <2>2, <2>3 DEF RepliesComplete
<1>6. ASSUME NEW t \in Tasks, ServeChunk(t)
      PROVE  RepliesComplete'
  <2> DEFINE frame == ChunkFrame(next[t], Source(asset[t]))
             emitted == InRange(asset[t], next[t]) /\ next[t] < SizeOf[Source(asset[t])]
  <2>1. /\ pc[t] = "serve" /\ next'[t] = next[t] + 1
        /\ UNCHANGED <<disk, pc, request, asset>>
        /\ \A u \in Tasks \ {t} : next'[u] = next[u] /\ reply'[u] = reply[u]
        /\ reply'[t] = IF emitted THEN reply[t] \o <<frame>> ELSE reply[t]
    BY <1>6 DEF ServeChunk, ServesChunk, Emit, ServerTypeOK
  <2>2. /\ reply[t] \in Seq(Frames) /\ next[t] \in Nat /\ request[t].first \in Nat
        /\ disk \in Images /\ SizeOf[disk] \in Nat
    <3>1. \A r \in ServerRequests : r.first \in Nat
      BY DEF ServerRequests, SizeRequest
    <3>2. QED
      BY <3>1, ConstantsTyped DEF ServerTypeOK
  <2>3. frame.type = "chunk" /\ frame.index = next[t]
    BY DEF ChunkFrame
  <2>4. /\ \A j \in 1 .. Len(reply[t]) : reply'[t][j] = reply[t][j]
        /\ Len(reply'[t]) = IF emitted THEN Len(reply[t]) + 1 ELSE Len(reply[t])
        /\ emitted => reply'[t][Len(reply[t]) + 1] = frame
        /\ Len(reply[t]) \in Nat
    BY <2>1, <2>2
  <2>5. \A j \in 1 .. Len(reply'[t]) : reply'[t][j].type = "chunk"
    <3>1. \A j \in 1 .. Len(reply[t]) : reply[t][j].type = "chunk"
      BY <2>1 DEF RepliesComplete, ServedUpTo
    <3>2. QED
      BY <3>1, <2>3, <2>4
  <2>6. ASSUME asset[t].version = disk
        PROVE  Source(asset[t]) = disk
    BY <2>6 DEF Source, ServerOrder, AssetsOrdered, AssetOrdered
  <2>7. ASSUME asset[t].version = disk, NEW i \in Nat,
               request[t].first <= i, i < next[t] + 1, i < SizeOf[disk]
        PROVE  \E j \in 1 .. Len(reply'[t]) : reply'[t][j].index = i
    <3>1. CASE i < next[t]
      <4>1. PICK j \in 1 .. Len(reply[t]) : reply[t][j].index = i
        BY <2>1, <2>7, <3>1 DEF RepliesComplete, ServedUpTo
      <4>2. QED
        BY <4>1, <2>4
    <3>2. CASE i = next[t]
      <4>1. emitted
        BY <2>6, <2>7, <3>2 DEF InRange
      <4>2. QED
        BY <4>1, <2>3, <2>4, <3>2
    <3>3. QED
      BY <3>1, <3>2, <2>2, <2>7
  <2>8. ServedUpTo(t)'
    BY <2>1, <2>5, <2>7 DEF ServedUpTo
  <2>9. \A u \in Tasks \ {t} : ServedUpTo(u)'
    BY <2>1, <1>1
  <2>10. QED
    BY <2>8, <2>9 DEF RepliesComplete
<1>7. QED
  BY <1>2, <1>3, <1>4, <1>5, <1>6 DEF ServerAction, Step, Works, Fails
=============================================================================
