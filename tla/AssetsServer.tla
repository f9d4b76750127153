----------------------------- MODULE AssetsServer -----------------------------
(***************************************************************************)
(* The assets server (assets-server/src): one shared cache entry for an NX *)
(* file, one task per connection that takes a request at a time, and an    *)
(* operator who rewrites the file on disk while the server runs.           *)
(*                                                                         *)
(* The successive images of the file are numbered by their mtime, so that  *)
(* the number is at once the content and the version an answer carries.    *)
(* A partly written file is an image of its own.  Sizes are in chunks.     *)
(*                                                                         *)
(* AssetCache::get is not atomic: it clones the entry under the read lock, *)
(* releases it, asks the file system whether the entry is stale, and       *)
(* rebuilds the entry under the write lock, metadata first, data second.   *)
(*                                                                         *)
(* X_Fault is a faulty variant of the operator X that follows it; the      *)
(* specification never uses it.                                            *)
(***************************************************************************)
EXTENDS Naturals, Sequences

CONSTANTS
  LastImage,      \* bound: number of images the file ever has
  SizeOf,         \* length of each image
  Ranges,         \* the <<first, last>> that get_chunks asks for
  Modes,          \* the values of --cache-all-nx considered
  Tasks,          \* connection tasks
  NoTask,
  AllowRollback,  \* an older image may come back with its old mtime (cp -p)
  MayFail         \* what may fail: reading the metadata for the stale check,
                  \* a rebuild, reading a chunk

Images == 1 .. LastImage

ASSUME ServerAssumption ==
  /\ LastImage \in Nat \ {0}
  /\ SizeOf \in [Images -> Nat]
  /\ Ranges \subseteq Nat \X Nat
  /\ Modes \subseteq BOOLEAN
  /\ NoTask \notin Tasks
  /\ AllowRollback \in BOOLEAN
  /\ MayFail \subseteq {"check", "build", "chunk"}

VARIABLES
  disk,      \* the image on disk
  cacheAll,  \* --cache-all-nx: the entry holds the data, else it is read from disk
  entry,     \* entries[filename]: an Arc<CachedAsset>
  sharers,   \* the tasks whose Arc is that very one (Arc::ptr_eq)
  writer,    \* the task that holds the write lock of entries
  pc,        \* of each task
  request,   \* the request it answers
  asset,     \* the Arc it holds
  built,     \* the image whose metadata build() has read
  next,      \* the next chunk of a get_chunks to read
  reply      \* the frames produced so far

serverVars == <<disk, cacheAll, entry, sharers, writer, pc, request, asset, built,
                next, reply>>

Assets == [version : Images, data : Images]
SizeRequest == [type |-> "get_size", first |-> 0, last |-> 0]
ChunksRequest(first, last) == [type |-> "get_chunks", first |-> first, last |-> last]
ServerRequests == {SizeRequest} \cup [type : {"get_chunks"}, first : Nat, last : Nat]

SizeFrame(v) == [type |-> "size", index |-> 0, image |-> v, last |-> 0]
ChunkFrame(i, d) == [type |-> "chunk", index |-> i, image |-> d, last |-> 0]
DoneFrame(a, b) == [type |-> "chunks_done", index |-> a, image |-> 0, last |-> b]
ErrorFrame == [type |-> "error", index |-> 0, image |-> 0, last |-> 0]
Frames == [type : {"size", "chunk", "chunks_done", "error"},
           index : Nat, image : 0 .. LastImage, last : Nat]

ServerTypeOK ==
  /\ disk \in Images
  /\ cacheAll \in BOOLEAN
  /\ entry \in Assets
  /\ sharers \subseteq Tasks
  /\ writer \in Tasks \cup {NoTask}
  /\ pc \in [Tasks -> {"idle", "check", "refresh", "build", "serve", "done", "panicked"}]
  /\ request \in [Tasks -> ServerRequests]
  /\ asset \in [Tasks -> Assets]
  /\ built \in [Tasks -> Images]
  /\ next \in [Tasks -> Nat]
  /\ reply \in [Tasks -> Seq(Frames)]

FirstAsset == [version |-> 1, data |-> 1]

ServerInit ==
  /\ disk = 1
  /\ cacheAll \in Modes
  /\ entry = FirstAsset
  /\ sharers = {}
  /\ writer = NoTask
  /\ pc = [t \in Tasks |-> "idle"]
  /\ request = [t \in Tasks |-> SizeRequest]
  /\ asset = [t \in Tasks |-> FirstAsset]
  /\ built = [t \in Tasks |-> 1]
  /\ next = [t \in Tasks |-> 0]
  /\ reply = [t \in Tasks |-> <<>>]

-----------------------------------------------------------------------------
\* The operator replaces the file: a new image, or (cp -p) any other.
Rewrite ==
  /\ \E image \in Images :
        /\ IF AllowRollback THEN image # disk ELSE image > disk
        /\ disk' = image
  /\ UNCHANGED <<cacheAll, entry, sharers, writer, pc, request, asset, built, next, reply>>

\* Neither the read lock nor the write lock is granted while a task writes.
LockFree_Fault == TRUE
LockFree == writer = NoTask

\* A request arrives at an idle task, which clones the Arc.
Arrive(t, r) ==
  /\ pc[t] = "idle" /\ LockFree
  /\ pc' = [pc EXCEPT ![t] = "check"]
  /\ request' = [request EXCEPT ![t] = r]
  /\ asset' = [asset EXCEPT ![t] = entry]
  /\ sharers' = sharers \cup {t}
  /\ next' = [next EXCEPT ![t] = r.first]
  /\ UNCHANGED <<disk, cacheAll, entry, writer, built, reply>>

\* is_stale: size or mtime differ from the file's.
Stale_Fault(a) == disk > a.version
Stale_SizeFault(a) == SizeOf[disk] # SizeOf[a.version]
Stale(a) == SizeOf[disk] # SizeOf[a.version] \/ disk # a.version

CheckStale(t) ==
  /\ pc[t] = "check"
  /\ pc' = [pc EXCEPT ![t] = IF Stale(asset[t]) THEN "refresh" ELSE "serve"]
  /\ UNCHANGED <<disk, cacheAll, entry, sharers, writer, request, asset, built, next,
                 reply>>

\* Metadata that cannot be read count as "not stale".
CheckFails(t) ==
  /\ pc[t] = "check" /\ "check" \in MayFail
  /\ pc' = [pc EXCEPT ![t] = "serve"]
  /\ UNCHANGED <<disk, cacheAll, entry, sharers, writer, request, asset, built, next,
                 reply>>

\* refresh: only the holder of the entry that is still current rebuilds it.
MayRebuild(t) == t \in sharers

AfterLostRace_Fault == "check"
AfterLostRace == "serve"

LosesRace(t) ==
  /\ pc[t] = "refresh" /\ LockFree
  /\ ~MayRebuild(t)
  /\ asset' = [asset EXCEPT ![t] = entry]
  /\ sharers' = sharers \cup {t}
  /\ pc' = [pc EXCEPT ![t] = AfterLostRace]
  /\ UNCHANGED <<disk, cacheAll, entry, writer, request, built, next, reply>>

\* build reads the metadata, the write lock held ...
BeginBuild(t) ==
  /\ pc[t] = "refresh" /\ LockFree
  /\ MayRebuild(t)
  /\ writer' = t
  /\ built' = [built EXCEPT ![t] = disk]
  /\ pc' = [pc EXCEPT ![t] = "build"]
  /\ UNCHANGED <<disk, cacheAll, entry, sharers, request, asset, next, reply>>

\* ... and then, in memory mode, the data.
Rebuilt_Fault(t) == [version |-> disk, data |-> built[t]]
Rebuilt(t) == [version |-> built[t], data |-> IF cacheAll THEN disk ELSE built[t]]

EndBuild(t) ==
  /\ pc[t] = "build"
  /\ entry' = Rebuilt(t)
  /\ asset' = [asset EXCEPT ![t] = Rebuilt(t)]
  /\ sharers' = {t}
  /\ writer' = NoTask
  /\ pc' = [pc EXCEPT ![t] = "serve"]
  /\ UNCHANGED <<disk, cacheAll, request, built, next, reply>>

\* The file cannot be read: the stale entry stays and is served.
BuildFails(t) ==
  /\ pc[t] = "build" /\ "build" \in MayFail
  /\ writer' = NoTask
  /\ pc' = [pc EXCEPT ![t] = "serve"]
  /\ UNCHANGED <<disk, cacheAll, entry, sharers, request, asset, built, next, reply>>

-----------------------------------------------------------------------------
Emit(t, frames) == reply' = [reply EXCEPT ![t] = @ \o frames]

ServeSize(t) ==
  /\ pc[t] = "serve" /\ request[t].type = "get_size"
  /\ Emit(t, <<SizeFrame(asset[t].version)>>)
  /\ pc' = [pc EXCEPT ![t] = "done"]
  /\ UNCHANGED <<disk, cacheAll, entry, sharers, writer, request, asset, built, next>>

\* chunk_range: the part of chunk i that lies within the size in the metadata.
InRange(a, i) == i < SizeOf[a.version]

\* The bytes read_chunk finds: of the data in memory, or of the file as it is
\* on disk at this moment.
Source(a) == IF cacheAll THEN a.data ELSE disk

\* The batch start ..= end.
MoreChunks_Fault(t) == next[t] < request[t].last
MoreChunks(t) == next[t] <= request[t].last

ServesChunk(t) ==
  pc[t] = "serve" /\ request[t].type = "get_chunks" /\ MoreChunks(t)

\* In memory mode the slice of data shorter than the metadata said panics.
Panics(t) ==
  InRange(asset[t], next[t]) /\ cacheAll /\ next[t] >= SizeOf[asset[t].data]

\* A chunk past the end, or one the file lost, yields no frame.
ServeChunk(t) ==
  /\ ServesChunk(t)
  /\ ~Panics(t)
  /\ next' = [next EXCEPT ![t] = @ + 1]
  /\ IF InRange(asset[t], next[t]) /\ next[t] < SizeOf[Source(asset[t])]
     THEN Emit(t, <<ChunkFrame(next[t], Source(asset[t]))>>)
     ELSE UNCHANGED reply
  /\ UNCHANGED <<disk, cacheAll, entry, sharers, writer, pc, request, asset, built>>

ChunkPanics(t) ==
  /\ ServesChunk(t)
  /\ Panics(t)
  /\ pc' = [pc EXCEPT ![t] = "panicked"]
  /\ UNCHANGED <<disk, cacheAll, entry, sharers, writer, request, asset, built, next, reply>>

\* The file cannot be opened or read: one error frame replaces the whole reply.
ChunkUnreadable(t) ==
  /\ ServesChunk(t)
  /\ ~cacheAll /\ "chunk" \in MayFail /\ InRange(asset[t], next[t])
  /\ reply' = [reply EXCEPT ![t] = <<ErrorFrame>>]
  /\ pc' = [pc EXCEPT ![t] = "done"]
  /\ UNCHANGED <<disk, cacheAll, entry, sharers, writer, request, asset, built, next>>

ServeDone(t) ==
  /\ pc[t] = "serve" /\ request[t].type = "get_chunks" /\ ~MoreChunks(t)
  /\ Emit(t, <<DoneFrame(request[t].first, request[t].last)>>)
  /\ pc' = [pc EXCEPT ![t] = "done"]
  /\ UNCHANGED <<disk, cacheAll, entry, sharers, writer, request, asset, built, next>>

\* The handler's locals are gone.
Ends(t) ==
  /\ pc' = [pc EXCEPT ![t] = "idle"]
  /\ request' = [request EXCEPT ![t] = SizeRequest]
  /\ asset' = [asset EXCEPT ![t] = FirstAsset]
  /\ sharers' = sharers \ {t}
  /\ built' = [built EXCEPT ![t] = 1]
  /\ next' = [next EXCEPT ![t] = 0]
  /\ reply' = [reply EXCEPT ![t] = <<>>]
  /\ UNCHANGED <<disk, cacheAll, entry, writer>>

\* The reply is handed to the connection.
Finish(t) == pc[t] = "done" /\ Ends(t)

\* A panic ends the task and its connection, the reply is lost; the task of a
\* new connection takes its place.
Replaced(t) == pc[t] = "panicked" /\ Ends(t)

\* The file system fails the request.
Fails(t) == CheckFails(t) \/ BuildFails(t)

Works(t) ==
  \/ CheckStale(t) \/ LosesRace(t) \/ BeginBuild(t) \/ EndBuild(t)
  \/ ServeSize(t) \/ ServeChunk(t) \/ ChunkPanics(t) \/ ChunkUnreadable(t) \/ ServeDone(t)

Step(t) == Works(t) \/ Fails(t) \/ Replaced(t)

-----------------------------------------------------------------------------
\* Without rollback the shared entry never runs ahead of the file, its data
\* are at least as new as its version, and so is every asset still held.
EntryWithinDisk ==
  ~AllowRollback =>
     \A a \in {entry} \cup {asset[t] : t \in Tasks} :
        a.version <= a.data /\ a.data <= disk

\* Tasks that race for a rebuild never move the entry back to an older image.
EntryNeverRegresses ==
  [][~AllowRollback => entry'.version >= entry.version /\ entry'.data >= entry.data]_serverVars

\* A chunk of a cached asset can be read wherever the size it announces says
\* there is one: get_chunks never reads past the data.
ChunksReadSafely == \A t \in Tasks : pc[t] # "panicked"
=============================================================================
