------------------------------ MODULE LazyFSCache ------------------------------
(***************************************************************************)
(* The client's chunk caches on top of the assets server: LazyFS           *)
(* (lazyfs.js) keeps the chunks of a file in memory and in IndexedDB under *)
(* the version it learnt last, the server's frames carry no version, and   *)
(* the file may be rewritten at any time.                                  *)
(*                                                                         *)
(* The connection delivers in order and may be lost; the pending requests  *)
(* are then sent again on a new one (LazyFSConnection shows that in        *)
(* detail).  Chunk frames land in the cache whoever asked for them.        *)
(*                                                                         *)
(* X_Fault is a faulty variant of the operator X that follows it; the      *)
(* specification never uses it.                                            *)
(***************************************************************************)
EXTENDS AssetsServer, FiniteSets

CONSTANTS
  Chunks,         \* chunk numbers of the file
  MaxMishaps      \* bound: lost connections, timeouts, page
                  \* loads, registrations and requests of other clients

ASSUME CacheAssumption ==
  /\ Chunks \subseteq Nat
  /\ \A range \in Ranges : range[1] .. range[2] \subseteq Chunks
  /\ MaxMishaps \in Nat

VARIABLES
  conn,         \* the server task of the client's connection
  c2s, s2c,     \* the two directions of that connection
  fileVersion,  \* fileEntry.version, 0: null (the tag is then "unknown")
  sizeKnown,    \* fileEntry.size # null
  chunkCache,   \* tag -> chunk -> image of the bytes cached, 0: none
  idb,          \* the same, in IndexedDB
  reader,       \* where readFileData is
  want,         \* the first and the last chunk it reads
  at,           \* the next one to look up
  found,        \* what IndexedDB has for it, and the tag it was asked under
  missing,      \* those in neither cache
  awaited,      \* batches requested and not answered
  unsent,       \* batches whose send job has not run
  sizePending,  \* the get_size of registerFile or readFileData is pending
  probe,        \* a keep-alive get_size is travelling
  lookedUp,     \* history: fileVersion when the read began its look-up
  mishaps

cacheVars == <<fileVersion, sizeKnown, chunkCache, idb>>
readVars == <<reader, want, at, found, missing, awaited, unsent, lookedUp>>
askVars == <<sizePending, probe>>
clientVars == <<conn, c2s, s2c, cacheVars, readVars, askVars, mishaps>>
vars == <<serverVars, clientVars>>

\* Versions and images, 0 for none.
Tags == 0 .. LastImage
NotFound == <<0, 0>>
Empty == [tag \in Images |-> [i \in Chunks |-> 0]]

CacheTypeOK ==
  /\ ServerTypeOK
  /\ conn \in Tasks
  /\ c2s \in Seq(ServerRequests)
  /\ s2c \in Seq(Frames)
  /\ fileVersion \in Tags
  /\ sizeKnown \in BOOLEAN
  /\ chunkCache \in [Images -> [Chunks -> Tags]]
  /\ idb \in [Images -> [Chunks -> Tags]]
  /\ reader \in {"idle", "size", "lookup", "idb", "fetch", "failed"}
  /\ want \in Ranges
  /\ at \in Nat
  /\ found \in Tags \X Tags
  /\ missing \subseteq Chunks
  /\ awaited \subseteq Chunks \X Chunks
  /\ unsent \subseteq awaited
  /\ sizePending \in BOOLEAN
  /\ probe \in BOOLEAN
  /\ lookedUp \in Tags
  /\ mishaps \in Nat

Init ==
  /\ ServerInit
  /\ conn \in Tasks
  /\ c2s = <<SizeRequest>>
  /\ s2c = <<>>
  /\ fileVersion = 0
  /\ sizeKnown = FALSE
  /\ chunkCache = Empty
  /\ idb = Empty
  /\ reader = "idle"
  /\ want \in Ranges
  /\ at = 0
  /\ found = NotFound
  /\ missing = {}
  /\ awaited = {}
  /\ unsent = {}
  /\ sizePending = TRUE
  /\ probe = FALSE
  /\ lookedUp = 0
  /\ mishaps = 0

Mishap == mishaps < MaxMishaps /\ mishaps' = mishaps + 1

-----------------------------------------------------------------------------
(* The server side of the connection.                                      *)

RewriteFile == Rewrite /\ UNCHANGED clientVars

ServeRequest ==
  /\ c2s # <<>>
  /\ Arrive(conn, Head(c2s))
  /\ c2s' = Tail(c2s)
  /\ UNCHANGED <<conn, s2c, cacheVars, readVars, askVars, mishaps>>

OtherClientAsks(t) ==
  /\ t # conn /\ Mishap
  /\ Arrive(t, SizeRequest)
  /\ UNCHANGED <<conn, c2s, s2c, cacheVars, readVars, askVars>>

\* The client's own task is replaced when the client connects anew.
ServerStep(t) == Step(t) /\ (pc[t] = "panicked" => t # conn) /\ UNCHANGED clientVars

\* Only the frames of the current connection reach handleMessage.
Delivered_Fault(t) == TRUE
Delivered(t) == t = conn

SendReply(t) ==
  /\ Finish(t)
  /\ s2c' = IF Delivered(t) THEN s2c \o reply[t] ELSE s2c
  /\ UNCHANGED <<conn, c2s, cacheVars, readVars, askVars, mishaps>>

-----------------------------------------------------------------------------
(* readFileData.                                                           *)

Goto(place) == reader' = place

\* The read ends: its locals are gone.
EndRead_Fault ==
  /\ Goto("idle")
  /\ at' = 0
  /\ found' = NotFound
  /\ missing' = {}
  /\ awaited' = {}
  /\ lookedUp' = 0
  /\ UNCHANGED <<want, unsent>>

EndRead ==
  /\ Goto("idle")
  /\ at' = 0
  /\ found' = NotFound
  /\ missing' = {}
  /\ awaited' = {}
  /\ unsent' = {}
  /\ lookedUp' = 0
  /\ UNCHANGED want

\* The result is assembled under the tag of the moment.
Assembled(cache, tag) == \A i \in want[1] .. want[2] : cache[tag][i] # 0

\* The maximal runs of chunks that are missing.
Batches(chunks) ==
  {b \in chunks \X chunks :
     /\ b[1] <= b[2] /\ b[1] .. b[2] \subseteq chunks
     /\ b[2] + 1 \notin chunks /\ \A i \in chunks : i + 1 # b[1]}

AskSize ==
  /\ sizePending' = TRUE
  /\ c2s' = IF sizePending THEN c2s ELSE Append(c2s, SizeRequest)

BeginRead(range) ==
  /\ reader = "idle"
  /\ want' = range
  /\ at' = range[1]
  /\ IF sizeKnown
     THEN Goto("lookup") /\ lookedUp' = fileVersion /\ UNCHANGED <<c2s, sizePending>>
     ELSE Goto("size") /\ AskSize /\ UNCHANGED lookedUp
  /\ UNCHANGED <<serverVars, conn, s2c, cacheVars, found, missing, awaited, unsent, probe,
                 mishaps>>

\* A chunk cached under the tag of the moment.
Under(cache, i) == IF fileVersion \in Images THEN cache[fileVersion][i] ELSE 0

\* One chunk: memory first ...
LookUp ==
  /\ reader = "lookup" /\ at <= want[2]
  /\ Under(chunkCache, at) # 0
  /\ at' = at + 1
  /\ UNCHANGED <<serverVars, conn, c2s, s2c, cacheVars, reader, want, found, missing,
                 awaited, unsent, lookedUp, askVars, mishaps>>

\* ... then IndexedDB, which may be unavailable ...
AskIndexedDB ==
  /\ reader = "lookup" /\ at <= want[2]
  /\ Under(chunkCache, at) = 0
  /\ Goto("idb")
  /\ found' \in {<<fileVersion, Under(idb, at)>>, NotFound}
  /\ UNCHANGED <<serverVars, conn, c2s, s2c, cacheVars, want, at, missing, awaited,
                 unsent, lookedUp, askVars, mishaps>>

\* ... and what it answers, messages later, goes under the tag it was asked
\* for, over whatever arrived meanwhile.
Kept_Fault(cache, i, image) ==
  IF fileVersion \in Images THEN [cache EXCEPT ![fileVersion][i] = image] ELSE cache
Kept(cache, i, image) == [cache EXCEPT ![found[1]][i] = image]

IndexedDBAnswers ==
  /\ reader = "idb"
  /\ Goto("lookup")
  /\ at' = at + 1
  /\ found' = NotFound
  /\ IF found[2] # 0
     THEN chunkCache' = Kept(chunkCache, at, found[2]) /\ UNCHANGED missing
     ELSE missing' = missing \cup {at} /\ UNCHANGED chunkCache
  /\ UNCHANGED <<serverVars, conn, c2s, s2c, fileVersion, sizeKnown, idb, want, awaited,
                 unsent, lookedUp, askVars, mishaps>>

AllCached ==
  /\ reader = "lookup" /\ at > want[2] /\ missing = {}
  /\ EndRead
  /\ UNCHANGED <<serverVars, conn, c2s, s2c, cacheVars, askVars, mishaps>>

FetchMissing ==
  /\ reader = "lookup" /\ at > want[2] /\ missing # {}
  /\ Goto("fetch")
  /\ awaited' = Batches(missing)
  /\ unsent' = Batches(missing)
  /\ UNCHANGED <<serverVars, conn, c2s, s2c, cacheVars, want, at, found, missing,
                 lookedUp, askVars, mishaps>>

SendBatch(b) ==
  /\ b \in unsent
  /\ unsent' = unsent \ {b}
  /\ c2s' = Append(c2s, ChunksRequest(b[1], b[2]))
  /\ UNCHANGED <<serverVars, conn, s2c, cacheVars, reader, want, at, found, missing,
                 awaited, lookedUp, askVars, mishaps>>

-----------------------------------------------------------------------------
(* handleMessage.                                                          *)

Receive(type) ==
  /\ s2c # <<>>
  /\ Head(s2c).type = type
  /\ s2c' = Tail(s2c)
  /\ UNCHANGED <<serverVars, conn, c2s, mishaps>>

\* The answer to registerFile, to readFileData or to the keep-alive.
ReceiveSize ==
  /\ Receive("size")
  /\ fileVersion' = Head(s2c).image
  /\ sizeKnown' = (sizeKnown \/ sizePending)
  /\ sizePending' = FALSE
  /\ probe' = FALSE
  /\ IF reader = "size" /\ sizePending
     THEN Goto("lookup") /\ lookedUp' = Head(s2c).image
     ELSE UNCHANGED <<reader, lookedUp>>
  /\ UNCHANGED <<chunkCache, idb, want, at, found, missing, awaited, unsent>>

\* The tag a chunk is filed under: the version known when it arrives.  Chunks
\* filed under "unknown" are never looked up and are left out.
Filed(cache, i, image) == [cache EXCEPT ![fileVersion][i] = image]

\* handleBinaryChunk; the write to IndexedDB may fail.
ReceiveChunk ==
  LET i == Head(s2c).index
      image == Head(s2c).image
  IN
  /\ Receive("chunk")
  /\ IF fileVersion = 0
     THEN UNCHANGED <<chunkCache, idb>>
     ELSE /\ chunkCache' = Filed(chunkCache, i, image)
          /\ idb' = Filed(idb, i, image) \/ idb' = idb
  /\ UNCHANGED <<fileVersion, sizeKnown, readVars, askVars>>

ReceiveDone ==
  LET batch == <<Head(s2c).index, Head(s2c).last>> IN
  /\ Receive("chunks_done")
  /\ IF reader = "fetch" /\ awaited = {batch}
     THEN EndRead
     ELSE /\ awaited' = awaited \ {batch}
          /\ unsent' = unsent \ {batch}
          /\ UNCHANGED <<reader, want, at, found, missing, lookedUp>>
  /\ UNCHANGED <<cacheVars, askVars>>

\* An error frame names no request; the timer of the request will end it.
ReceiveError ==
  /\ Receive("error")
  /\ UNCHANGED <<cacheVars, readVars, askVars>>

\* The keep-alive asks for the size of the file that was registered first.
KeepAlive ==
  /\ ~probe
  /\ probe' = TRUE
  /\ c2s' = Append(c2s, SizeRequest)
  /\ UNCHANGED <<serverVars, conn, s2c, cacheVars, readVars, sizePending, mishaps>>

-----------------------------------------------------------------------------
(* Timers, lost connections, new pages.                                    *)

SizeTimesOut ==
  /\ sizePending /\ Mishap
  /\ sizePending' = FALSE
  /\ IF reader = "size" THEN EndRead ELSE UNCHANGED readVars
  /\ UNCHANGED <<serverVars, conn, c2s, s2c, cacheVars, probe>>

\* Timers of batches fire: the read gives up, or offers a retry. (What is still
\* pending when it gives up only matters when it arrives.)
FetchTimesOut ==
  /\ reader = "fetch" /\ Mishap
  /\ \/ EndRead
     \/ /\ Goto("failed")
        /\ awaited' \in (SUBSET awaited) \ {awaited}
        /\ unsent' = unsent \cap awaited'
        /\ UNCHANGED <<want, at, found, missing, lookedUp>>
  /\ UNCHANGED <<serverVars, conn, c2s, s2c, cacheVars, askVars>>

\* The user presses retry: every batch of the read is asked for again, those
\* that were answered included; those that are pending are joined.
RetryFetch ==
  /\ reader = "failed"
  /\ Goto("fetch")
  /\ awaited' = Batches(missing)
  /\ unsent' = unsent \cup (Batches(missing) \ awaited)
  /\ UNCHANGED <<serverVars, conn, c2s, s2c, cacheVars, want, at, found, missing,
                 lookedUp, askVars, mishaps>>

\* Pending requests are replayed on a new connection, served by another task;
\* the old task, if it is busy, answers nobody.
Reconnect ==
  /\ IF pc[conn] = "panicked" THEN UNCHANGED mishaps ELSE Mishap
  /\ \E t \in Tasks : t # conn /\ pc[t] = "idle" /\ conn' = t
  /\ c2s' = IF sizePending THEN <<SizeRequest>> ELSE <<>>
  /\ s2c' = <<>>
  /\ unsent' = awaited
  /\ probe' = FALSE
  /\ UNCHANGED <<serverVars, cacheVars, reader, want, at, found, missing, awaited,
                 lookedUp, sizePending>>

\* A new page on a new connection: memory is empty, IndexedDB is not.
ReloadPage ==
  /\ Mishap
  /\ \E t \in Tasks : t # conn /\ pc[t] = "idle" /\ conn' = t
  /\ c2s' = <<SizeRequest>>
  /\ s2c' = <<>>
  /\ fileVersion' = 0
  /\ sizeKnown' = FALSE
  /\ chunkCache' = Empty
  /\ EndRead
  /\ sizePending' = TRUE
  /\ probe' = FALSE
  /\ UNCHANGED <<serverVars, idb>>

\* nl::file::open registers a file that NxFiles::init registered before.
RegisterAgain ==
  /\ reader = "idle" /\ Mishap
  /\ fileVersion' = 0
  /\ sizeKnown' = FALSE
  /\ AskSize
  /\ UNCHANGED <<serverVars, conn, s2c, chunkCache, idb, readVars, probe>>

-----------------------------------------------------------------------------
ReceiveAny == ReceiveSize \/ ReceiveChunk \/ ReceiveDone \/ ReceiveError

Next ==
  \/ RewriteFile \/ ServeRequest
  \/ \E t \in Tasks : OtherClientAsks(t) \/ ServerStep(t) \/ SendReply(t)
  \/ \E range \in Ranges : BeginRead(range)
  \/ LookUp \/ AskIndexedDB \/ IndexedDBAnswers \/ AllCached \/ FetchMissing
  \/ \E b \in Chunks \X Chunks : SendBatch(b)
  \/ ReceiveSize \/ ReceiveChunk \/ ReceiveDone \/ ReceiveError
  \/ KeepAlive \/ SizeTimesOut \/ FetchTimesOut \/ RetryFetch
  \/ Reconnect \/ ReloadPage \/ RegisterAgain

Spec == Init /\ [][Next]_vars

\* Messages are delivered, tasks are scheduled, the 25 s interval keeps
\* firing and a broken connection is noticed.
Fairness ==
  /\ \A t \in Tasks : WF_vars(ServerStep(t)) /\ WF_vars(SendReply(t))
  /\ WF_vars(ServeRequest)
  /\ WF_vars(ReceiveAny)
  /\ WF_vars(KeepAlive)
  /\ WF_vars(Reconnect /\ pc[conn] = "panicked")

FairSpec == Spec /\ Fairness

-----------------------------------------------------------------------------
\* What is cached under the version the file has now is what the file holds
\* now, in memory and across page loads, although frames carry no version.
FreshWhenCurrent ==
  \A i \in Chunks : {chunkCache[disk][i], idb[disk][i]} \subseteq {0, disk}

\* A chunk in the persistent cache is never overwritten by older bytes.
CacheNeverGoesBack ==
  [][\A tag \in Images, i \in Chunks : idb'[tag][i] >= idb[tag][i]]_vars

\* The version a client works with is never older than one that it, or the page
\* before it, has cached chunks under: answers that cross a lost connection, a
\* page load or a second registration never take it back.
NotBehindItsCache ==
  \A tag \in Images : \A i \in Chunks :
    chunkCache[tag][i] # 0 \/ idb[tag][i] # 0 => fileVersion = 0 \/ tag <= fileVersion

\* A read whose batches were all answered comes back incomplete only if the
\* file changed: not while the version it was looked up under is still the
\* client's version and the file's, and the file is that long.
ReadAnswered == AllCached \/ (ReceiveDone /\ reader = "fetch" /\ reader' = "idle")

IncompleteOnlyIfChanged ==
  [][(ReadAnswered /\ lookedUp = fileVersion /\ fileVersion = disk
      /\ \A i \in want[1] .. want[2] : i < SizeOf[disk])
       => Assembled(chunkCache, fileVersion)]_vars

\* Once the file stops changing the client learns its version.
EventuallyCurrent == (disk = LastImage) ~> (fileVersion = LastImage)
=============================================================================
