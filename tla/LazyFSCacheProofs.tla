--------------------------- MODULE LazyFSCacheProofs ---------------------------
(***************************************************************************)
(* The client caches never hold, under the version the file has now, bytes *)
(* the file had before (FreshWhenCurrent); no chunk goes back to older     *)
(* bytes (CacheNeverGoesBack), the client's version never falls behind one *)
(* it has cached under (NotBehindItsCache), and an answered read of a file *)
(* at rest is complete (IncompleteOnlyIfChanged), for any number of        *)
(* images, chunks, server tasks, clients and interruptions.                *)
(*                                                                         *)
(* The argument follows a version from the entry to the client: the entry  *)
(* knows the newest, the asset of the task at work may be older, the sizes *)
(* on the wire older still, and the client's own version the oldest; and   *)
(* bytes are never older than any version that was told before them. What  *)
(* the client is still to hear is one stream, the frames on the wire and   *)
(* then the rest of the reply its task builds: in it bytes and versions    *)
(* only go forward and the end of a batch comes after its chunks.          *)
(***************************************************************************)
EXTENDS LazyFSCache, AssetsServerProofs, WellFoundedInduction

\* A step of the client is one of the server too, or leaves it alone.
LEMMA NextIsServerAction ==
  ASSUME CacheTypeOK, [Next]_vars
  PROVE  ServerAction \/ UNCHANGED serverVars
<1>1. ASSUME ServeRequest
      PROVE  ServerAction
  <2>1. conn \in Tasks /\ Head(c2s) \in ServerRequests
    BY <1>1 DEF CacheTypeOK, ServeRequest
  <2>2. QED
    BY <1>1, <2>1 DEF ServeRequest, ServerAction
<1>2. ASSUME NEW t \in Tasks, OtherClientAsks(t) \/ ServerStep(t) \/ SendReply(t)
      PROVE  ServerAction
  BY <1>2 DEF OtherClientAsks, ServerStep, SendReply, ServerAction, ServerRequests
<1>3. ASSUME ReceiveSize \/ ReceiveChunk \/ ReceiveDone \/ ReceiveError
      PROVE  UNCHANGED serverVars
  BY <1>3 DEF ReceiveSize, ReceiveChunk, ReceiveDone, ReceiveError, Receive
<1>4. ASSUME \/ \E range \in Ranges : BeginRead(range)
             \/ LookUp \/ AskIndexedDB \/ IndexedDBAnswers \/ AllCached \/ FetchMissing
             \/ \E b \in Chunks \X Chunks : SendBatch(b)
             \/ KeepAlive \/ SizeTimesOut \/ FetchTimesOut \/ RetryFetch
             \/ Reconnect \/ ReloadPage \/ RegisterAgain
      PROVE  UNCHANGED serverVars
  BY <1>4 DEF BeginRead, LookUp, AskIndexedDB, IndexedDBAnswers, AllCached, FetchMissing,
              SendBatch, KeepAlive, SizeTimesOut,
              FetchTimesOut, RetryFetch, Reconnect, ReloadPage, RegisterAgain
<1>5. QED
  BY <1>1, <1>2, <1>3, <1>4 DEF Next, RewriteFile, ServerAction, vars

LEMMA ServerTypePreserved ==
  ASSUME CacheTypeOK, [Next]_vars
  PROVE  ServerTypeOK'
<1>1. ServerTypeOK
  BY DEF CacheTypeOK
<1>2. CASE UNCHANGED serverVars
  BY <1>1, <1>2 DEF ServerTypeOK, serverVars
<1>3. QED
  BY <1>1, <1>2, ServerTypeStep, NextIsServerAction

-----------------------------------------------------------------------------
(* Types of the client, by the groups of variables a step changes.         *)

WireTyped ==
  /\ conn \in Tasks
  /\ c2s \in Seq(ServerRequests)
  /\ s2c \in Seq(Frames)

CachesTyped ==
  /\ fileVersion \in Tags
  /\ sizeKnown \in BOOLEAN
  /\ chunkCache \in [Images -> [Chunks -> Tags]]
  /\ idb \in [Images -> [Chunks -> Tags]]

ReadTyped ==
  /\ reader \in {"idle", "size", "lookup", "idb", "fetch", "failed"}
  /\ want \in Ranges
  /\ at \in Nat
  /\ found \in Tags \X Tags
  /\ missing \subseteq Chunks
  /\ awaited \subseteq Chunks \X Chunks
  /\ unsent \subseteq awaited
  /\ lookedUp \in Tags
  \* the look-up has not left the range
  /\ reader \in {"size", "lookup", "idb"} => want[1] <= at
  /\ reader = "idb" => at <= want[2]
  \* and the batches awaited are those of the chunks it has not found
  /\ reader \in {"fetch", "failed"} => awaited \subseteq Batches(missing)

AskTyped == sizePending \in BOOLEAN /\ probe \in BOOLEAN /\ mishaps \in Nat

ClientTyped == WireTyped /\ CachesTyped /\ ReadTyped /\ AskTyped

LEMMA NoneIsATag == 0 \in Tags
BY ServerAssumption DEF ServerAssumption, Tags

\* Writing one chunk into a cache.
LEMMA CacheUpdated ==
  ASSUME NEW cache \in [Images -> [Chunks -> Tags]], NEW v, NEW i, NEW image \in Tags
  PROVE  [cache EXCEPT ![v][i] = image] \in [Images -> [Chunks -> Tags]]
<1>1. CASE v \in Images
  <2>1. [cache[v] EXCEPT ![i] = image] \in [Chunks -> Tags]
    BY <1>1
  <2>2. QED
    BY <2>1
<1>2. CASE v \notin Images
  BY <1>2
<1>3. QED
  BY <1>1, <1>2

\* A frame carries an image or nothing, the answer to a size question at a
\* version.
LEMMA HeadTyped ==
  ASSUME WireTyped, s2c # <<>>
  PROVE  Head(s2c) \in Frames /\ Head(s2c).image \in Tags /\ Tail(s2c) \in Seq(Frames)
<1>1. Head(s2c) \in Frames /\ Tail(s2c) \in Seq(Frames)
  BY DEF WireTyped
<1>2. QED
  BY <1>1 DEF Frames, Tags

LEMMA RangesTyped ==
  ASSUME NEW range \in Ranges
  PROVE  /\ range[1] \in Nat /\ range[2] \in Nat
         /\ \A i \in Nat : range[1] <= i /\ i <= range[2] => i \in Chunks
BY ServerAssumption, CacheAssumption DEF ServerAssumption, CacheAssumption

LEMMA EndReadTyped ==
  ASSUME ReadTyped, EndRead
  PROVE  ReadTyped'
BY NoneIsATag DEF ReadTyped, EndRead, Goto, NotFound

LEMMA WireStep ==
  ASSUME ServerTypeOK, ClientTyped, Next
  PROVE  WireTyped'
<1> USE ConstantsTyped DEF ClientTyped, WireTyped
<1>1. CASE RewriteFile
  BY <1>1 DEF RewriteFile, clientVars
<1>2. CASE ServeRequest
  BY <1>2 DEF ServeRequest
<1>3. ASSUME NEW t \in Tasks, OtherClientAsks(t) \/ ServerStep(t)
      PROVE  WireTyped'
  BY <1>3 DEF OtherClientAsks, ServerStep, clientVars
<1>4. ASSUME NEW t \in Tasks, SendReply(t)
      PROVE  WireTyped'
  <2>1. s2c \o reply[t] \in Seq(Frames)
    BY DEF ServerTypeOK
  <2>2. QED
    BY <1>4, <2>1 DEF SendReply
<1>5. ASSUME NEW range \in Ranges, BeginRead(range)
      PROVE  WireTyped'
  BY <1>5 DEF BeginRead, AskSize
<1>6. CASE \/ LookUp \/ AskIndexedDB \/ IndexedDBAnswers \/ AllCached \/ FetchMissing
           \/ SizeTimesOut \/ FetchTimesOut \/ RetryFetch
  BY <1>6 DEF LookUp, AskIndexedDB, IndexedDBAnswers, AllCached, FetchMissing, SizeTimesOut,
     FetchTimesOut, RetryFetch
<1>7. ASSUME NEW b \in Chunks \X Chunks, SendBatch(b)
      PROVE  WireTyped'
  <2>1. ChunksRequest(b[1], b[2]) \in ServerRequests
    BY CacheAssumption DEF CacheAssumption, ChunksRequest, ServerRequests
  <2>2. QED
    BY <1>7, <2>1 DEF SendBatch
<1>8. CASE ReceiveSize \/ ReceiveChunk \/ ReceiveDone \/ ReceiveError
  <2>1. /\ s2c # <<>> /\ s2c' = Tail(s2c) /\ UNCHANGED <<conn, c2s>>
    BY <1>8 DEF ReceiveSize, ReceiveChunk, ReceiveDone, ReceiveError, Receive
  <2>2. QED
    BY <2>1, HeadTyped
<1>9. CASE KeepAlive \/ RegisterAgain
  BY <1>9 DEF KeepAlive, RegisterAgain, AskSize
<1>10. CASE Reconnect
  <2>1. <<SizeRequest>> \in Seq(ServerRequests) /\ <<>> \in Seq(ServerRequests)
    OBVIOUS
  <2>2. c2s' \in Seq(ServerRequests)
    BY <1>10, <2>1 DEF Reconnect
  <2>3. s2c' = <<>> /\ conn' \in Tasks
    BY <1>10 DEF Reconnect
  <2>4. QED
    BY <2>2, <2>3
<1>11. CASE ReloadPage
  BY <1>11 DEF ReloadPage
<1>12. QED
  BY <1>1, <1>2, <1>3, <1>4, <1>5, <1>6, <1>7, <1>8, <1>9, <1>10, <1>11 DEF Next

LEMMA CachesStep ==
  ASSUME ServerTypeOK, ClientTyped, Next
  PROVE  CachesTyped'
<1> USE DEF ClientTyped, CachesTyped
<1>1. ASSUME UNCHANGED cacheVars
      PROVE  CachesTyped'
  BY <1>1 DEF cacheVars
<1>2. CASE IndexedDBAnswers
  <2>1. found[2] \in Tags
    BY DEF ReadTyped
  <2>2. Kept(chunkCache, at, found[2]) \in [Images -> [Chunks -> Tags]]
    BY <2>1, CacheUpdated DEF Kept
  <2>3. QED
    BY <1>2, <2>2 DEF IndexedDBAnswers
<1>3. CASE ReceiveSize
  <2>1. fileVersion' \in Tags
    BY <1>3, HeadTyped DEF ReceiveSize, Receive
  <2>2. sizeKnown' \in BOOLEAN
    BY <1>3 DEF ReceiveSize, AskTyped
  <2>3. QED
    BY <1>3, <2>1, <2>2 DEF ReceiveSize
<1>4. CASE ReceiveChunk
  <2>1. Head(s2c).image \in Tags
    BY <1>4, HeadTyped DEF ReceiveChunk, Receive
  <2>2. /\ chunkCache' \in {chunkCache, Filed(chunkCache, Head(s2c).index, Head(s2c).image)}
        /\ idb' \in {idb, Filed(idb, Head(s2c).index, Head(s2c).image)}
        /\ UNCHANGED <<fileVersion, sizeKnown>>
    BY <1>4 DEF ReceiveChunk
  <2>3. \A cache \in [Images -> [Chunks -> Tags]] :
           Filed(cache, Head(s2c).index, Head(s2c).image) \in [Images -> [Chunks -> Tags]]
    BY <2>1, CacheUpdated DEF Filed
  <2>4. QED
    BY <2>2, <2>3
<1>5. CASE ReloadPage
  BY <1>5, NoneIsATag DEF ReloadPage, Empty
<1>6. CASE RegisterAgain
  BY <1>6, NoneIsATag DEF RegisterAgain
<1>7. CASE \/ RewriteFile \/ ServeRequest \/ LookUp \/ AskIndexedDB \/ AllCached
           \/ FetchMissing \/ ReceiveDone \/ ReceiveError \/ KeepAlive \/ SizeTimesOut
           \/ FetchTimesOut \/ RetryFetch \/ Reconnect
  BY <1>7, <1>1 DEF RewriteFile, clientVars, ServeRequest, LookUp, AskIndexedDB, AllCached,
     FetchMissing,
     ReceiveDone, ReceiveError, KeepAlive, SizeTimesOut, FetchTimesOut, RetryFetch, Reconnect
<1>8. ASSUME NEW t \in Tasks, OtherClientAsks(t) \/ ServerStep(t) \/ SendReply(t)
      PROVE  CachesTyped'
  BY <1>8, <1>1 DEF OtherClientAsks, ServerStep, SendReply, clientVars
<1>9. ASSUME NEW range \in Ranges, BeginRead(range)
      PROVE  CachesTyped'
  BY <1>9, <1>1 DEF BeginRead
<1>10. ASSUME NEW b \in Chunks \X Chunks, SendBatch(b)
       PROVE  CachesTyped'
  BY <1>10, <1>1 DEF SendBatch
<1>11. QED
  BY <1>2, <1>3, <1>4, <1>5, <1>6, <1>7, <1>8, <1>9, <1>10 DEF Next

LEMMA ReadStep ==
  ASSUME ServerTypeOK, ClientTyped, Next
  PROVE  ReadTyped'
<1> USE DEF ClientTyped
<1>1. ASSUME UNCHANGED readVars
      PROVE  ReadTyped'
  BY <1>1 DEF readVars, ReadTyped
<1>2. ASSUME NEW range \in Ranges, BeginRead(range)
      PROVE  ReadTyped'
  BY <1>2, RangesTyped DEF BeginRead, ReadTyped, CachesTyped, Goto
<1>3. CASE LookUp
  <2>1. at' = at + 1 /\ reader' = "lookup" /\ want' = want /\ want[1] <= at'
    BY <1>3, RangesTyped DEF LookUp, ReadTyped
  <2>2. QED
    BY <1>3, <2>1 DEF LookUp, ReadTyped
<1>3a. CASE AskIndexedDB
  <2>1. at \in Chunks /\ at <= want[2] /\ want[1] <= at
    BY <1>3a, RangesTyped DEF AskIndexedDB, ReadTyped
  <2>2. Under(idb, at) \in Tags /\ fileVersion \in Tags
    BY <2>1, NoneIsATag DEF Under, CachesTyped
  <2>3. found' \in Tags \X Tags
    BY <1>3a, <2>2, NoneIsATag DEF AskIndexedDB, NotFound
  <2>4. QED
    BY <1>3a, <2>1, <2>3 DEF AskIndexedDB, ReadTyped, Goto
<1>3b. CASE IndexedDBAnswers
  <2>1. at \in Chunks /\ want[1] <= at
    BY <1>3b, RangesTyped DEF IndexedDBAnswers, ReadTyped
  <2>2. want[1] <= at + 1 /\ at + 1 \in Nat
    BY <2>1, RangesTyped DEF ReadTyped
  <2>3. found' \in Tags \X Tags /\ missing' \subseteq Chunks
    BY <1>3b, <2>1, NoneIsATag DEF IndexedDBAnswers, NotFound, ReadTyped
  <2>4. QED
    BY <1>3b, <2>2, <2>3 DEF IndexedDBAnswers, ReadTyped, Goto
<1>4. CASE AllCached
  BY <1>4, EndReadTyped DEF AllCached
<1>5. CASE FetchMissing
  <2>1. Batches(missing) \subseteq Chunks \X Chunks
    BY DEF ReadTyped, Batches
  <2>2. QED
    BY <1>5, <2>1 DEF FetchMissing, ReadTyped, Goto
<1>6. ASSUME NEW b \in Chunks \X Chunks, SendBatch(b)
      PROVE  ReadTyped'
  BY <1>6 DEF SendBatch, ReadTyped
<1>7. CASE ReceiveSize
  <2>1. Head(s2c).image \in Tags
    BY <1>7, HeadTyped DEF ReceiveSize, Receive
  <2>2. QED
    BY <1>7, <2>1 DEF ReceiveSize, ReadTyped, Goto
<1>8. CASE ReceiveDone
  <2>1. CASE EndRead
    BY <2>1, EndReadTyped
  <2>2. CASE ~EndRead
    BY <1>8, <2>2 DEF ReceiveDone, ReadTyped
  <2>3. QED
    BY <2>1, <2>2
<1>9. CASE SizeTimesOut
  <2>1. EndRead \/ UNCHANGED readVars
    BY <1>9 DEF SizeTimesOut
  <2>2. QED
    BY <2>1, <1>1, EndReadTyped
<1>10. CASE FetchTimesOut
  <2>1. CASE EndRead
    BY <2>1, EndReadTyped
  <2>2. CASE ~EndRead
    <3>1. /\ reader = "fetch" /\ reader' = "failed" /\ awaited' \subseteq awaited
          /\ unsent' = unsent \cap awaited'
          /\ UNCHANGED <<want, at, found, missing, lookedUp>>
      BY <1>10, <2>2 DEF FetchTimesOut, Goto
    <3>2. QED
      BY <3>1 DEF ReadTyped
  <2>3. QED
    BY <2>1, <2>2
<1>10a. CASE RetryFetch
  <2>1. Batches(missing) \subseteq Chunks \X Chunks
    BY DEF ReadTyped, Batches
  <2>2. /\ reader' = "fetch" /\ awaited' = Batches(missing)
        /\ unsent' = unsent \cup (Batches(missing) \ awaited)
        /\ UNCHANGED <<want, at, found, missing, lookedUp>>
    BY <1>10a DEF RetryFetch, Goto
  <2>3. unsent \subseteq Batches(missing)
    BY <1>10a DEF ReadTyped, RetryFetch
  <2>4. QED
    BY <2>1, <2>2, <2>3 DEF ReadTyped
<1>11. CASE Reconnect
  BY <1>11 DEF Reconnect, ReadTyped
<1>12. CASE ReloadPage
  BY <1>12, EndReadTyped DEF ReloadPage
<1>13. CASE \/ RewriteFile \/ ServeRequest \/ ReceiveChunk \/ ReceiveError \/ KeepAlive
            \/ RegisterAgain
  BY <1>13, <1>1 DEF RewriteFile, clientVars, ServeRequest, ReceiveChunk, ReceiveError,
     KeepAlive, RegisterAgain
<1>14. ASSUME NEW t \in Tasks, OtherClientAsks(t) \/ ServerStep(t) \/ SendReply(t)
       PROVE  ReadTyped'
  BY <1>14, <1>1 DEF OtherClientAsks, ServerStep, SendReply, clientVars
<1>15. QED
  BY <1>2, <1>3, <1>3a, <1>3b, <1>4, <1>5, <1>6, <1>7, <1>8, <1>9, <1>10, <1>10a,
     <1>11, <1>12, <1>13, <1>14 DEF Next

LEMMA AskStep ==
  ASSUME ServerTypeOK, ClientTyped, Next
  PROVE  AskTyped'
<1> USE DEF ClientTyped, AskTyped
<1>1. ASSUME UNCHANGED <<askVars, mishaps>>
      PROVE  AskTyped'
  BY <1>1 DEF askVars
<1>2. CASE \/ RewriteFile \/ ServeRequest \/ LookUp \/ AskIndexedDB \/ IndexedDBAnswers
           \/ AllCached \/ FetchMissing
           \/ RetryFetch \/ ReceiveChunk \/ ReceiveDone \/ ReceiveError
  BY <1>2, <1>1 DEF RewriteFile, clientVars, ServeRequest, LookUp, AskIndexedDB,
     IndexedDBAnswers, AllCached, FetchMissing, RetryFetch,
     ReceiveChunk, ReceiveDone, ReceiveError, Receive
<1>3. ASSUME NEW t \in Tasks, OtherClientAsks(t) \/ ServerStep(t) \/ SendReply(t)
      PROVE  AskTyped'
  BY <1>3 DEF OtherClientAsks, ServerStep, SendReply, clientVars, askVars, Mishap
<1>4. ASSUME NEW range \in Ranges, BeginRead(range)
      PROVE  AskTyped'
  BY <1>4 DEF BeginRead, AskSize
<1>5. ASSUME NEW b \in Chunks \X Chunks, SendBatch(b)
      PROVE  AskTyped'
  BY <1>5, <1>1 DEF SendBatch
<1>6. CASE ReceiveSize \/ KeepAlive
  BY <1>6 DEF ReceiveSize, Receive, KeepAlive
<1>7. CASE SizeTimesOut \/ FetchTimesOut
  <2>1. mishaps' \in Nat
    BY <1>7 DEF SizeTimesOut, FetchTimesOut, Mishap
  <2>2. probe' = probe /\ (sizePending' = sizePending \/ sizePending' = FALSE)
    BY <1>7 DEF SizeTimesOut, FetchTimesOut, askVars
  <2>3. QED
    BY <2>1, <2>2
<1>8. CASE Reconnect
  <2>1. mishaps' \in Nat
    BY <1>8 DEF Reconnect, Mishap
  <2>2. probe' = FALSE /\ sizePending' = sizePending
    BY <1>8 DEF Reconnect
  <2>3. QED
    BY <2>1, <2>2
<1>9. CASE ReloadPage \/ RegisterAgain
  <2>1. mishaps' \in Nat
    BY <1>9 DEF ReloadPage, RegisterAgain, Mishap
  <2>2. (probe' = probe \/ probe' = FALSE) /\ sizePending' = TRUE
    BY <1>9 DEF ReloadPage, RegisterAgain, AskSize
  <2>3. QED
    BY <2>1, <2>2
<1>10. QED
  BY <1>2, <1>3, <1>4, <1>5, <1>6, <1>7, <1>8, <1>9 DEF Next

LEMMA ClientInitTyped == Init => ClientTyped
<1> SUFFICES ASSUME Init
             PROVE  ClientTyped
  OBVIOUS
<1>1. WireTyped
  BY ConstantsTyped DEF Init, WireTyped
<1>2. CachesTyped
  BY NoneIsATag DEF Init, CachesTyped, Empty
<1>3. ReadTyped
  BY NoneIsATag DEF Init, ReadTyped, NotFound
<1>4. AskTyped
  BY DEF Init, AskTyped
<1>5. QED
  BY <1>1, <1>2, <1>3, <1>4 DEF ClientTyped

\* The types of the server and of the client, over one step.
LEMMA TypeStep ==
  ASSUME ServerTypeOK, ClientTyped, [Next]_vars
  PROVE  CacheTypeOK /\ ServerTypeOK' /\ ClientTyped'
<1>1. CacheTypeOK
  BY DEF CacheTypeOK, ClientTyped, WireTyped, CachesTyped, ReadTyped, AskTyped
<1>2. ServerTypeOK'
  BY <1>1, ServerTypePreserved
<1>3. Next => ClientTyped'
  BY WireStep, CachesStep, ReadStep, AskStep DEF ClientTyped
<1>4. UNCHANGED vars => ClientTyped'
  BY DEF vars, clientVars, cacheVars, readVars, askVars, ClientTyped, WireTyped,
         CachesTyped, ReadTyped, AskTyped
<1>5. QED
  BY <1>1, <1>2, <1>3, <1>4

\* Every variable of the client and of the server keeps its type, and no step
\* refers to a batch or a chunk the read did not ask for.
THEOREM CacheTypeCorrect == Spec => []CacheTypeOK
<1>1. Init => ServerTypeOK /\ ClientTyped
  BY ClientInitTyped, ServerInitTyped DEF Init
<1>2. (ServerTypeOK /\ ClientTyped) /\ [Next]_vars => (ServerTypeOK /\ ClientTyped)'
  BY TypeStep
<1>3. ServerTypeOK /\ ClientTyped => CacheTypeOK
  BY DEF CacheTypeOK, ClientTyped, WireTyped, CachesTyped, ReadTyped, AskTyped
<1>4. QED
  BY <1>1, <1>2, <1>3, PTL DEF Spec

-----------------------------------------------------------------------------
(* What is on the wire, as a sequence of frames.                           *)

NoSizeAbove(s, version) ==
  \A i \in 1 .. Len(s) : s[i].type = "size" => s[i].image <= version

ChunksWithin(s, oldest, newest) ==
  \A i \in 1 .. Len(s) : s[i].type = "chunk" => oldest <= s[i].image /\ s[i].image <= newest

\* Bytes are no older than any version told before them.
InOrder(s) ==
  \A i, j \in 1 .. Len(s) :
     i < j /\ s[i].type = "size" /\ s[j].type = "chunk" => s[i].image <= s[j].image

LEMMA FrameTyped ==
  ASSUME NEW s \in Seq(Frames), NEW i \in 1 .. Len(s)
  PROVE  s[i].image \in Nat
<1>1. s[i] \in Frames
  OBVIOUS
<1>2. QED
  BY <1>1 DEF Frames

\* Versions are ordered transitively.
LEMMA NoOlderThan == \A a, b, c \in Nat : a <= b /\ b <= c => a <= c
OBVIOUS

LEMMA WireTail ==
  ASSUME NEW s \in Seq(Frames), s # <<>>, NEW oldest, NEW newest, NEW version,
         NoSizeAbove(s, version), ChunksWithin(s, oldest, newest), InOrder(s)
  PROVE  /\ NoSizeAbove(Tail(s), version)
         /\ ChunksWithin(Tail(s), oldest, newest)
         /\ InOrder(Tail(s))
         /\ Head(s).type = "size" => ChunksWithin(Tail(s), Head(s).image, newest)
         /\ Head(s).type = "size" => Head(s).image <= version
         /\ Head(s).type = "chunk" => oldest <= Head(s).image /\ Head(s).image <= newest
<1>1. /\ Len(s) \in Nat \ {0} /\ Len(Tail(s)) = Len(s) - 1
      /\ Head(s) = s[1]
      /\ \A i \in 1 .. Len(s) - 1 : Tail(s)[i] = s[i + 1] /\ i + 1 \in 1 .. Len(s)
  OBVIOUS
<1>2. NoSizeAbove(Tail(s), version) /\ ChunksWithin(Tail(s), oldest, newest)
  BY <1>1 DEF NoSizeAbove, ChunksWithin
<1>3. InOrder(Tail(s))
  <2> SUFFICES ASSUME NEW i \in 1 .. Len(s) - 1, NEW j \in 1 .. Len(s) - 1, i < j,
                      Tail(s)[i].type = "size", Tail(s)[j].type = "chunk"
               PROVE  Tail(s)[i].image <= Tail(s)[j].image
    BY <1>1 DEF InOrder
  <2>1. i + 1 < j + 1 /\ i + 1 \in 1 .. Len(s) /\ j + 1 \in 1 .. Len(s)
    BY <1>1
  <2>2. Tail(s)[i] = s[i + 1] /\ Tail(s)[j] = s[j + 1]
    BY <1>1
  <2>3. QED
    BY <2>1, <2>2 DEF InOrder
<1>4. ASSUME Head(s).type = "size"
      PROVE  ChunksWithin(Tail(s), Head(s).image, newest)
  <2> SUFFICES ASSUME NEW i \in 1 .. Len(s) - 1, Tail(s)[i].type = "chunk"
               PROVE  Head(s).image <= Tail(s)[i].image /\ Tail(s)[i].image <= newest
    BY <1>1 DEF ChunksWithin
  <2>1. Tail(s)[i] = s[i + 1] /\ i + 1 \in 1 .. Len(s) /\ 1 < i + 1 /\ 1 \in 1 .. Len(s)
    BY <1>1
  <2>2. QED
    BY <1>1, <1>4, <2>1 DEF InOrder, ChunksWithin
<1>5. QED
  BY <1>1, <1>2, <1>3, <1>4 DEF NoSizeAbove, ChunksWithin

\* A reply that starts from a version no older than the versions told.
LEMMA WireExtended ==
  ASSUME NEW s \in Seq(Frames), NEW r \in Seq(Frames),
         NEW oldest \in Nat, NEW version \in Nat, NEW newest,
         oldest <= version,
         NoSizeAbove(s, version), ChunksWithin(s, oldest, newest), InOrder(s),
         NoSizeAbove(r, version), ChunksWithin(r, version, newest)
  PROVE  /\ NoSizeAbove(s \o r, version)
         /\ ChunksWithin(s \o r, oldest, newest)
         /\ InOrder(s \o r)
<1>1. /\ s \o r \in Seq(Frames) /\ Len(s \o r) = Len(s) + Len(r)
      /\ \A i \in 1 .. Len(s) : (s \o r)[i] = s[i]
      /\ \A i \in Len(s) + 1 .. Len(s) + Len(r) :
            (s \o r)[i] = r[i - Len(s)] /\ i - Len(s) \in 1 .. Len(r)
      /\ Len(s) \in Nat /\ Len(r) \in Nat
  OBVIOUS
<1>2. \A i \in 1 .. Len(s \o r) :
         \/ i \in 1 .. Len(s)
         \/ i \in Len(s) + 1 .. Len(s) + Len(r)
  BY <1>1
<1>3. \A i \in 1 .. Len(s \o r) : (s \o r)[i].image \in Nat
  BY <1>1, FrameTyped
<1>4. NoSizeAbove(s \o r, version)
  BY <1>1, <1>2 DEF NoSizeAbove
<1>5. ChunksWithin(s \o r, oldest, newest)
  <2> SUFFICES ASSUME NEW i \in 1 .. Len(s \o r), (s \o r)[i].type = "chunk"
               PROVE  oldest <= (s \o r)[i].image /\ (s \o r)[i].image <= newest
    BY DEF ChunksWithin
  <2>1. CASE i \in 1 .. Len(s)
    BY <1>1, <2>1 DEF ChunksWithin
  <2>2. CASE i \in Len(s) + 1 .. Len(s) + Len(r)
    <3>1. version <= (s \o r)[i].image /\ (s \o r)[i].image <= newest
      BY <1>1, <2>2 DEF ChunksWithin
    <3>2. (s \o r)[i].image \in Nat
      BY <1>3
    <3>3. QED
      BY <3>1, <3>2, NoOlderThan, Zenon
  <2>3. QED
    BY <1>2, <2>1, <2>2
<1>6. InOrder(s \o r)
  <2> SUFFICES ASSUME NEW i \in 1 .. Len(s \o r), NEW j \in 1 .. Len(s \o r), i < j,
                      (s \o r)[i].type = "size", (s \o r)[j].type = "chunk"
               PROVE  (s \o r)[i].image <= (s \o r)[j].image
    BY DEF InOrder
  <2>1. CASE j \in 1 .. Len(s)
    <3>1. i \in 1 .. Len(s)
      BY <2>1
    <3>2. QED
      BY <1>1, <2>1, <3>1 DEF InOrder
  <2>2. CASE j \in Len(s) + 1 .. Len(s) + Len(r)
    <3>1. version <= (s \o r)[j].image
      BY <1>1, <2>2 DEF ChunksWithin
    <3>2. (s \o r)[i].image <= version
      BY <1>4 DEF NoSizeAbove
    <3>3. (s \o r)[i].image \in Nat /\ (s \o r)[j].image \in Nat
      BY <1>3
    <3>4. QED
      BY <3>1, <3>2, <3>3, NoOlderThan, Zenon
  <2>3. QED
    BY <1>2, <2>1, <2>2
<1>7. QED
  BY <1>4, <1>5, <1>6

-----------------------------------------------------------------------------
(* What the client knows is never ahead of what the server knows.          *)

\* The task at work for the client may have cloned an older entry, but not
\* one older than anything it has told the client.
TaskAhead ==
  pc[conn] # "idle" =>
     fileVersion <= asset[conn].version /\ NoSizeAbove(s2c, asset[conn].version)

WireOrdered ==
  /\ NoSizeAbove(s2c, entry.version)
  /\ ChunksWithin(s2c, fileVersion, disk)
  /\ InOrder(s2c)

ClientOrder == fileVersion <= entry.version /\ WireOrdered /\ TaskAhead

\* A step in which the client hears nothing.
LEMMA OrderKept ==
  ASSUME ServerTypeOK, ServerTypeOK', ClientTyped, AssetsOrdered, ~AllowRollback, ClientOrder,
         ServerAction \/ UNCHANGED serverVars,
         UNCHANGED <<conn, s2c, fileVersion>>
  PROVE  ClientOrder'
<1>1. /\ disk <= disk' /\ entry.version <= entry'.version
      /\ pc'[conn] # "idle" =>
            IF pc[conn] = "idle" THEN asset'[conn] = entry
                                 ELSE asset[conn].version <= asset'[conn].version
  <2>1. CASE ServerAction
    BY <2>1, ServerOnlyAdvances DEF ClientTyped, WireTyped
  <2>2. CASE UNCHANGED serverVars
    BY <2>2, Numbers DEF serverVars, ClientTyped, WireTyped
  <2>3. QED
    BY <2>1, <2>2
<1>2. /\ disk \in Nat /\ disk' \in Nat /\ entry.version \in Nat /\ entry'.version \in Nat
      /\ asset[conn].version \in Nat /\ asset'[conn].version \in Nat
      /\ fileVersion \in Nat
  <2>1. disk \in Nat /\ disk' \in Nat /\ entry.version \in Nat /\ entry'.version \in Nat
    BY ConstantsTyped, AssetFields DEF ServerTypeOK
  <2>2. conn \in Tasks /\ fileVersion \in Nat
    BY DEF ClientTyped, WireTyped, CachesTyped, Tags
  <2>3. asset[conn].version \in Nat /\ asset'[conn].version \in Nat
    BY <2>2, AssetFields DEF ServerTypeOK
  <2>4. QED
    BY <2>1, <2>2, <2>3
<1>3. \A i \in 1 .. Len(s2c) : s2c[i].image \in Nat
  BY FrameTyped DEF ClientTyped, WireTyped
<1>4. WireOrdered'
  <2>1. NoSizeAbove(s2c, entry.version)'
    BY <1>1, <1>2, <1>3 DEF ClientOrder, WireOrdered, NoSizeAbove
  <2>2. ChunksWithin(s2c, fileVersion, disk)'
    BY <1>1, <1>2, <1>3 DEF ClientOrder, WireOrdered, ChunksWithin
  <2>3. InOrder(s2c)'
    BY DEF ClientOrder, WireOrdered, InOrder
  <2>4. QED
    BY <2>1, <2>2, <2>3 DEF WireOrdered
<1>5. TaskAhead'
  <2> SUFFICES ASSUME pc'[conn] # "idle"
               PROVE  /\ fileVersion <= asset'[conn].version
                      /\ NoSizeAbove(s2c, asset'[conn].version)
    BY DEF TaskAhead, NoSizeAbove
  <2>1. CASE pc[conn] = "idle"
    BY <1>1, <2>1 DEF ClientOrder, WireOrdered
  <2>2. CASE pc[conn] # "idle"
    <3>1. /\ fileVersion <= asset[conn].version
          /\ NoSizeAbove(s2c, asset[conn].version)
          /\ asset[conn].version <= asset'[conn].version
      BY <1>1, <2>2 DEF ClientOrder, TaskAhead
    <3>2. QED
      BY <3>1, <1>2, <1>3 DEF NoSizeAbove
  <2>3. QED
    BY <2>1, <2>2
<1>6. fileVersion' <= entry'.version
  BY <1>1, <1>2 DEF ClientOrder
<1>7. QED
  BY <1>4, <1>5, <1>6 DEF ClientOrder

\* The reply of the client's task joins the wire.
LEMMA OrderSend ==
  ASSUME ServerTypeOK, ClientTyped, ServerOrder, ClientOrder,
         SendReply(conn)
  PROVE  ClientOrder'
<1> DEFINE r == reply[conn]
           version == asset[conn].version
<1>1. /\ pc[conn] # "idle" /\ pc'[conn] = "idle"
      /\ s2c' = s2c \o r
      /\ UNCHANGED <<disk, entry, conn, fileVersion>>
  BY DEF SendReply, Finish, Ends, Delivered, cacheVars, ServerTypeOK, ClientTyped, WireTyped
<1>2. r \in Seq(Frames) /\ s2c \in Seq(Frames) /\ conn \in Tasks
  BY DEF ServerTypeOK, ClientTyped, WireTyped
<1>3. version \in Nat /\ fileVersion \in Nat /\ entry.version \in Nat /\ version <= entry.version
  BY <1>2, Numbers DEF ServerTypeOK, ServerOrder, AssetsOrdered, AssetOrdered,
                       ClientTyped, CachesTyped, Tags
<1>4. fileVersion <= version /\ NoSizeAbove(s2c, version)
  BY <1>1 DEF ClientOrder, TaskAhead
<1>5. NoSizeAbove(r, version) /\ ChunksWithin(r, version, disk)
  <2>1. \A i \in 1 .. Len(r) : FrameFits(conn, r[i])
    BY <1>2 DEF ServerOrder, RepliesFit, ReplyFits
  <2>2. QED
    BY <2>1, <1>3 DEF FrameFits, NoSizeAbove, ChunksWithin
<1>6. /\ NoSizeAbove(s2c \o r, version)
      /\ ChunksWithin(s2c \o r, fileVersion, disk)
      /\ InOrder(s2c \o r)
  BY <1>2, <1>3, <1>4, <1>5, WireExtended DEF ClientOrder, WireOrdered
<1>7. NoSizeAbove(s2c \o r, entry.version)
  <2>1. s2c \o r \in Seq(Frames)
    BY <1>2
  <2>2. \A i \in 1 .. Len(s2c \o r) : (s2c \o r)[i].image \in Nat
    BY <2>1, FrameTyped
  <2>3. QED
    BY <2>2, <1>3, <1>6 DEF NoSizeAbove
<1>8. WireOrdered'
  BY <1>1, <1>6, <1>7 DEF WireOrdered, NoSizeAbove, ChunksWithin, InOrder
<1>9. QED
  BY <1>1, <1>8 DEF ClientOrder, TaskAhead

\* The client takes a frame; a size becomes the version it knows.
LEMMA OrderReceive ==
  ASSUME ServerTypeOK, ClientTyped, ClientOrder,
         UNCHANGED <<serverVars, conn>>, s2c # <<>>, s2c' = Tail(s2c),
         \/ fileVersion' = fileVersion
         \/ Head(s2c).type = "size" /\ fileVersion' = Head(s2c).image
  PROVE  ClientOrder'
<1>1. s2c \in Seq(Frames)
  BY DEF ClientTyped, WireTyped
<1>2. /\ NoSizeAbove(Tail(s2c), entry.version)
      /\ ChunksWithin(Tail(s2c), fileVersion', disk)
      /\ InOrder(Tail(s2c))
      /\ fileVersion' <= entry.version
  BY <1>1, WireTail DEF ClientOrder, WireOrdered
<1>3. pc[conn] # "idle" =>
         fileVersion' <= asset[conn].version /\ NoSizeAbove(Tail(s2c), asset[conn].version)
  BY <1>1, WireTail DEF ClientOrder, WireOrdered, TaskAhead
<1>4. UNCHANGED <<entry, disk, pc, asset, conn>>
  BY DEF serverVars
<1>5. QED
  BY <1>2, <1>3, <1>4 DEF ClientOrder, WireOrdered, TaskAhead, NoSizeAbove, ChunksWithin,
     InOrder

LEMMA OrderStep ==
  ASSUME ServerTypeOK, ClientTyped, ServerOrder, ~AllowRollback, ClientOrder, [Next]_vars
  PROVE  ClientOrder'
<1>1. /\ CacheTypeOK /\ ServerTypeOK' /\ ClientTyped'
      /\ ServerAction \/ UNCHANGED serverVars
  BY TypeStep, NextIsServerAction
<1>2. ASSUME UNCHANGED <<conn, s2c, fileVersion>>
      PROVE  ClientOrder'
  BY <1>1, <1>2, OrderKept DEF ServerOrder
<1>3. CASE \/ UNCHANGED vars \/ RewriteFile \/ ServeRequest \/ LookUp \/ AskIndexedDB
           \/ IndexedDBAnswers \/ AllCached \/ FetchMissing \/ KeepAlive \/ SizeTimesOut
           \/ FetchTimesOut \/ RetryFetch
  BY <1>3, <1>2 DEF vars, clientVars, cacheVars, RewriteFile, ServeRequest, LookUp,
     AskIndexedDB, IndexedDBAnswers, AllCached,
     FetchMissing, KeepAlive, SizeTimesOut, FetchTimesOut, RetryFetch
<1>4. ASSUME NEW t \in Tasks, OtherClientAsks(t) \/ ServerStep(t)
      PROVE  ClientOrder'
  BY <1>4, <1>2 DEF OtherClientAsks, ServerStep, clientVars, cacheVars
<1>5. ASSUME NEW t \in Tasks, SendReply(t)
      PROVE  ClientOrder'
  <2>1. CASE t = conn
    BY <1>5, <2>1, OrderSend
  <2>2. CASE t # conn
    BY <1>5, <2>2, <1>2 DEF SendReply, Delivered, cacheVars
  <2>3. QED
    BY <2>1, <2>2
<1>6. ASSUME NEW range \in Ranges, BeginRead(range)
      PROVE  ClientOrder'
  BY <1>6, <1>2 DEF BeginRead, cacheVars
<1>7. ASSUME NEW b \in Chunks \X Chunks, SendBatch(b)
      PROVE  ClientOrder'
  BY <1>7, <1>2 DEF SendBatch, cacheVars
<1>8. CASE ReceiveSize \/ ReceiveChunk \/ ReceiveDone \/ ReceiveError
  <2>1. /\ UNCHANGED <<serverVars, conn>> /\ s2c # <<>> /\ s2c' = Tail(s2c)
        /\ \/ fileVersion' = fileVersion
           \/ Head(s2c).type = "size" /\ fileVersion' = Head(s2c).image
    BY <1>8 DEF ReceiveSize, ReceiveChunk, ReceiveDone, ReceiveError, Receive, cacheVars
  <2>2. QED
    BY <2>1, OrderReceive
<1>9. CASE Reconnect \/ ReloadPage
  <2>1. /\ s2c' = <<>> /\ pc'[conn'] = "idle" /\ UNCHANGED entry
        /\ fileVersion' \in {fileVersion, 0}
    BY <1>9 DEF Reconnect, ReloadPage, cacheVars, serverVars
  <2>2. fileVersion' <= entry'.version
    BY <2>1, Numbers DEF ClientOrder
  <2>3. QED
    BY <2>1, <2>2 DEF ClientOrder, WireOrdered, TaskAhead, NoSizeAbove, ChunksWithin, InOrder
<1>10. CASE RegisterAgain
  <2>1. UNCHANGED <<serverVars, conn, s2c>> /\ fileVersion' = 0
    BY <1>10 DEF RegisterAgain
  <2>2. UNCHANGED <<disk, entry, pc, asset>>
    BY <2>1 DEF serverVars
  <2>3. \A i \in 1 .. Len(s2c) : s2c[i].image \in Nat
    BY FrameTyped DEF ClientTyped, WireTyped
  <2>4. conn \in Tasks
    BY DEF ClientTyped, WireTyped
  <2>5. 0 <= entry.version /\ 0 <= asset[conn].version
    BY <2>4, Numbers
  <2>6. ChunksWithin(s2c, 0, disk)
    BY <2>3 DEF ClientOrder, WireOrdered, ChunksWithin
  <2>7. QED
    BY <2>1, <2>2, <2>5, <2>6
       DEF ClientOrder, WireOrdered, TaskAhead, NoSizeAbove, ChunksWithin, InOrder
<1>11. QED
  BY <1>3, <1>4, <1>5, <1>6, <1>7, <1>8, <1>9, <1>10 DEF Next

-----------------------------------------------------------------------------
(* The caches.                                                             *)

\* Bytes filed under a version are no older than it, nor newer than the file.
FitsTags(cache, newest) ==
  \A tag \in Images, i \in Chunks :
     cache[tag][i] # 0 => tag <= cache[tag][i] /\ cache[tag][i] <= newest

NeverOlder == FitsTags(chunkCache, disk) /\ FitsTags(idb, disk)

\* So are the bytes IndexedDB has found for the look-up.
FoundFits == found[2] # 0 => found[1] <= found[2] /\ found[2] <= disk

LEMMA FiledFits ==
  ASSUME NEW cache \in [Images -> [Chunks -> Tags]], NEW newest, FitsTags(cache, newest),
         NEW v, NEW i, NEW image \in Tags,
         image # 0 => v <= image /\ image <= newest
  PROVE  FitsTags([cache EXCEPT ![v][i] = image], newest)
<1> DEFINE filed == [cache EXCEPT ![v][i] = image]
<1> SUFFICES ASSUME NEW tag \in Images, NEW k \in Chunks, filed[tag][k] # 0
             PROVE  tag <= filed[tag][k] /\ filed[tag][k] <= newest
  BY DEF FitsTags
<1>1. filed[tag][k] = IF tag = v /\ k = i THEN image ELSE cache[tag][k]
  OBVIOUS
<1>2. QED
  BY <1>1 DEF FitsTags

LEMMA FitsLaterDisk ==
  ASSUME NEW cache \in [Images -> [Chunks -> Tags]],
         NEW newest \in Nat, NEW newer \in Nat, newest <= newer, FitsTags(cache, newest)
  PROVE  FitsTags(cache, newer)
<1> SUFFICES ASSUME NEW tag \in Images, NEW i \in Chunks, cache[tag][i] # 0
             PROVE  tag <= cache[tag][i] /\ cache[tag][i] <= newer
  BY DEF FitsTags
<1>1. cache[tag][i] \in Nat
  BY DEF Tags
<1>2. QED
  BY <1>1 DEF FitsTags

LEMMA NeverOlderStep ==
  ASSUME ServerTypeOK, ClientTyped, ServerOrder, ~AllowRollback, ClientOrder, NeverOlder,
         FoundFits, [Next]_vars
  PROVE  NeverOlder'
<1>1. /\ CacheTypeOK /\ ServerTypeOK' /\ ClientTyped'
      /\ ServerAction \/ UNCHANGED serverVars
  BY TypeStep, NextIsServerAction
<1>2. disk \in Nat /\ disk' \in Nat
  BY <1>1 DEF ServerTypeOK, Images
<1>3. disk <= disk'
  BY <1>1, <1>2, ServerOnlyAdvances DEF ServerOrder, serverVars
<1>4. /\ chunkCache \in [Images -> [Chunks -> Tags]] /\ idb \in [Images -> [Chunks -> Tags]]
      /\ chunkCache' \in [Images -> [Chunks -> Tags]] /\ idb' \in [Images -> [Chunks -> Tags]]
  BY <1>1 DEF ClientTyped, CachesTyped
<1>5. SUFFICES FitsTags(chunkCache', disk) /\ FitsTags(idb', disk)
  BY <1>2, <1>3, <1>4, FitsLaterDisk DEF NeverOlder, FitsTags
<1>6. ASSUME UNCHANGED <<chunkCache, idb>>
      PROVE  FitsTags(chunkCache', disk) /\ FitsTags(idb', disk)
  BY <1>6 DEF NeverOlder
<1>7. CASE IndexedDBAnswers
  <2>1. found[2] \in Tags
    BY DEF ClientTyped, ReadTyped
  <2>2. found[2] # 0 => FitsTags(Kept(chunkCache, at, found[2]), disk)
    BY <2>1, <1>4, FiledFits DEF FoundFits, NeverOlder, Kept
  <2>3. QED
    BY <1>7, <2>2 DEF IndexedDBAnswers, NeverOlder
<1>8. CASE ReceiveChunk
  <2> DEFINE i == Head(s2c).index
             image == Head(s2c).image
  <2>1. s2c # <<>> /\ Head(s2c).type = "chunk"
    BY <1>8 DEF ReceiveChunk, Receive
  <2>2. image \in Tags /\ s2c \in Seq(Frames)
    BY <2>1, HeadTyped DEF ClientTyped, WireTyped
  <2>3. fileVersion <= image /\ image <= disk
    BY <2>1, <2>2, WireTail DEF ClientOrder, WireOrdered
  <2>4. FitsTags(Filed(chunkCache, i, image), disk) /\ FitsTags(Filed(idb, i, image), disk)
    BY <2>2, <2>3, <1>4, FiledFits DEF Filed, NeverOlder
  <2>5. /\ chunkCache' = chunkCache \/ chunkCache' = Filed(chunkCache, i, image)
        /\ idb' = idb \/ idb' = Filed(idb, i, image)
    BY <1>8 DEF ReceiveChunk
  <2>6. QED
    BY <2>4, <2>5 DEF NeverOlder
<1>9. CASE ReloadPage
  BY <1>9 DEF ReloadPage, Empty, FitsTags, NeverOlder
<1>10. CASE \/ UNCHANGED vars \/ RewriteFile \/ ServeRequest \/ LookUp \/ AskIndexedDB
            \/ AllCached \/ FetchMissing \/ ReceiveSize \/ ReceiveDone \/ ReceiveError
            \/ KeepAlive \/ SizeTimesOut
            \/ FetchTimesOut \/ RetryFetch \/ Reconnect \/ RegisterAgain
  BY <1>10, <1>6 DEF vars, clientVars, cacheVars, RewriteFile, ServeRequest, LookUp,
     AskIndexedDB, AllCached,
     FetchMissing, ReceiveSize, ReceiveDone, ReceiveError, KeepAlive, SizeTimesOut,
     FetchTimesOut, RetryFetch, Reconnect, RegisterAgain
<1>11. ASSUME NEW t \in Tasks, OtherClientAsks(t) \/ ServerStep(t) \/ SendReply(t)
       PROVE  FitsTags(chunkCache', disk) /\ FitsTags(idb', disk)
  BY <1>11, <1>6 DEF OtherClientAsks, ServerStep, SendReply, clientVars, cacheVars
<1>12. ASSUME NEW range \in Ranges, BeginRead(range)
       PROVE  FitsTags(chunkCache', disk) /\ FitsTags(idb', disk)
  BY <1>12, <1>6 DEF BeginRead, cacheVars
<1>13. ASSUME NEW b \in Chunks \X Chunks, SendBatch(b)
       PROVE  FitsTags(chunkCache', disk) /\ FitsTags(idb', disk)
  BY <1>13, <1>6 DEF SendBatch, cacheVars
<1>14. QED
  BY <1>7, <1>8, <1>9, <1>10, <1>11, <1>12, <1>13 DEF Next

LEMMA FoundFitsStep ==
  ASSUME ServerTypeOK, ClientTyped, ServerOrder, ~AllowRollback, NeverOlder, FoundFits,
         [Next]_vars
  PROVE  FoundFits'
<1>1. /\ CacheTypeOK /\ ServerTypeOK' /\ ClientTyped'
      /\ ServerAction \/ UNCHANGED serverVars
  BY TypeStep, NextIsServerAction
<1>2. disk \in Nat /\ disk' \in Nat
  BY <1>1 DEF ServerTypeOK, Images
<1>3. disk <= disk'
  BY <1>1, <1>2, ServerOnlyAdvances DEF ServerOrder, serverVars
<1>4. found \in Tags \X Tags /\ found[2] \in Nat
  BY DEF ClientTyped, ReadTyped, Tags
<1>5. ASSUME found' = found \/ found' = NotFound
      PROVE  FoundFits'
  BY <1>2, <1>3, <1>4, <1>5 DEF FoundFits, NotFound
<1>6. CASE AskIndexedDB
  <2>1. at \in Chunks /\ disk' = disk
    BY <1>6, RangesTyped DEF AskIndexedDB, ClientTyped, ReadTyped, serverVars
  <2>2. Under(idb, at) # 0 => fileVersion <= Under(idb, at) /\ Under(idb, at) <= disk
    BY <2>1 DEF Under, NeverOlder, FitsTags
  <2>3. found' = <<fileVersion, Under(idb, at)>> \/ found' = NotFound
    BY <1>6 DEF AskIndexedDB
  <2>4. CASE found' = <<fileVersion, Under(idb, at)>>
    BY <2>1, <2>2, <2>4 DEF FoundFits
  <2>5. QED
    BY <2>3, <2>4, <1>5
<1>7. CASE \/ UNCHANGED vars \/ RewriteFile \/ ServeRequest \/ LookUp \/ IndexedDBAnswers
           \/ AllCached \/ FetchMissing \/ ReceiveSize \/ ReceiveChunk \/ ReceiveDone
           \/ ReceiveError \/ KeepAlive
  BY <1>7, <1>5 DEF vars, clientVars, readVars, RewriteFile, ServeRequest, LookUp,
     IndexedDBAnswers, AllCached, EndRead, FetchMissing, ReceiveSize, ReceiveChunk, ReceiveDone,
     ReceiveError, KeepAlive
<1>8. CASE SizeTimesOut \/ FetchTimesOut \/ RetryFetch \/ Reconnect \/ ReloadPage \/ RegisterAgain
  BY <1>8, <1>5 DEF SizeTimesOut, FetchTimesOut, RetryFetch, EndRead, readVars,
     Reconnect, ReloadPage,
     RegisterAgain
<1>9. ASSUME NEW t \in Tasks, OtherClientAsks(t) \/ ServerStep(t) \/ SendReply(t)
      PROVE  FoundFits'
  BY <1>9, <1>5 DEF OtherClientAsks, ServerStep, SendReply, clientVars, readVars
<1>10. ASSUME NEW range \in Ranges, BeginRead(range)
       PROVE  FoundFits'
  BY <1>10, <1>5 DEF BeginRead
<1>11. ASSUME NEW b \in Chunks \X Chunks, SendBatch(b)
       PROVE  FoundFits'
  BY <1>11, <1>5 DEF SendBatch
<1>12. QED
  BY <1>6, <1>7, <1>8, <1>9, <1>10, <1>11 DEF Next

-----------------------------------------------------------------------------
(* What the client is still going to hear on its connection: the frames    *)
(* that travel and those its task has prepared.                            *)

Stream == s2c \o reply[conn]

Begins(p, s) == Len(p) <= Len(s) /\ \A j \in 1 .. Len(p) : p[j] = s[j]

LEMMA StreamTyped ==
  ASSUME ServerTypeOK, ClientTyped
  PROVE  /\ Stream \in Seq(Frames) /\ s2c \in Seq(Frames) /\ reply[conn] \in Seq(Frames)
         /\ Begins(s2c, Stream) /\ Begins(Stream, Stream) /\ Begins(<<>>, Stream)
<1>1. s2c \in Seq(Frames) /\ reply[conn] \in Seq(Frames)
  BY DEF ServerTypeOK, ClientTyped, WireTyped
<1>2. QED
  BY <1>1 DEF Stream, Begins

\* A step of the client's task: its reply grows, gives way to an error or stays.
LEMMA TaskSpeaks ==
  ASSUME ServerTypeOK, ClientTyped, ServerAction, ~Finish(conn), ~Replaced(conn),
         UNCHANGED <<conn, s2c>>
  PROVE  \/ Stream' = Stream
         \/ Stream' = Append(s2c, ErrorFrame)
         \/ \E frame \in Frames : Emits(conn, frame) /\ Stream' = Append(Stream, frame)
<1>1. conn \in Tasks /\ s2c \in Seq(Frames) /\ reply[conn] \in Seq(Frames)
  BY DEF ServerTypeOK, ClientTyped, WireTyped
<1>2. Stream' = s2c \o reply'[conn]
  BY DEF Stream
<1>3. CASE reply'[conn] = reply[conn]
  BY <1>2, <1>3 DEF Stream
<1>4. CASE reply'[conn] = <<ErrorFrame>>
  <2>1. ErrorFrame \in Frames
    BY FramesAreFrames
  <2>2. s2c \o <<ErrorFrame>> = Append(s2c, ErrorFrame)
    BY <1>1, <2>1
  <2>3. QED
    BY <1>2, <1>4, <2>2
<1>5. ASSUME NEW frame \in Frames, Emits(conn, frame)
      PROVE  Stream' = Append(Stream, frame)
  <2>1. reply'[conn] = Append(reply[conn], frame)
    BY <1>5 DEF Emits
  <2>2. s2c \o Append(reply[conn], frame) = Append(s2c \o reply[conn], frame)
    BY <1>1
  <2>3. QED
    BY <1>2, <2>1, <2>2 DEF Stream
<1>6. QED
  BY <1>1, <1>3, <1>4, <1>5, ReplyStep

LEMMA StreamStep ==
  ASSUME ServerTypeOK, ClientTyped, ServerOrder, Next
  PROVE  \/ Begins(Stream', Stream) /\ ~ReceiveAny
         \/ Stream' = Append(s2c, ErrorFrame) /\ UNCHANGED clientVars
         \/ \E frame \in Frames :
               Emits(conn, frame) /\ Stream' = Append(Stream, frame) /\ UNCHANGED clientVars
         \/ ReceiveAny /\ s2c # <<>> /\ Head(Stream) = Head(s2c) /\ Stream' = Tail(Stream)
<1>1. /\ conn \in Tasks /\ s2c \in Seq(Frames) /\ reply[conn] \in Seq(Frames)
      /\ Begins(Stream, Stream) /\ Begins(<<>>, Stream)
  BY StreamTyped DEF ClientTyped, WireTyped
<1>2. CASE ReceiveAny
  <2>1. s2c # <<>> /\ s2c' = Tail(s2c) /\ reply' = reply /\ conn' = conn
    BY <1>2 DEF ReceiveAny, ReceiveSize, ReceiveChunk, ReceiveDone, ReceiveError, Receive,
                serverVars
  <2>2. Head(s2c \o reply[conn]) = Head(s2c)
        /\ Tail(s2c \o reply[conn]) = Tail(s2c) \o reply[conn]
    BY <1>1, <2>1
  <2>3. QED
    BY <1>2, <2>1, <2>2 DEF Stream
<1> SUFFICES ASSUME ~ReceiveAny
             PROVE  \/ Begins(Stream', Stream)
                    \/ Stream' = Append(s2c, ErrorFrame) /\ UNCHANGED clientVars
                    \/ \E frame \in Frames : /\ Emits(conn, frame)
                                             /\ Stream' = Append(Stream, frame)
                                             /\ UNCHANGED clientVars
  BY <1>2
<1>3. ASSUME UNCHANGED <<conn, s2c, reply>>
      PROVE  Begins(Stream', Stream)
  BY <1>1, <1>3 DEF Stream
<1>4. CASE RewriteFile \/ ServeRequest \/ LookUp \/ AskIndexedDB \/ IndexedDBAnswers \/ AllCached
           \/ FetchMissing \/ KeepAlive \/ SizeTimesOut \/ FetchTimesOut \/ RetryFetch
           \/ RegisterAgain
  BY <1>3, <1>4 DEF RewriteFile, Rewrite, ServeRequest, Arrive, LookUp, AskIndexedDB,
     IndexedDBAnswers, AllCached, FetchMissing, KeepAlive, SizeTimesOut, FetchTimesOut,
     RetryFetch,
     RegisterAgain, serverVars, clientVars
<1>5. ASSUME NEW t \in Tasks, OtherClientAsks(t)
      PROVE  Begins(Stream', Stream)
  BY <1>3, <1>5 DEF OtherClientAsks, Arrive
<1>6. ASSUME NEW range \in Ranges, BeginRead(range)
      PROVE  Begins(Stream', Stream)
  BY <1>3, <1>6 DEF BeginRead, serverVars
<1>7. ASSUME NEW b \in Chunks \X Chunks, SendBatch(b)
      PROVE  Begins(Stream', Stream)
  BY <1>3, <1>7 DEF SendBatch, serverVars
<1>8. ASSUME NEW t \in Tasks, ServerStep(t)
      PROVE  \/ Begins(Stream', Stream)
             \/ Stream' = Append(s2c, ErrorFrame) /\ UNCHANGED clientVars
             \/ \E frame \in Frames : /\ Emits(conn, frame)
                                      /\ Stream' = Append(Stream, frame)
                                      /\ UNCHANGED clientVars
  <2>1. ServerAction /\ UNCHANGED clientVars /\ UNCHANGED <<conn, s2c>>
    BY <1>8 DEF ServerStep, ServerAction, clientVars
  <2>2. pc'[conn] # "idle" \/ pc[conn] \notin {"done", "panicked"}
    BY <1>1, <1>8 DEF ServerStep, Step, Works, Fails, CheckStale, CheckFails, LosesRace,
       AfterLostRace, BeginBuild, EndBuild, BuildFails, ServeSize, ServeChunk, ServesChunk,
       ChunkPanics, ChunkUnreadable, ServeDone, Replaced, Ends, ServerTypeOK
  <2>3. ~Finish(conn) /\ ~Replaced(conn)
    BY <1>1, <2>2 DEF Finish, Replaced, Ends, ServerTypeOK
  <2>4. QED
    BY <1>1, <2>1, <2>3, TaskSpeaks
<1>9. ASSUME NEW t \in Tasks, SendReply(t)
      PROVE  Begins(Stream', Stream)
  <2>1. CASE t = conn
    <3>1. s2c' = s2c \o reply[conn] /\ reply'[conn] = <<>> /\ conn' = conn
      BY <1>1, <1>9, <2>1 DEF SendReply, Delivered, Finish, Ends, ServerTypeOK
    <3>2. Stream' = (s2c \o reply[conn]) \o <<>>
      BY <3>1 DEF Stream
    <3>3. Stream' = Stream
      BY <1>1, <3>2 DEF Stream
    <3>4. QED
      BY <1>1, <3>3
  <2>2. CASE t # conn
    <3>1. s2c' = s2c /\ reply'[conn] = reply[conn] /\ conn' = conn
      BY <1>1, <1>9, <2>2 DEF SendReply, Delivered, Finish, Ends, ServerTypeOK
    <3>2. QED
      BY <1>1, <3>1 DEF Stream
  <2>3. QED
    BY <2>1, <2>2
<1>10. CASE Reconnect \/ ReloadPage
  <2>1. s2c' = <<>> /\ conn' \in Tasks /\ pc[conn'] = "idle" /\ reply' = reply
    BY <1>10 DEF Reconnect, ReloadPage, serverVars
  <2>2. reply'[conn'] = <<>>
    BY <2>1 DEF ServerOrder, RepliesFit, ReplyFits
  <2>3. Stream' = <<>> \o <<>>
    BY <2>1, <2>2 DEF Stream
  <2>4. QED
    BY <1>1, <2>3
<1>11. QED
  BY <1>4, <1>5, <1>6, <1>7, <1>8, <1>9, <1>10 DEF Next, ReceiveAny

-----------------------------------------------------------------------------
(* Bytes arrive in the order in which the file had them.                   *)

CacheWithin(cache, newest) == \A tag \in Images, i \in Chunks : cache[tag][i] <= newest

\* The chunks of s, oldest first, follow all that is cached.
BytesOrdered(s, cache, newest) ==
  /\ CacheWithin(cache, newest)
  /\ \A j \in 1 .. Len(s) :
        s[j].type = "chunk" => CacheWithin(cache, s[j].image) /\ s[j].image <= newest
  /\ \A j, k \in 1 .. Len(s) :
        j < k /\ s[j].type = "chunk" /\ s[k].type = "chunk" => s[j].image <= s[k].image

LEMMA CacheWithinLater ==
  ASSUME NEW cache \in [Images -> [Chunks -> Tags]],
         NEW newest \in Nat, NEW newer \in Nat, newest <= newer, CacheWithin(cache, newest)
  PROVE  CacheWithin(cache, newer)
<1> SUFFICES ASSUME NEW tag \in Images, NEW i \in Chunks
             PROVE  cache[tag][i] <= newer
  BY DEF CacheWithin
<1>1. cache[tag][i] \in Nat /\ cache[tag][i] <= newest
  BY DEF Tags, CacheWithin
<1>2. QED
  BY <1>1

LEMMA BytesPrefix ==
  ASSUME NEW s \in Seq(Frames), NEW p \in Seq(Frames), Begins(p, s),
         NEW cache \in [Images -> [Chunks -> Tags]],
         NEW newest \in Nat, NEW newer \in Nat, newest <= newer, BytesOrdered(s, cache, newest)
  PROVE  BytesOrdered(p, cache, newer)
<1>1. \A j \in 1 .. Len(p) : j \in 1 .. Len(s) /\ p[j] = s[j] /\ s[j].image \in Nat
  BY FrameTyped DEF Begins
<1>2. CacheWithin(cache, newer)
  BY CacheWithinLater DEF BytesOrdered
<1>3. ASSUME NEW j \in 1 .. Len(p), p[j].type = "chunk"
      PROVE  CacheWithin(cache, p[j].image) /\ p[j].image <= newer
  <2>1. CacheWithin(cache, s[j].image) /\ s[j].image <= newest /\ s[j].image \in Nat
    BY <1>1, <1>3 DEF BytesOrdered
  <2>2. QED
    BY <1>1, <2>1
<1>4. ASSUME NEW j \in 1 .. Len(p), NEW k \in 1 .. Len(p), j < k,
             p[j].type = "chunk", p[k].type = "chunk"
      PROVE  p[j].image <= p[k].image
  BY <1>1, <1>4 DEF BytesOrdered
<1>5. QED
  BY <1>2, <1>3, <1>4 DEF BytesOrdered

LEMMA BytesAppend ==
  ASSUME NEW s \in Seq(Frames), NEW frame \in Frames, NEW cache, NEW newest \in Nat,
         BytesOrdered(s, cache, newest), frame.type = "chunk" => frame.image = newest
  PROVE  BytesOrdered(Append(s, frame), cache, newest)
<1> DEFINE r == Append(s, frame)
<1>1. /\ Len(r) = Len(s) + 1 /\ r[Len(s) + 1] = frame /\ Len(s) \in Nat
      /\ \A j \in 1 .. Len(s) : r[j] = s[j]
  OBVIOUS
<1>2. \A j \in 1 .. Len(r) : j \in 1 .. Len(s) \/ j = Len(s) + 1
  BY <1>1
<1>3. ASSUME NEW j \in 1 .. Len(r), r[j].type = "chunk"
      PROVE  CacheWithin(cache, r[j].image) /\ r[j].image <= newest
  BY <1>1, <1>2, <1>3 DEF BytesOrdered
<1>4. ASSUME NEW j \in 1 .. Len(r), NEW k \in 1 .. Len(r), j < k,
             r[j].type = "chunk", r[k].type = "chunk"
      PROVE  r[j].image <= r[k].image
  <2>1. j \in 1 .. Len(s)
    BY <1>1, <1>2, <1>4
  <2>2. CASE k \in 1 .. Len(s)
    BY <1>1, <1>4, <2>1, <2>2 DEF BytesOrdered
  <2>3. CASE k = Len(s) + 1
    BY <1>1, <1>3, <1>4, <2>1, <2>3
  <2>4. QED
    BY <1>2, <2>2, <2>3
<1>5. QED
  BY <1>3, <1>4 DEF BytesOrdered

\* Hearing a frame, and filing it if it is a chunk.
LEMMA BytesTail ==
  ASSUME NEW s \in Seq(Frames), s # <<>>, NEW newest \in Nat,
         NEW cache \in [Images -> [Chunks -> Tags]], BytesOrdered(s, cache, newest),
         NEW later \in [Images -> [Chunks -> Tags]], NEW v, NEW i,
         \/ later = cache
         \/ Head(s).type = "chunk" /\ later = [cache EXCEPT ![v][i] = Head(s).image]
  PROVE  BytesOrdered(Tail(s), later, newest)
<1>1. /\ Len(s) \in Nat \ {0} /\ Len(Tail(s)) = Len(s) - 1
      /\ Head(s) = s[1] /\ 1 \in 1 .. Len(s)
      /\ \A j \in 1 .. Len(s) - 1 : Tail(s)[j] = s[j + 1] /\ j + 1 \in 1 .. Len(s) /\ 1 < j + 1
  OBVIOUS
<1>2. \A tag \in Images, k \in Chunks :
         \/ later[tag][k] = cache[tag][k]
         \/ Head(s).type = "chunk" /\ later[tag][k] = Head(s).image
  <2> SUFFICES ASSUME NEW tag \in Images, NEW k \in Chunks, later # cache
               PROVE  \/ later[tag][k] = cache[tag][k]
                      \/ Head(s).type = "chunk" /\ later[tag][k] = Head(s).image
    OBVIOUS
  <2>1. Head(s).type = "chunk" /\ later = [cache EXCEPT ![v][i] = Head(s).image]
    OBVIOUS
  <2>2. later[tag][k] = IF tag = v /\ k = i THEN Head(s).image ELSE cache[tag][k]
    BY <2>1
  <2>3. QED
    BY <2>1, <2>2
<1>3. CacheWithin(later, newest)
  BY <1>1, <1>2 DEF BytesOrdered, CacheWithin
<1>4. ASSUME NEW j \in 1 .. Len(s) - 1, Tail(s)[j].type = "chunk"
      PROVE  CacheWithin(later, Tail(s)[j].image) /\ Tail(s)[j].image <= newest
  <2>1. CacheWithin(cache, s[j + 1].image) /\ s[j + 1].image <= newest
    BY <1>1, <1>4 DEF BytesOrdered
  <2>2. s[1].type = "chunk" => s[1].image <= s[j + 1].image
    BY <1>1, <1>4 DEF BytesOrdered
  <2>3. CacheWithin(later, s[j + 1].image)
    BY <1>1, <1>2, <2>1, <2>2 DEF CacheWithin
  <2>4. QED
    BY <1>1, <2>1, <2>3
<1>5. ASSUME NEW j \in 1 .. Len(s) - 1, NEW k \in 1 .. Len(s) - 1, j < k,
             Tail(s)[j].type = "chunk", Tail(s)[k].type = "chunk"
      PROVE  Tail(s)[j].image <= Tail(s)[k].image
  <2>1. j + 1 < k + 1
    BY <1>5
  <2>2. QED
    BY <1>1, <1>5, <2>1 DEF BytesOrdered
<1>6. QED
  BY <1>1, <1>3, <1>4, <1>5 DEF BytesOrdered

\* No byte in IndexedDB is newer than what the client is still going to hear.
BytesInOrder == BytesOrdered(Stream, idb, Freshest(conn))

\* What the client can be sent only gets newer, on a new connection too.
LEMMA FreshestKept ==
  ASSUME ServerTypeOK, ServerTypeOK', ClientTyped, ServerOrder, ~AllowRollback, Next
  PROVE  /\ Freshest(conn) \in Nat /\ Freshest(conn)' \in Nat
         /\ Freshest(conn) <= Freshest(conn)'
<1>1. conn \in Tasks /\ conn' \in Tasks
  BY WireStep DEF ClientTyped, WireTyped
<1>2. \A t \in Tasks : Freshest(t) \in Nat /\ Freshest(t)' \in Nat
  BY ConstantsTyped, AssetFields DEF ServerTypeOK, Freshest, Source
<1>3. CASE conn' = conn
  <2>1. ServerAction \/ UNCHANGED serverVars
    BY NextIsServerAction DEF CacheTypeOK, ClientTyped, WireTyped, CachesTyped,
       ReadTyped, AskTyped
  <2>2. CASE ServerAction
    <3>1. Freshest(conn) <= Freshest(conn)'
      BY <1>1, <1>3, <2>2, FreshestAdvances DEF ServerOrder, Freshest, Source
    <3>2. QED
      BY <1>1, <1>2, <1>3, <3>1
  <2>3. CASE UNCHANGED serverVars
    BY <1>1, <1>2, <1>3, <2>3 DEF serverVars, Freshest, Source
  <2>4. QED
    BY <2>1, <2>2, <2>3
<1>4. CASE conn' # conn
  <2>1. UNCHANGED serverVars /\ pc[conn'] = "idle"
    BY <1>4 DEF Next, RewriteFile, ServeRequest, OtherClientAsks, ServerStep, SendReply,
       BeginRead,
       LookUp, AskIndexedDB, IndexedDBAnswers, AllCached, FetchMissing, SendBatch, ReceiveSize,
       ReceiveChunk, ReceiveDone, ReceiveError, Receive, KeepAlive, SizeTimesOut,
       FetchTimesOut, RetryFetch,
       Reconnect, ReloadPage, RegisterAgain, clientVars
  <2>2. Freshest(conn') = Source(entry) /\ Freshest(conn)' = Freshest(conn')
    BY <2>1 DEF serverVars, Freshest, Source
  <2>3. Source(asset[conn]) <= Source(entry)
    BY <1>1, Numbers DEF Source, ServerOrder, AssetsOrdered, AssetOrdered
  <2>4. Freshest(conn) <= Freshest(conn')
    BY <1>1, <1>2, <2>2, <2>3 DEF Freshest
  <2>5. QED
    BY <1>1, <1>2, <2>2, <2>4
<1>5. QED
  BY <1>3, <1>4

\* Only chunk frames reach IndexedDB.
LEMMA OnlyChunksFiled ==
  ASSUME Next, ~ReceiveChunk
  PROVE  idb' = idb
BY DEF Next, RewriteFile, ServeRequest, OtherClientAsks, ServerStep, SendReply,
   BeginRead, LookUp,
   AskIndexedDB, IndexedDBAnswers, AllCached, FetchMissing, SendBatch, ReceiveSize, ReceiveDone,
   ReceiveError, KeepAlive, SizeTimesOut, FetchTimesOut, RetryFetch, Reconnect,
   ReloadPage, RegisterAgain,
   clientVars, cacheVars

LEMMA BytesInOrderStep ==
  ASSUME ServerTypeOK, ClientTyped, ServerOrder, ~AllowRollback, BytesInOrder, [Next]_vars
  PROVE  BytesInOrder'
<1>1. ServerTypeOK' /\ ClientTyped'
  BY TypeStep
<1>2. CASE UNCHANGED vars
  BY <1>2 DEF vars, clientVars, cacheVars, serverVars, BytesInOrder, BytesOrdered, CacheWithin,
              Stream, Freshest, Source
<1> SUFFICES ASSUME Next
             PROVE  BytesInOrder'
  BY <1>2
<1>3. /\ Freshest(conn) \in Nat /\ Freshest(conn)' \in Nat
      /\ Freshest(conn) <= Freshest(conn)'
  BY <1>1, FreshestKept
<1>4. /\ Stream \in Seq(Frames) /\ Stream' \in Seq(Frames)
      /\ s2c \in Seq(Frames) /\ Begins(s2c, Stream)
  <2>1. s2c' \in Seq(Frames) /\ reply'[conn'] \in Seq(Frames)
    BY <1>1 DEF ServerTypeOK, ClientTyped, WireTyped
  <2>2. Stream' \in Seq(Frames)
    BY <2>1 DEF Stream
  <2>3. QED
    BY <2>2, StreamTyped
<1>5. idb \in [Images -> [Chunks -> Tags]] /\ idb' \in [Images -> [Chunks -> Tags]]
  BY <1>1 DEF ClientTyped, CachesTyped
<1>6. SUFFICES BytesOrdered(Stream', idb', Freshest(conn))
  <2>1. Begins(Stream', Stream')
    BY <1>4 DEF Begins
  <2>2. BytesOrdered(Stream', idb', Freshest(conn)')
    BY <1>3, <1>4, <1>5, <1>6, <2>1, BytesPrefix
  <2>3. QED
    BY <2>2 DEF BytesInOrder, BytesOrdered, CacheWithin
<1>7. BytesOrdered(Stream, idb, Freshest(conn))
  BY DEF BytesInOrder
<1>8. CASE Begins(Stream', Stream) /\ ~ReceiveAny
  <2>1. idb' = idb
    BY <1>8, OnlyChunksFiled DEF ReceiveAny
  <2>2. QED
    BY <1>3, <1>4, <1>5, <1>7, <1>8, <2>1, BytesPrefix
<1>9. CASE Stream' = Append(s2c, ErrorFrame) /\ UNCHANGED clientVars
  <2>1. BytesOrdered(s2c, idb, Freshest(conn))
    BY <1>3, <1>4, <1>5, <1>7, BytesPrefix
  <2>2. ErrorFrame \in Frames /\ ErrorFrame.type = "error"
    BY FramesAreFrames DEF ErrorFrame
  <2>3. BytesOrdered(Append(s2c, ErrorFrame), idb, Freshest(conn))
    BY <1>3, <1>4, <2>1, <2>2, BytesAppend
  <2>4. QED
    BY <1>9, <2>3 DEF clientVars, cacheVars
<1>10. ASSUME NEW frame \in Frames,
              Emits(conn, frame), Stream' = Append(Stream, frame), UNCHANGED clientVars
       PROVE  BytesOrdered(Stream', idb', Freshest(conn))
  <2>1. frame.type = "chunk" => frame.image = Freshest(conn)
    BY <1>10 DEF Emits, SizeFrame, ChunkFrame, DoneFrame, Freshest
  <2>2. BytesOrdered(Append(Stream, frame), idb, Freshest(conn))
    BY <1>3, <1>4, <1>7, <2>1, BytesAppend
  <2>3. QED
    BY <1>10, <2>2 DEF clientVars, cacheVars
<1>11. CASE ReceiveAny /\ s2c # <<>> /\ Head(Stream) = Head(s2c) /\ Stream' = Tail(Stream)
  <2> DEFINE frame == Head(s2c)
  <2>1. \/ idb' = idb
        \/ frame.type = "chunk" /\ idb' = [idb EXCEPT ![fileVersion][frame.index] = frame.image]
    BY <1>11 DEF ReceiveAny, ReceiveSize, ReceiveChunk, ReceiveDone, ReceiveError,
       Receive, Filed,
                 cacheVars
  <2>2. Stream # <<>>
    BY <1>4, <1>11 DEF Begins
  <2>3. QED
    BY <1>3, <1>4, <1>5, <1>7, <1>11, <2>1, <2>2, BytesTail
<1>12. QED
  BY <1>8, <1>9, <1>10, <1>11, StreamStep

\* What a chunk replaces in IndexedDB is no newer than the chunk.
LEMMA FiledForward ==
  ASSUME ServerTypeOK, ClientTyped, BytesInOrder, ReceiveChunk
  PROVE  \A tag \in Images, i \in Chunks : idb'[tag][i] >= idb[tag][i]
<1> DEFINE frame == Head(s2c)
<1>1. /\ Stream \in Seq(Frames) /\ s2c \in Seq(Frames) /\ Begins(s2c, Stream)
  BY StreamTyped
<1>2. s2c # <<>> /\ frame.type = "chunk"
  BY DEF ReceiveChunk, Receive
<1>3. 1 \in 1 .. Len(Stream) /\ Stream[1] = frame
  BY <1>1, <1>2 DEF Begins
<1>4. CacheWithin(idb, frame.image)
  BY <1>2, <1>3 DEF BytesInOrder, BytesOrdered
<1>5. idb' = idb \/ idb' = [idb EXCEPT ![fileVersion][frame.index] = frame.image]
  BY DEF ReceiveChunk, Filed
<1>6. idb \in [Images -> [Chunks -> Tags]]
  BY DEF ClientTyped, CachesTyped
<1>7. SUFFICES ASSUME NEW tag \in Images, NEW i \in Chunks
               PROVE  idb'[tag][i] >= idb[tag][i]
  OBVIOUS
<1>8. idb[tag][i] \in Nat /\ idb[tag][i] <= frame.image
  BY <1>4, <1>6 DEF Tags, CacheWithin
<1>9. idb'[tag][i] = idb[tag][i] \/ idb'[tag][i] = frame.image
  BY <1>5, <1>6
<1>10. frame.image \in Nat
  BY <1>2, HeadTyped DEF ClientTyped, Tags
<1>11. QED
  BY <1>8, <1>9, <1>10

-----------------------------------------------------------------------------
(* Versions arrive in order too, so that a read only ever sees its file's  *)
(* version go up.                                                          *)

SizesFrom(s, version) ==
  /\ \A j \in 1 .. Len(s) : s[j].type = "size" => version <= s[j].image
  /\ \A j, k \in 1 .. Len(s) :
        j < k /\ s[j].type = "size" /\ s[k].type = "size" => s[j].image <= s[k].image

LEMMA SizesPrefix ==
  ASSUME NEW s \in Seq(Frames), NEW p \in Seq(Frames), Begins(p, s),
         NEW version \in Nat, NEW older \in Nat, older <= version, SizesFrom(s, version)
  PROVE  SizesFrom(p, older)
<1>1. \A j \in 1 .. Len(p) : j \in 1 .. Len(s) /\ p[j] = s[j] /\ s[j].image \in Nat
  BY FrameTyped DEF Begins
<1>2. ASSUME NEW j \in 1 .. Len(p), p[j].type = "size"
      PROVE  older <= p[j].image
  <2>1. version <= s[j].image /\ s[j].image \in Nat
    BY <1>1, <1>2 DEF SizesFrom
  <2>2. QED
    BY <1>1, <2>1
<1>3. ASSUME NEW j \in 1 .. Len(p), NEW k \in 1 .. Len(p), j < k,
             p[j].type = "size", p[k].type = "size"
      PROVE  p[j].image <= p[k].image
  BY <1>1, <1>3 DEF SizesFrom
<1>4. QED
  BY <1>2, <1>3 DEF SizesFrom

LEMMA SizesAppend ==
  ASSUME NEW s \in Seq(Frames), NEW frame \in Frames, NEW version, SizesFrom(s, version),
         frame.type = "size" => version <= frame.image /\ NoSizeAbove(s, frame.image)
  PROVE  SizesFrom(Append(s, frame), version)
<1> DEFINE r == Append(s, frame)
<1>1. /\ Len(r) = Len(s) + 1 /\ r[Len(s) + 1] = frame /\ Len(s) \in Nat
      /\ \A j \in 1 .. Len(s) : r[j] = s[j]
  OBVIOUS
<1>2. \A j \in 1 .. Len(r) : j \in 1 .. Len(s) \/ j = Len(s) + 1
  BY <1>1
<1>3. ASSUME NEW j \in 1 .. Len(r), r[j].type = "size"
      PROVE  version <= r[j].image
  BY <1>1, <1>2, <1>3 DEF SizesFrom
<1>4. ASSUME NEW j \in 1 .. Len(r), NEW k \in 1 .. Len(r), j < k,
             r[j].type = "size", r[k].type = "size"
      PROVE  r[j].image <= r[k].image
  <2>1. j \in 1 .. Len(s)
    BY <1>1, <1>2, <1>4
  <2>2. CASE k \in 1 .. Len(s)
    BY <1>1, <1>4, <2>1, <2>2 DEF SizesFrom
  <2>3. CASE k = Len(s) + 1
    BY <1>1, <1>4, <2>1, <2>3 DEF NoSizeAbove
  <2>4. QED
    BY <1>2, <2>2, <2>3
<1>5. QED
  BY <1>3, <1>4 DEF SizesFrom

LEMMA SizesTail ==
  ASSUME NEW s \in Seq(Frames), s # <<>>, NEW version, SizesFrom(s, version)
  PROVE  /\ SizesFrom(Tail(s), version)
         /\ Head(s).type = "size" => /\ version <= Head(s).image
                                     /\ SizesFrom(Tail(s), Head(s).image)
<1>1. /\ Len(s) \in Nat \ {0} /\ Len(Tail(s)) = Len(s) - 1
      /\ Head(s) = s[1] /\ 1 \in 1 .. Len(s)
      /\ \A j \in 1 .. Len(s) - 1 : Tail(s)[j] = s[j + 1] /\ j + 1 \in 1 .. Len(s) /\ 1 < j + 1
  OBVIOUS
<1>2. ASSUME NEW j \in 1 .. Len(s) - 1, Tail(s)[j].type = "size"
      PROVE  /\ version <= Tail(s)[j].image
             /\ Head(s).type = "size" => Head(s).image <= Tail(s)[j].image
  BY <1>1, <1>2 DEF SizesFrom
<1>3. ASSUME NEW j \in 1 .. Len(s) - 1, NEW k \in 1 .. Len(s) - 1, j < k,
             Tail(s)[j].type = "size", Tail(s)[k].type = "size"
      PROVE  Tail(s)[j].image <= Tail(s)[k].image
  <2>1. j + 1 < k + 1
    BY <1>3
  <2>2. QED
    BY <1>1, <1>3, <2>1 DEF SizesFrom
<1>4. QED
  BY <1>1, <1>2, <1>3 DEF SizesFrom

\* A version the client has yet to hear is no newer than the one its task
\* answers from, and none is newer than the file.
LEMMA StreamBelow ==
  ASSUME ServerTypeOK, ClientTyped, ServerOrder, ClientOrder
  PROVE  /\ NoSizeAbove(Stream, disk)
         /\ pc[conn] # "idle" => NoSizeAbove(Stream, asset[conn].version)
<1>1. conn \in Tasks /\ s2c \in Seq(Frames) /\ reply[conn] \in Seq(Frames)
  BY DEF ServerTypeOK, ClientTyped, WireTyped
<1>2. /\ Len(Stream) = Len(s2c) + Len(reply[conn]) /\ Len(s2c) \in Nat /\ Len(reply[conn]) \in Nat
      /\ \A j \in 1 .. Len(s2c) : Stream[j] = s2c[j]
      /\ \A j \in 1 .. Len(Stream) : j \notin 1 .. Len(s2c) =>
            j - Len(s2c) \in 1 .. Len(reply[conn]) /\ Stream[j] = reply[conn][j - Len(s2c)]
  BY <1>1 DEF Stream
<1>3. /\ disk \in Nat /\ entry.version \in Nat /\ asset[conn].version \in Nat
      /\ entry.version <= disk /\ asset[conn].version <= disk
  BY <1>1, Numbers DEF ServerOrder, AssetsOrdered, AssetOrdered, EntryOrdered
<1>4. ASSUME NEW j \in 1 .. Len(Stream), Stream[j].type = "size"
      PROVE  Stream[j].image <= disk /\ (pc[conn] # "idle" => Stream[j].image <= asset[conn].version)
  <2>1. CASE j \in 1 .. Len(s2c)
    <3>1. s2c[j].image \in Nat /\ s2c[j].image <= entry.version
      BY <1>1, <1>2, <1>4, <2>1, FrameTyped DEF ClientOrder, WireOrdered, NoSizeAbove
    <3>2. pc[conn] # "idle" => s2c[j].image <= asset[conn].version
      BY <1>2, <1>4, <2>1 DEF ClientOrder, TaskAhead, NoSizeAbove
    <3>3. QED
      BY <1>2, <1>3, <2>1, <3>1, <3>2
  <2>2. CASE j \notin 1 .. Len(s2c)
    <3>1. Stream[j].image = asset[conn].version
      BY <1>1, <1>2, <1>4, <2>2 DEF ServerOrder, RepliesFit, ReplyFits, FrameFits
    <3>2. QED
      BY <1>3, <3>1
  <2>3. QED
    BY <2>1, <2>2
<1>5. QED
  BY <1>4 DEF NoSizeAbove

VersionsInOrder == SizesFrom(Stream, fileVersion)

LEMMA VersionsInOrderStep ==
  ASSUME ServerTypeOK, ClientTyped, ServerOrder, ~AllowRollback, ClientOrder, VersionsInOrder,
         [Next]_vars
  PROVE  VersionsInOrder' /\ (ReloadPage \/ RegisterAgain \/ fileVersion <= fileVersion')
<1>1. ServerTypeOK' /\ ClientTyped'
  BY TypeStep
<1>2. fileVersion \in Nat /\ fileVersion' \in Nat
  BY <1>1 DEF ClientTyped, CachesTyped, Tags
<1>3. CASE UNCHANGED vars
  BY <1>2, <1>3 DEF vars, clientVars, cacheVars, serverVars, VersionsInOrder, SizesFrom, Stream
<1> SUFFICES ASSUME Next
             PROVE  /\ SizesFrom(Stream', fileVersion')
                    /\ ReloadPage \/ RegisterAgain \/ fileVersion <= fileVersion'
  BY <1>3 DEF VersionsInOrder, SizesFrom
<1>4. /\ Stream \in Seq(Frames) /\ Stream' \in Seq(Frames)
      /\ s2c \in Seq(Frames) /\ Begins(s2c, Stream)
  <2>1. s2c' \in Seq(Frames) /\ reply'[conn'] \in Seq(Frames)
    BY <1>1 DEF ServerTypeOK, ClientTyped, WireTyped
  <2>2. Stream' \in Seq(Frames)
    BY <2>1 DEF Stream
  <2>3. QED
    BY <2>2, StreamTyped
<1>5. SizesFrom(Stream, fileVersion)
  BY DEF VersionsInOrder
<1>6. CASE Begins(Stream', Stream) /\ ~ReceiveAny
  <2>1. fileVersion' = fileVersion \/ (fileVersion' = 0 /\ (ReloadPage \/ RegisterAgain))
    BY <1>6 DEF ReceiveAny, Next, RewriteFile, ServeRequest, OtherClientAsks, ServerStep,
       SendReply,
       BeginRead, LookUp, AskIndexedDB, IndexedDBAnswers, AllCached, FetchMissing, SendBatch,
       KeepAlive, SizeTimesOut, FetchTimesOut, RetryFetch, Reconnect, ReloadPage,
       RegisterAgain, clientVars,
       cacheVars
  <2>2. fileVersion' <= fileVersion
    BY <1>2, <2>1
  <2>3. QED
    BY <1>2, <1>4, <1>5, <1>6, <2>1, <2>2, SizesPrefix
<1>7. CASE Stream' = Append(s2c, ErrorFrame) /\ UNCHANGED clientVars
  <2>1. SizesFrom(s2c, fileVersion)
    BY <1>2, <1>4, <1>5, SizesPrefix
  <2>2. ErrorFrame \in Frames /\ ErrorFrame.type = "error"
    BY FramesAreFrames DEF ErrorFrame
  <2>3. SizesFrom(Append(s2c, ErrorFrame), fileVersion)
    BY <1>4, <2>1, <2>2, SizesAppend
  <2>4. QED
    BY <1>2, <1>7, <2>3 DEF clientVars, cacheVars
<1>8. ASSUME NEW frame \in Frames,
             Emits(conn, frame), Stream' = Append(Stream, frame), UNCHANGED clientVars
      PROVE  SizesFrom(Stream', fileVersion') /\ fileVersion <= fileVersion'
  <2>1. frame.type = "size" => frame.image = asset[conn].version
    BY <1>8 DEF Emits, SizeFrame, ChunkFrame, DoneFrame
  <2>2. fileVersion <= asset[conn].version /\ NoSizeAbove(Stream, asset[conn].version)
    BY <1>8, StreamBelow DEF Emits, ClientOrder, TaskAhead
  <2>3. SizesFrom(Append(Stream, frame), fileVersion)
    BY <1>4, <1>5, <2>1, <2>2, SizesAppend
  <2>4. QED
    BY <1>2, <1>8, <2>3 DEF clientVars, cacheVars
<1>9. CASE ReceiveAny /\ s2c # <<>> /\ Head(Stream) = Head(s2c) /\ Stream' = Tail(Stream)
  <2>1. \/ fileVersion' = fileVersion
        \/ Head(Stream).type = "size" /\ fileVersion' = Head(Stream).image
    BY <1>9 DEF ReceiveAny, ReceiveSize, ReceiveChunk, ReceiveDone, ReceiveError, Receive,
                cacheVars
  <2>2. Stream # <<>>
    BY <1>4, <1>9 DEF Begins
  <2>3. QED
    BY <1>2, <1>4, <1>5, <1>9, <2>1, <2>2, SizesTail
<1>10. QED
  BY <1>6, <1>7, <1>8, <1>9, StreamStep

-----------------------------------------------------------------------------
(* A batch that is reported done has been answered in full, if the file is *)
(* still the one the client has heard of.                                  *)

ChunkBetween(s, p, k, i) ==
  \E j \in 1 .. Len(s) : p < j /\ j < k /\ s[j].type = "chunk" /\ s[j].index = i

\* The client knows the version current now (p = 0) or when it hears frame p.
Told(s, known, current, p) ==
  IF p = 0 THEN known = current
           ELSE p \in 1 .. Len(s) /\ s[p].type = "size" /\ s[p].image = current

DonesCovered(s, known, cache, current) ==
  \A k \in 1 .. Len(s), p \in Nat, i \in Chunks :
     /\ s[k].type = "chunks_done"
     /\ s[k].index <= i /\ i <= s[k].last /\ i < SizeOf[current]
     /\ p < k /\ Told(s, known, current, p)
     => \/ ChunkBetween(s, p, k, i)
        \/ p = 0 /\ cache[current][i] # 0

LEMMA CoveredPrefix ==
  ASSUME NEW s \in Seq(Frames), NEW r \in Seq(Frames), Begins(r, s),
         NEW known, NEW cache, NEW current, DonesCovered(s, known, cache, current),
         NEW knownLater, knownLater = known \/ knownLater # current,
         NEW later,
         knownLater = current =>
            \A i \in Chunks : cache[current][i] # 0 => later[current][i] # 0
  PROVE  DonesCovered(r, knownLater, later, current)
<1>1. Len(r) \in Nat /\ \A j \in 1 .. Len(r) : j \in 1 .. Len(s) /\ r[j] = s[j]
  BY DEF Begins
<1> SUFFICES ASSUME NEW k \in 1 .. Len(r), NEW p \in Nat, NEW i \in Chunks,
                    r[k].type = "chunks_done",
                    r[k].index <= i, i <= r[k].last, i < SizeOf[current],
                    p < k, Told(r, knownLater, current, p)
             PROVE  ChunkBetween(r, p, k, i) \/ (p = 0 /\ later[current][i] # 0)
  BY DEF DonesCovered
<1>2. Told(s, known, current, p)
  BY <1>1 DEF Told
<1>3. ChunkBetween(s, p, k, i) \/ (p = 0 /\ cache[current][i] # 0)
  BY <1>1, <1>2 DEF DonesCovered
<1>4. CASE ChunkBetween(s, p, k, i)
  <2>1. PICK j \in 1 .. Len(s) : p < j /\ j < k /\ s[j].type = "chunk" /\ s[j].index = i
    BY <1>4 DEF ChunkBetween
  <2>2. j \in 1 .. Len(r)
    BY <1>1, <2>1
  <2>3. QED
    BY <1>1, <2>1, <2>2 DEF ChunkBetween
<1>5. CASE p = 0 /\ cache[current][i] # 0
  BY <1>5 DEF Told
<1>6. QED
  BY <1>3, <1>4, <1>5

LEMMA CoveredAppend ==
  ASSUME NEW s \in Seq(Frames), NEW frame \in Frames,
         NEW known, NEW cache, NEW current, DonesCovered(s, known, cache, current),
         frame.type = "chunks_done" =>
            \A p \in Nat, i \in Chunks :
               /\ frame.index <= i /\ i <= frame.last /\ i < SizeOf[current]
               /\ p <= Len(s) /\ Told(s, known, current, p)
               => ChunkBetween(s, p, Len(s) + 1, i)
  PROVE  DonesCovered(Append(s, frame), known, cache, current)
<1> DEFINE r == Append(s, frame)
<1>1. /\ Len(r) = Len(s) + 1 /\ r[Len(s) + 1] = frame /\ Len(s) \in Nat
      /\ \A j \in 1 .. Len(s) : r[j] = s[j] /\ j \in 1 .. Len(r)
  OBVIOUS
<1> HIDE DEF r
<1> SUFFICES ASSUME NEW k \in 1 .. Len(r), NEW p \in Nat, NEW i \in Chunks,
                    r[k].type = "chunks_done",
                    r[k].index <= i, i <= r[k].last, i < SizeOf[current],
                    p < k, Told(r, known, current, p)
             PROVE  ChunkBetween(r, p, k, i) \/ (p = 0 /\ cache[current][i] # 0)
  BY DEF DonesCovered, r
<1>2. p <= Len(s) /\ Told(s, known, current, p)
  BY <1>1 DEF Told
<1>3. ChunkBetween(s, p, k, i) \/ (p = 0 /\ cache[current][i] # 0)
  <2>1. CASE k \in 1 .. Len(s)
    BY <1>1, <1>2, <2>1 DEF DonesCovered
  <2>2. CASE k = Len(s) + 1
    BY <1>1, <1>2, <2>2
  <2>3. QED
    BY <1>1, <2>1, <2>2
<1>4. ChunkBetween(s, p, k, i) => ChunkBetween(r, p, k, i)
  BY <1>1 DEF ChunkBetween
<1>5. QED
  BY <1>3, <1>4

\* Hearing a frame.
LEMMA CoveredTail ==
  ASSUME NEW s \in Seq(Frames), s # <<>>,
         NEW known, NEW cache, NEW current, DonesCovered(s, known, cache, current),
         NEW knownLater,
         \/ knownLater = known
         \/ Head(s).type = "size" /\ knownLater = Head(s).image,
         NEW later,
         knownLater = current =>
            /\ \A i \in Chunks : cache[current][i] # 0 => later[current][i] # 0
            /\ Head(s).type = "chunk" /\ Head(s).index \in Chunks =>
                  later[current][Head(s).index] # 0
  PROVE  DonesCovered(Tail(s), knownLater, later, current)
<1> DEFINE r == Tail(s)
<1>1. /\ Len(s) \in Nat \ {0} /\ Len(r) = Len(s) - 1
      /\ Head(s) = s[1] /\ 1 \in 1 .. Len(s)
      /\ \A j \in 1 .. Len(r) : r[j] = s[j + 1] /\ j + 1 \in 1 .. Len(s)
      /\ \A j \in 1 .. Len(s) : j # 1 => j - 1 \in 1 .. Len(r) /\ r[j - 1] = s[j]
  OBVIOUS
<1> HIDE DEF r
<1> SUFFICES ASSUME NEW k \in 1 .. Len(r), NEW p \in Nat, NEW i \in Chunks,
                    r[k].type = "chunks_done",
                    r[k].index <= i, i <= r[k].last, i < SizeOf[current],
                    p < k, Told(r, knownLater, current, p)
             PROVE  ChunkBetween(r, p, k, i) \/ (p = 0 /\ later[current][i] # 0)
  BY DEF DonesCovered, r
<1>2. /\ k + 1 \in 1 .. Len(s) /\ s[k + 1] = r[k] /\ k \in Nat
  BY <1>1
\* What is heard after frame p of the tail is heard after frame p + 1.
<1>3. ASSUME NEW q \in Nat, q = p + 1 \/ (p = 0 /\ q = 0), Told(s, known, current, q)
      PROVE  \/ ChunkBetween(r, p, k, i)
             \/ q = 0 /\ s[1].type = "chunk" /\ s[1].index = i
             \/ q = 0 /\ cache[current][i] # 0
  <2>1. ChunkBetween(s, q, k + 1, i) \/ (q = 0 /\ cache[current][i] # 0)
    BY <1>2, <1>3 DEF DonesCovered
  <2>2. CASE ChunkBetween(s, q, k + 1, i)
    <3>1. PICK j \in 1 .. Len(s) : q < j /\ j < k + 1 /\ s[j].type = "chunk" /\ s[j].index = i
      BY <2>2 DEF ChunkBetween
    <3>2. CASE j = 1
      BY <1>3, <3>1, <3>2
    <3>3. CASE j # 1
      <4>1. j - 1 \in 1 .. Len(r) /\ r[j - 1] = s[j] /\ p < j - 1 /\ j - 1 < k
        BY <1>1, <1>2, <1>3, <3>1, <3>3
      <4>2. QED
        BY <3>1, <4>1 DEF ChunkBetween
    <3>4. QED
      BY <3>2, <3>3
  <2>3. QED
    BY <2>1, <2>2
<1>4. CASE p # 0
  <2>1. Told(s, known, current, p + 1)
    BY <1>1, <1>4 DEF Told
  <2>2. QED
    BY <1>2, <1>3, <1>4, <2>1
<1>5. CASE p = 0
  <2>1. knownLater = current
    BY <1>5 DEF Told
  <2>2. CASE knownLater = known
    <3>1. Told(s, known, current, 0)
      BY <2>1, <2>2 DEF Told
    <3>2. QED
      BY <1>1, <1>2, <1>3, <1>5, <2>1, <3>1
  <2>3. CASE Head(s).type = "size" /\ knownLater = Head(s).image
    <3>1. Told(s, known, current, 1)
      BY <1>1, <2>1, <2>3 DEF Told
    <3>2. QED
      BY <1>2, <1>3, <1>5, <3>1
  <2>4. QED
    BY <2>2, <2>3
<1>6. QED
  BY <1>4, <1>5

\* Nobody has heard of the image that has just been written.
LEMMA CoveredWhenNew ==
  ASSUME NEW s \in Seq(Frames), NEW known \in Nat, NEW cache,
         NEW older \in Nat, NEW current \in Nat, older < current,
         known <= older, NoSizeAbove(s, older)
  PROVE  DonesCovered(s, known, cache, current)
<1>1. \A p \in Nat : ~Told(s, known, current, p)
  BY FrameTyped DEF Told, NoSizeAbove
<1>2. QED
  BY <1>1 DEF DonesCovered

\* Only the operator changes the file.
LEMMA DiskFixed ==
  ASSUME Next, ~RewriteFile
  PROVE  disk' = disk
BY DEF Next, ServeRequest, OtherClientAsks, Arrive, ServerStep, Step, Works, Fails,
   CheckStale, CheckFails, LosesRace, BeginBuild, EndBuild, BuildFails, ServeSize, ServeChunk,
   ChunkPanics, ChunkUnreadable, ServeDone, SendReply, Finish, Replaced, Ends, BeginRead,
   LookUp,
   AskIndexedDB, IndexedDBAnswers, AllCached, FetchMissing, SendBatch, ReceiveSize,
   ReceiveChunk, ReceiveDone, ReceiveError, Receive, KeepAlive, SizeTimesOut,
   FetchTimesOut, RetryFetch,
   Reconnect, ReloadPage, RegisterAgain, serverVars

\* A page load apart, what is cached stays cached, and what arrives under a
\* known version is.
LEMMA CacheKept ==
  ASSUME ServerTypeOK, ClientTyped, ClientOrder, Next, ~ReloadPage
  PROVE  /\ \A tag \in Images, i \in Chunks : chunkCache[tag][i] # 0 => chunkCache'[tag][i] # 0
         /\ ReceiveChunk /\ fileVersion # 0 /\ Head(s2c).index \in Chunks =>
               chunkCache'[fileVersion][Head(s2c).index] # 0
<1>1. chunkCache \in [Images -> [Chunks -> Tags]]
  BY DEF ClientTyped, CachesTyped
<1>2. CASE ReceiveChunk
  <2> DEFINE frame == Head(s2c)
  <2>1. s2c \in Seq(Frames) /\ s2c # <<>> /\ frame.type = "chunk"
    BY <1>2 DEF ReceiveChunk, Receive, ClientTyped, WireTyped
  <2>2. fileVersion <= frame.image
    BY <2>1, WireTail DEF ClientOrder, WireOrdered
  <2>3. fileVersion \in Tags /\ fileVersion \in Nat /\ frame.image \in Nat
    BY <2>1, HeadTyped DEF ClientTyped, CachesTyped, Tags
  <2>4. CASE fileVersion = 0
    BY <1>2, <2>4 DEF ReceiveChunk
  <2>5. CASE fileVersion # 0
    <3>1. fileVersion \in Images /\ frame.image # 0
      BY <2>2, <2>3, <2>5, ServerAssumption DEF Tags, Images, ServerAssumption
    <3>2. chunkCache' = [chunkCache EXCEPT ![fileVersion][frame.index] = frame.image]
      BY <1>2, <2>5 DEF ReceiveChunk, Filed
    <3>3. \A tag \in Images, i \in Chunks :
             chunkCache'[tag][i] = IF tag = fileVersion /\ i = frame.index THEN frame.image
                                                                           ELSE chunkCache[tag][i]
      BY <1>1, <3>2
    <3>4. QED
      BY <3>1, <3>3
  <2>6. QED
    BY <2>4, <2>5
<1>3. CASE IndexedDBAnswers
  <2>1. CASE found[2] = 0
    BY <1>3, <2>1 DEF IndexedDBAnswers, ReceiveChunk, Receive
  <2>2. CASE found[2] # 0
    <3>1. chunkCache' = [chunkCache EXCEPT ![found[1]][at] = found[2]]
      BY <1>3, <2>2 DEF IndexedDBAnswers, Kept
    <3>2. \A tag \in Images, i \in Chunks :
             chunkCache'[tag][i] = IF tag = found[1] /\ i = at THEN found[2]
                                                              ELSE chunkCache[tag][i]
      BY <1>1, <3>1
    <3>3. ~ReceiveChunk
      BY <1>3 DEF IndexedDBAnswers, Goto, ReceiveChunk, readVars
    <3>4. QED
      BY <2>2, <3>2, <3>3
  <2>3. QED
    BY <2>1, <2>2
<1>4. CASE ~ReceiveChunk /\ ~IndexedDBAnswers
  <2>1. chunkCache' = chunkCache
    BY <1>4 DEF Next, RewriteFile, ServeRequest, OtherClientAsks, ServerStep, SendReply,
       BeginRead,
       LookUp, AskIndexedDB, AllCached, FetchMissing, SendBatch, ReceiveSize, ReceiveDone,
       ReceiveError, KeepAlive, SizeTimesOut, FetchTimesOut, RetryFetch, Reconnect,
       RegisterAgain, clientVars,
       cacheVars
  <2>2. QED
    BY <1>4, <2>1
<1>5. QED
  BY <1>2, <1>3, <1>4

\* The end of a batch follows all its chunks.
LEMMA DoneEmitted ==
  ASSUME ServerTypeOK, ClientTyped, ServerOrder, RepliesComplete, ClientOrder,
         NEW frame \in Frames, Emits(conn, frame), frame.type = "chunks_done",
         NEW p \in Nat, NEW i \in Chunks,
         frame.index <= i, i <= frame.last, i < SizeOf[disk],
         p <= Len(Stream), Told(Stream, fileVersion, disk, p)
  PROVE  ChunkBetween(Stream, p, Len(Stream) + 1, i)
<1>1. conn \in Tasks /\ s2c \in Seq(Frames) /\ reply[conn] \in Seq(Frames) /\ pc[conn] = "serve"
  BY DEF ServerTypeOK, ClientTyped, WireTyped, Emits
<1>2. /\ Len(Stream) = Len(s2c) + Len(reply[conn]) /\ Len(s2c) \in Nat /\ Len(reply[conn]) \in Nat
      /\ \A j \in 1 .. Len(reply[conn]) :
            Len(s2c) + j \in 1 .. Len(Stream) /\ Stream[Len(s2c) + j] = reply[conn][j]
      /\ \A j \in 1 .. Len(Stream) : j > Len(s2c) => j - Len(s2c) \in 1 .. Len(reply[conn])
                                                     /\ Stream[j] = reply[conn][j - Len(s2c)]
  BY <1>1 DEF Stream
<1>3. frame.index = request[conn].first /\ frame.last = request[conn].last /\ ~MoreChunks(conn)
  BY DEF Emits, SizeFrame, ChunkFrame, DoneFrame
<1>4. /\ request[conn].first \in Nat /\ request[conn].last \in Nat /\ next[conn] \in Nat
      /\ i \in Nat /\ disk \in Nat /\ asset[conn].version \in Nat /\ fileVersion \in Nat
      /\ asset[conn].version <= disk
  <2>1. request[conn] \in ServerRequests /\ next[conn] \in Nat
    BY <1>1 DEF ServerTypeOK
  <2>2. request[conn].first \in Nat /\ request[conn].last \in Nat
    BY <2>1 DEF ServerRequests, SizeRequest
  <2>3. i \in Nat /\ fileVersion \in Nat
    BY CacheAssumption DEF CacheAssumption, ClientTyped, CachesTyped, Tags
  <2>4. disk \in Nat /\ asset[conn].version \in Nat /\ asset[conn].version <= disk
    BY <1>1, Numbers DEF ServerOrder, AssetsOrdered, AssetOrdered
  <2>5. QED
    BY <2>1, <2>2, <2>3, <2>4
\* The task answers from the version the client has been told.
<1>5. asset[conn].version = disk
  <2>1. disk <= asset[conn].version
    <3>1. CASE p = 0
      BY <1>1, <3>1 DEF Told, ClientOrder, TaskAhead
    <3>2. CASE p # 0
      BY <1>1, <3>2, StreamBelow DEF Told, NoSizeAbove
    <3>3. QED
      BY <3>1, <3>2
  <2>2. QED
    BY <1>4, <2>1
<1>6. i < next[conn]
  BY <1>3, <1>4 DEF MoreChunks
<1>7. ServedUpTo(conn)
  BY <1>1 DEF RepliesComplete
<1>8. PICK j \in 1 .. Len(reply[conn]) : reply[conn][j].index = i /\ reply[conn][j].type = "chunk"
  BY <1>1, <1>3, <1>4, <1>5, <1>6, <1>7 DEF ServedUpTo
<1>9. p <= Len(s2c)
  <2> SUFFICES ASSUME p > Len(s2c)
               PROVE  FALSE
    BY <1>2
  <2>1. p \in 1 .. Len(Stream) /\ Stream[p].type = "size"
    BY <1>2 DEF Told
  <2>2. p - Len(s2c) \in 1 .. Len(reply[conn]) /\ Stream[p] = reply[conn][p - Len(s2c)]
    BY <1>2, <2>1
  <2>3. Stream[p].type = "chunk"
    BY <1>1, <1>7, <2>2 DEF ServedUpTo
  <2>4. QED
    BY <2>1, <2>3
<1>10. Len(s2c) + j \in 1 .. Len(Stream) /\ Stream[Len(s2c) + j] = reply[conn][j]
  BY <1>2
<1>11. p < Len(s2c) + j /\ Len(s2c) + j < Len(Stream) + 1
  BY <1>2, <1>9
<1>12. QED
  BY <1>8, <1>10, <1>11 DEF ChunkBetween

DonesInOrder == DonesCovered(Stream, fileVersion, chunkCache, disk)

LEMMA DonesInOrderStep ==
  ASSUME ServerTypeOK, ClientTyped, ServerOrder, RepliesComplete, ~AllowRollback, ClientOrder,
         DonesInOrder, [Next]_vars
  PROVE  DonesInOrder'
<1>1. ServerTypeOK' /\ ClientTyped'
  BY TypeStep
<1>2. CASE UNCHANGED vars
  <2>1. Stream' = Stream /\ UNCHANGED <<fileVersion, chunkCache, disk>>
    BY <1>2 DEF vars, clientVars, cacheVars, serverVars, Stream
  <2>2. QED
    BY <2>1 DEF DonesInOrder, DonesCovered, ChunkBetween, Told
<1> SUFFICES ASSUME Next
             PROVE  DonesCovered(Stream', fileVersion', chunkCache', disk')
  BY <1>2 DEF DonesInOrder, DonesCovered, ChunkBetween, Told
<1>3. /\ Stream \in Seq(Frames) /\ Stream' \in Seq(Frames)
      /\ s2c \in Seq(Frames) /\ Begins(s2c, Stream)
  <2>1. s2c' \in Seq(Frames) /\ reply'[conn'] \in Seq(Frames)
    BY <1>1 DEF ServerTypeOK, ClientTyped, WireTyped
  <2>2. Stream' \in Seq(Frames)
    BY <2>1 DEF Stream
  <2>3. QED
    BY <2>2, StreamTyped
<1>4. disk \in Nat /\ disk' \in Nat /\ disk \in Images /\ disk >= 1 /\ fileVersion \in Nat
  BY <1>1, Numbers DEF ServerTypeOK, Images, ClientTyped, CachesTyped, Tags
<1>5. CASE RewriteFile
  <2>1. disk < disk' /\ Stream' = Stream /\ fileVersion' = fileVersion
    BY <1>4, <1>5 DEF RewriteFile, Rewrite, clientVars, cacheVars, Stream
  <2>2. fileVersion <= disk
    BY <1>4, Numbers DEF ClientOrder, ServerOrder, AssetsOrdered, EntryOrdered
  <2>3. NoSizeAbove(Stream, disk)
    BY StreamBelow
  <2>4. QED
    BY <1>3, <1>4, <2>1, <2>2, <2>3, CoveredWhenNew
<1> SUFFICES ASSUME ~RewriteFile
             PROVE  DonesCovered(Stream', fileVersion', chunkCache', disk)
  <2>1. CASE RewriteFile
    BY <1>5, <2>1
  <2>2. CASE ~RewriteFile
    <3>1. disk' = disk
      BY <2>2, DiskFixed
    <3>2. QED
      BY <2>2, <3>1
  <2>3. QED
    BY <2>1, <2>2
<1>6. DonesCovered(Stream, fileVersion, chunkCache, disk)
  BY DEF DonesInOrder
<1>7. CASE Begins(Stream', Stream) /\ ~ReceiveAny
  <2>1. fileVersion' = fileVersion \/ fileVersion' = 0
    BY <1>7 DEF ReceiveAny, Next, RewriteFile, ServeRequest, OtherClientAsks, ServerStep,
       SendReply,
       BeginRead, LookUp, AskIndexedDB, IndexedDBAnswers, AllCached, FetchMissing, SendBatch,
       KeepAlive, SizeTimesOut, FetchTimesOut, RetryFetch, Reconnect, ReloadPage,
       RegisterAgain, clientVars,
       cacheVars
  <2>2. ReloadPage => fileVersion' = 0
    BY DEF ReloadPage
  <2>3. fileVersion' = disk =>
           \A i \in Chunks : chunkCache[disk][i] # 0 => chunkCache'[disk][i] # 0
    BY <1>4, <2>2, CacheKept
  <2>4. QED
    BY <1>3, <1>4, <1>6, <1>7, <2>1, <2>3, CoveredPrefix
<1>8. CASE Stream' = Append(s2c, ErrorFrame) /\ UNCHANGED clientVars
  <2>1. DonesCovered(s2c, fileVersion, chunkCache, disk)
    BY <1>3, <1>6, CoveredPrefix
  <2>2. ErrorFrame \in Frames /\ ErrorFrame.type = "error"
    BY FramesAreFrames DEF ErrorFrame
  <2>3. DonesCovered(Append(s2c, ErrorFrame), fileVersion, chunkCache, disk)
    BY <1>3, <2>1, <2>2, CoveredAppend
  <2>4. QED
    BY <1>8, <2>3 DEF clientVars, cacheVars
<1>9. ASSUME NEW frame \in Frames,
             Emits(conn, frame), Stream' = Append(Stream, frame), UNCHANGED clientVars
      PROVE  DonesCovered(Stream', fileVersion', chunkCache', disk)
  <2>1. frame.type = "chunks_done" =>
           \A p \in Nat, i \in Chunks :
              /\ frame.index <= i /\ i <= frame.last /\ i < SizeOf[disk]
              /\ p <= Len(Stream) /\ Told(Stream, fileVersion, disk, p)
              => ChunkBetween(Stream, p, Len(Stream) + 1, i)
    BY <1>9, DoneEmitted
  <2>2. DonesCovered(Append(Stream, frame), fileVersion, chunkCache, disk)
    BY <1>3, <1>6, <2>1, CoveredAppend
  <2>3. QED
    BY <1>9, <2>2 DEF clientVars, cacheVars
<1>10. CASE ReceiveAny /\ s2c # <<>> /\ Head(Stream) = Head(s2c) /\ Stream' = Tail(Stream)
  <2>1. \/ fileVersion' = fileVersion
        \/ Head(Stream).type = "size" /\ fileVersion' = Head(Stream).image
    BY <1>10 DEF ReceiveAny, ReceiveSize, ReceiveChunk, ReceiveDone, ReceiveError, Receive,
                 cacheVars
  <2>2. Stream # <<>> /\ ~ReloadPage
    <3>1. ReloadPage => s2c' = <<>> /\ conn' # conn
      BY DEF ReloadPage
    <3>2. conn' = conn
      BY <1>10 DEF ReceiveAny, ReceiveSize, ReceiveChunk, ReceiveDone, ReceiveError, Receive
    <3>3. QED
      BY <1>3, <1>10, <3>1, <3>2 DEF Begins
  <2>3. \A i \in Chunks : chunkCache[disk][i] # 0 => chunkCache'[disk][i] # 0
    BY <1>4, <2>2, CacheKept
  <2>4. ASSUME fileVersion' = disk, Head(Stream).type = "chunk", Head(Stream).index \in Chunks
        PROVE  chunkCache'[disk][Head(Stream).index] # 0
    <3>1. ReceiveChunk /\ fileVersion = disk
      BY <1>10, <2>1, <2>4 DEF ReceiveAny, ReceiveSize, ReceiveChunk, ReceiveDone, ReceiveError,
                               Receive
    <3>2. QED
      BY <1>4, <1>10, <2>2, <2>4, <3>1, CacheKept
  <2>5. QED
    BY <1>3, <1>6, <1>10, <2>1, <2>2, <2>3, <2>4, CoveredTail
<1>11. QED
  BY <1>7, <1>8, <1>9, <1>10, StreamStep

-----------------------------------------------------------------------------
(* What a read has found and what it still waits for.                      *)

LEMMA LeastNumber ==
  ASSUME NEW S, S \subseteq Nat, S # {}
  PROVE  \E m \in S : \A n \in S : m <= n
<1>1. PICK m \in S : \A n \in S : ~(<<n, m>> \in OpToRel(<, Nat))
  BY NatLessThanWellFounded, WFMin
<1>2. \A n \in S : ~(n < m)
  BY <1>1 DEF OpToRel
<1>3. QED
  BY <1>2

\* Every missing chunk is in one of the batches.
LEMMA BatchesCover ==
  ASSUME NEW chunks, chunks \subseteq Nat, NEW bound \in Nat, \A c \in chunks : c <= bound,
         NEW i \in chunks
  PROVE  \E b \in Batches(chunks) : i \in b[1] .. b[2]
<1> DEFINE firsts == {a \in Nat : a <= i /\ a .. i \subseteq chunks}
           lasts == {z \in Nat : i <= z /\ z + 1 \notin chunks}
<1>1. i \in firsts /\ firsts \subseteq Nat
  OBVIOUS
<1>2. bound \in lasts /\ lasts \subseteq Nat
  OBVIOUS
<1>3. PICK a \in firsts : \A x \in firsts : a <= x
  BY <1>1, LeastNumber
<1>4. PICK z \in lasts : \A x \in lasts : z <= x
  BY <1>2, LeastNumber
<1>5. ASSUME NEW k \in i .. z
      PROVE  k \in chunks
  <2>1. CASE k = i
    BY <2>1
  <2>2. CASE k # i /\ k \notin chunks
    <3>1. k - 1 \in lasts
      BY <1>5, <2>2
    <3>2. z <= k - 1
      BY <1>4, <3>1
    <3>3. QED
      BY <1>4, <1>5, <3>2
  <2>3. QED
    BY <2>1, <2>2
<1>6. a .. z \subseteq chunks /\ a \in chunks /\ z \in chunks /\ a <= z
  <2>1. a <= i /\ i <= z /\ a .. i \subseteq chunks /\ a \in Nat /\ z \in Nat
    BY <1>3, <1>4
  <2>2. \A k \in a .. z : k \in a .. i \/ k \in i .. z
    BY <2>1
  <2>3. a \in a .. z /\ z \in a .. z
    BY <2>1
  <2>4. QED
    BY <1>5, <2>1, <2>2, <2>3
<1>7. \A x \in chunks : x + 1 # a
  <2> SUFFICES ASSUME NEW x \in chunks, x + 1 = a
               PROVE  FALSE
    OBVIOUS
  <2>1. \A k \in x .. i : k = x \/ k \in a .. i
    OBVIOUS
  <2>2. x \in firsts
    BY <2>1, <1>3
  <2>3. QED
    BY <1>3, <2>2
<1>8. <<a, z>> \in Batches(chunks)
  BY <1>4, <1>6, <1>7 DEF Batches
<1>9. i \in a .. z
  BY <1>3, <1>4
<1>10. QED
  BY <1>8, <1>9

\* Two batches have no chunk in common, or one of them could be longer.
LEMMA BatchesDisjoint ==
  ASSUME NEW chunks, chunks \subseteq Nat, NEW b \in Batches(chunks), NEW c \in Batches(chunks),
         NEW i \in Nat, i \in b[1] .. b[2], i \in c[1] .. c[2]
  PROVE  b = c
<1>1. ASSUME NEW x \in Batches(chunks), NEW y \in Batches(chunks),
             i \in x[1] .. x[2], i \in y[1] .. y[2]
      PROVE  y[1] <= x[1] /\ x[2] <= y[2]
  <2>1. /\ x[1] \in Nat /\ x[2] \in Nat /\ y[1] \in Nat /\ y[2] \in Nat
        /\ x[1] .. x[2] \subseteq chunks
        /\ y[2] + 1 \notin chunks /\ \A k \in chunks : k + 1 # y[1]
    BY DEF Batches
  <2>2. x[1] < y[1] => y[1] - 1 \in x[1] .. x[2] /\ (y[1] - 1) + 1 = y[1]
    BY <1>1, <2>1
  <2>3. y[2] < x[2] => y[2] + 1 \in x[1] .. x[2]
    BY <1>1, <2>1
  <2>4. ~(x[1] < y[1]) /\ ~(y[2] < x[2])
    BY <2>1, <2>2, <2>3
  <2>5. QED
    BY <2>1, <2>4
<1>2. /\ b[1] \in Nat /\ b[2] \in Nat /\ c[1] \in Nat /\ c[2] \in Nat
      /\ b = <<b[1], b[2]>> /\ c = <<c[1], c[2]>>
  <2>1. b \in Nat \X Nat /\ c \in Nat \X Nat
    BY DEF Batches
  <2>2. \A pair \in Nat \X Nat :
           pair[1] \in Nat /\ pair[2] \in Nat /\ pair = <<pair[1], pair[2]>>
    OBVIOUS
  <2>3. QED
    BY <2>1, <2>2
<1>3. b[1] = c[1] /\ b[2] = c[2]
  BY <1>1, <1>2
<1>4. QED
  BY <1>2, <1>3

\* fetchChunks asks for the missing chunks and for no others, each in exactly
\* one batch, whichever chunks are missing.
THEOREM BatchesPartition ==
  ASSUME NEW chunks \in SUBSET Chunks, NEW bound \in Nat, \A c \in chunks : c <= bound
  PROVE  /\ \A b \in Batches(chunks) : b[1] .. b[2] \subseteq chunks
         /\ \A i \in chunks : \E b \in Batches(chunks) :
               /\ i \in b[1] .. b[2]
               /\ \A c \in Batches(chunks) : i \in c[1] .. c[2] => c = b
<1>1. chunks \subseteq Nat
  BY CacheAssumption DEF CacheAssumption
<1>2. ASSUME NEW i \in chunks
      PROVE  \E b \in Batches(chunks) :
               /\ i \in b[1] .. b[2]
               /\ \A c \in Batches(chunks) : i \in c[1] .. c[2] => c = b
  <2>1. PICK b \in Batches(chunks) : i \in b[1] .. b[2]
    BY <1>1, BatchesCover
  <2>2. \A c \in Batches(chunks) : i \in c[1] .. c[2] => c = b
    BY <1>1, <2>1, BatchesDisjoint
  <2>3. QED
    BY <2>1, <2>2
<1>3. QED
  BY <1>2 DEF Batches

Reading == reader \in {"lookup", "idb", "fetch", "failed"}

ReadStarts ==
  /\ reader \in {"idle", "size"} => missing = {}
  /\ reader = "size" => at = want[1]
  /\ reader \in {"fetch", "failed"} => at > want[2]
  /\ Reading => \A i \in missing : i <= want[2]

\* While a file is read its version is not forgotten, and what IndexedDB has
\* answered belongs to it or to a later one.
ReadBehind ==
  /\ Reading => lookedUp <= fileVersion
  /\ reader = "idb" /\ found[2] # 0 => lookedUp <= found[1] /\ found[1] <= fileVersion

\* A chunk that has been looked up under the version the file still has is
\* cached under it or known to be missing ...
LookedAt ==
  Reading /\ lookedUp = disk =>
     \A i \in want[1] .. want[2] : i < at => chunkCache[disk][i] # 0 \/ i \in missing

\* ... and, once it is fetched, cached or in a batch that is still awaited.
StillAwaited ==
  reader = "fetch" /\ lookedUp = disk =>
     \A i \in want[1] .. want[2] :
        i < SizeOf[disk] => chunkCache[disk][i] # 0 \/ \E b \in awaited : i \in b[1] .. b[2]

ReadOnTrack == ReadStarts /\ ReadBehind /\ LookedAt /\ StillAwaited

\* Everything a step can do to a read.
LEMMA ReadCases ==
  ASSUME Next
  PROVE  \/ UNCHANGED <<reader, want, at, found, missing, awaited, lookedUp>>
         \/ reader' = "idle" /\ missing' = {}
         \/ \E range \in Ranges : BeginRead(range)
         \/ ReceiveSize /\ reader = "size" /\ sizePending
         \/ LookUp \/ AskIndexedDB \/ IndexedDBAnswers \/ FetchMissing
         \/ /\ ReceiveDone
            /\ UNCHANGED <<reader, want, at, found, missing, lookedUp>>
            /\ awaited' = awaited \ {<<Head(s2c).index, Head(s2c).last>>}
         \/ /\ FetchTimesOut /\ reader = "fetch" /\ reader' = "failed"
            /\ UNCHANGED <<want, at, found, missing, lookedUp>>
         \/ RetryFetch
<1>1. ASSUME EndRead
      PROVE  reader' = "idle" /\ missing' = {}
  BY <1>1 DEF EndRead, Goto
<1>2. CASE RewriteFile \/ ServeRequest \/ ReceiveChunk \/ ReceiveError \/ KeepAlive \/ Reconnect
           \/ RegisterAgain
  BY <1>2 DEF RewriteFile, ServeRequest, ReceiveChunk, ReceiveError, KeepAlive, Reconnect,
              RegisterAgain, clientVars, readVars
<1>3. ASSUME NEW t \in Tasks, OtherClientAsks(t) \/ ServerStep(t) \/ SendReply(t)
      PROVE  UNCHANGED <<reader, want, at, found, missing, awaited, lookedUp>>
  BY <1>3 DEF OtherClientAsks, ServerStep, SendReply, clientVars, readVars
<1>4. ASSUME NEW b \in Chunks \X Chunks, SendBatch(b)
      PROVE  UNCHANGED <<reader, want, at, found, missing, awaited, lookedUp>>
  BY <1>4 DEF SendBatch
<1>5. CASE AllCached \/ ReloadPage \/ SizeTimesOut \/ FetchTimesOut
  BY <1>1, <1>5 DEF AllCached, ReloadPage, SizeTimesOut, FetchTimesOut, Goto, readVars
<1>6. CASE ReceiveSize
  BY <1>6 DEF ReceiveSize
<1>7. CASE ReceiveDone
  BY <1>1, <1>7 DEF ReceiveDone
<1>8. QED
  BY <1>2, <1>3, <1>4, <1>5, <1>6, <1>7 DEF Next

\* The batch whose end is heard is cached, if the read's version is the file's.
LEMMA BatchCached ==
  ASSUME ServerTypeOK, ClientTyped, DonesInOrder, ReceiveDone, fileVersion = disk,
         NEW i \in Chunks, Head(s2c).index <= i, i <= Head(s2c).last, i < SizeOf[disk]
  PROVE  chunkCache[disk][i] # 0
<1>1. /\ Stream \in Seq(Frames) /\ s2c \in Seq(Frames) /\ Begins(s2c, Stream)
  BY StreamTyped
<1>2. s2c # <<>> /\ Head(s2c).type = "chunks_done"
  BY DEF ReceiveDone, Receive
<1>3. 1 \in 1 .. Len(Stream) /\ Stream[1] = Head(s2c)
  BY <1>1, <1>2 DEF Begins
<1>4. Told(Stream, fileVersion, disk, 0)
  BY DEF Told
<1>5. ChunkBetween(Stream, 0, 1, i) \/ chunkCache[disk][i] # 0
  BY <1>2, <1>3, <1>4 DEF DonesInOrder, DonesCovered
<1>6. ~ChunkBetween(Stream, 0, 1, i)
  BY <1>1 DEF ChunkBetween
<1>7. QED
  BY <1>5, <1>6

LEMMA ReadOnTrackStep ==
  ASSUME ServerTypeOK, ClientTyped, ServerOrder, ~AllowRollback, ClientOrder, VersionsInOrder,
         DonesInOrder, ReadOnTrack, [Next]_vars
  PROVE  ReadOnTrack'
<1> USE DEF ReadOnTrack, ReadStarts, ReadBehind, LookedAt, StillAwaited, Reading
<1>1. ServerTypeOK' /\ ClientTyped'
  BY TypeStep
<1>2. CASE UNCHANGED vars
  BY <1>2 DEF vars, clientVars, readVars, cacheVars, serverVars
<1> SUFFICES ASSUME Next
             PROVE  ReadOnTrack'
  BY <1>2
<1>3. /\ disk \in Images /\ disk \in Nat /\ disk' \in Nat
      /\ fileVersion \in Nat /\ fileVersion' \in Nat /\ lookedUp \in Nat
      /\ at \in Nat /\ want[1] \in Nat /\ want[2] \in Nat
      /\ found[1] \in Nat /\ missing \subseteq Chunks
      /\ \A i \in want[1] .. want[2] : i \in Chunks /\ i \in Nat
  <2>1. disk \in Images /\ disk \in Nat /\ disk' \in Nat
    BY <1>1 DEF ServerTypeOK, Images
  <2>2. /\ fileVersion \in Nat /\ fileVersion' \in Nat /\ lookedUp \in Nat
    BY <1>1 DEF ClientTyped, CachesTyped, ReadTyped, Tags
  <2>3. at \in Nat /\ want \in Ranges /\ found[1] \in Nat /\ missing \subseteq Chunks
    BY DEF ClientTyped, ReadTyped, Tags
  <2>4. /\ want[1] \in Nat /\ want[2] \in Nat
        /\ \A i \in want[1] .. want[2] : i \in Chunks /\ i \in Nat
    BY <2>3, RangesTyped
  <2>5. QED
    BY <2>1, <2>2, <2>3, <2>4
<1>4. fileVersion <= disk
  BY <1>3, Numbers DEF ClientOrder, ServerOrder, AssetsOrdered, EntryOrdered
<1>5. ReloadPage \/ RegisterAgain \/ fileVersion <= fileVersion'
  BY VersionsInOrderStep
<1>6. \A i \in Chunks : chunkCache[disk][i] # 0 => chunkCache'[disk][i] # 0 \/ ReloadPage
  BY <1>3, CacheKept
\* The version a read in progress was begun under is the client's own.
<1>7. Reading /\ lookedUp = disk => fileVersion = disk
  BY <1>3, <1>4
<1>8. CASE UNCHANGED <<reader, want, at, found, missing, awaited, lookedUp>>
  <2>1. Reading => ~ReloadPage /\ ~RegisterAgain
    BY <1>8 DEF ReloadPage, EndRead, Goto, RegisterAgain
  <2>2. ReadBehind'
    BY <1>3, <1>5, <1>8, <2>1
  <2>3. CASE RewriteFile
    <3>1. disk' > disk
      BY <1>3, <2>3 DEF RewriteFile, Rewrite
    <3>2. Reading => lookedUp # disk'
      BY <1>3, <1>4, <3>1
    <3>3. QED
      BY <1>8, <2>2, <3>2
  <2>4. CASE ~RewriteFile
    BY <1>3, <1>6, <1>8, <2>1, <2>2, <2>4, DiskFixed
  <2>5. QED
    BY <2>3, <2>4
<1>9. CASE reader' = "idle" /\ missing' = {}
  BY <1>9
<1>10. ASSUME NEW range \in Ranges, BeginRead(range)
       PROVE  ReadOnTrack'
  <2>1. /\ reader = "idle" /\ missing' = missing /\ want' = range /\ at' = range[1]
        /\ fileVersion' = fileVersion
        /\ reader' = "size" \/ (reader' = "lookup" /\ lookedUp' = fileVersion)
    BY <1>10 DEF BeginRead, Goto, cacheVars
  <2>2. range[1] \in Nat /\ range[2] \in Nat
    BY RangesTyped
  <2>3. QED
    BY <1>3, <2>1, <2>2
<1>11. CASE ReceiveSize /\ reader = "size" /\ sizePending
  <2>1. /\ reader' = "lookup" /\ lookedUp' = fileVersion'
        /\ UNCHANGED <<want, at, missing>>
    BY <1>11 DEF ReceiveSize, Goto
  <2>2. QED
    BY <1>3, <1>11, <2>1
<1>12. CASE LookUp
  <2>1. /\ reader = "lookup" /\ at' = at + 1
        /\ Under(chunkCache, at) # 0
        /\ UNCHANGED <<reader, want, missing, lookedUp, fileVersion, chunkCache, disk>>
    BY <1>12 DEF LookUp, cacheVars, serverVars
  <2>2. lookedUp = disk => chunkCache[disk][at] # 0
    BY <1>7, <2>1 DEF Under
  <2>3. LookedAt'
    BY <1>3, <2>1, <2>2
  <2>4. QED
    BY <2>1, <2>3
<1>13. CASE AskIndexedDB
  <2>1. /\ reader = "lookup" /\ reader' = "idb"
        /\ found' = <<fileVersion, Under(idb, at)>> \/ found' = NotFound
        /\ UNCHANGED <<want, at, missing, lookedUp, fileVersion, chunkCache, disk>>
    BY <1>13 DEF AskIndexedDB, Goto, cacheVars, serverVars
  <2>2. ReadBehind'
    BY <1>3, <2>1 DEF NotFound
  <2>3. QED
    BY <2>1, <2>2
<1>14. CASE IndexedDBAnswers
  <2>1. /\ reader = "idb" /\ reader' = "lookup" /\ at' = at + 1
        /\ IF found[2] # 0 THEN chunkCache' = Kept(chunkCache, at, found[2]) /\ missing' = missing
                           ELSE missing' = missing \cup {at} /\ chunkCache' = chunkCache
        /\ UNCHANGED <<want, lookedUp, fileVersion, disk>>
    BY <1>14 DEF IndexedDBAnswers, Goto, serverVars
  <2>2. want[1] <= at /\ at <= want[2] /\ at \in Chunks
    BY <1>3, <2>1 DEF ClientTyped, ReadTyped
  <2>3. ASSUME lookedUp = disk, found[2] # 0
        PROVE  chunkCache'[disk][at] # 0
    <3>1. found[1] = disk
      BY <1>3, <1>7, <2>1, <2>3
    <3>2. chunkCache' = [chunkCache EXCEPT ![disk][at] = found[2]]
      BY <2>1, <2>3, <3>1 DEF Kept
    <3>3. chunkCache \in [Images -> [Chunks -> Tags]]
      BY DEF ClientTyped, CachesTyped
    <3>4. QED
      BY <1>3, <2>2, <2>3, <3>2, <3>3
  <2>4. ~ReloadPage
    BY <2>1 DEF ReloadPage, EndRead, Goto
  <2>5. LookedAt'
    BY <1>3, <1>6, <2>1, <2>3, <2>4
  <2>6. ReadStarts' /\ ReadBehind'
    BY <1>3, <2>1, <2>2
  <2>7. QED
    BY <2>1, <2>5, <2>6
<1>15. CASE FetchMissing
  <2>1. /\ reader = "lookup" /\ reader' = "fetch" /\ at > want[2]
        /\ awaited' = Batches(missing)
        /\ UNCHANGED <<want, at, missing, lookedUp, fileVersion, chunkCache, disk>>
    BY <1>15 DEF FetchMissing, Goto, cacheVars, serverVars
  <2>2. missing \subseteq Nat /\ \A c \in missing : c <= want[2]
    BY <1>3, <2>1, CacheAssumption DEF CacheAssumption
  <2>3. \A i \in missing : \E b \in Batches(missing) : i \in b[1] .. b[2]
    BY <1>3, <2>2, BatchesCover
  <2>4. StillAwaited'
    BY <1>3, <2>1, <2>3
  <2>5. QED
    BY <2>1, <2>4
<1>16. CASE /\ ReceiveDone
            /\ UNCHANGED <<reader, want, at, found, missing, lookedUp>>
            /\ awaited' = awaited \ {<<Head(s2c).index, Head(s2c).last>>}
  <2> DEFINE batch == <<Head(s2c).index, Head(s2c).last>>
  <2>1. UNCHANGED <<disk, fileVersion, chunkCache>>
    BY <1>16 DEF ReceiveDone, Receive, cacheVars, serverVars
  <2>2. ASSUME reader = "fetch", lookedUp = disk, NEW i \in want[1] .. want[2], i < SizeOf[disk],
               i \in batch[1] .. batch[2]
        PROVE  chunkCache[disk][i] # 0
    <3>1. Head(s2c).index <= i /\ i <= Head(s2c).last
      <4>1. Head(s2c).index \in Nat /\ Head(s2c).last \in Nat
        BY <1>16, HeadTyped DEF ReceiveDone, Receive, ClientTyped, Frames
      <4>2. QED
        BY <1>3, <2>2, <4>1
    <3>2. QED
      BY <1>3, <1>7, <1>16, <2>2, <3>1, BatchCached
  <2>3. StillAwaited'
    BY <1>16, <2>1, <2>2
  <2>4. QED
    BY <1>16, <2>1, <2>3
<1>17. CASE /\ FetchTimesOut /\ reader = "fetch" /\ reader' = "failed"
            /\ UNCHANGED <<want, at, found, missing, lookedUp>>
  <2>1. UNCHANGED <<disk, fileVersion, chunkCache>>
    BY <1>17 DEF FetchTimesOut, cacheVars, serverVars
  <2>2. QED
    BY <1>17, <2>1
<1>18. CASE RetryFetch
  <2>1. /\ reader = "failed" /\ reader' = "fetch"
        /\ awaited' = Batches(missing)
        /\ UNCHANGED <<want, at, found, missing, lookedUp, fileVersion, chunkCache, disk>>
    BY <1>18 DEF RetryFetch, Goto, cacheVars, serverVars
  <2>2. missing \subseteq Nat /\ \A c \in missing : c <= want[2]
    BY <1>3, <2>1, CacheAssumption DEF CacheAssumption
  <2>3. \A i \in missing : \E b \in Batches(missing) : i \in b[1] .. b[2]
    BY <1>3, <2>2, BatchesCover
  <2>4. StillAwaited'
    BY <1>3, <2>1, <2>3
  <2>5. ReadStarts' /\ ReadBehind' /\ LookedAt'
    BY <2>1
  <2>6. QED
    BY <2>4, <2>5
<1>19. QED
  BY <1>8, <1>9, <1>10, <1>11, <1>12, <1>13, <1>14, <1>15, <1>16, <1>17, <1>18, ReadCases

-----------------------------------------------------------------------------
(* What was cached under a version was cached when the client knew it, and *)
(* since then it only hears versions that are no older.                    *)

UsedTag(tag) ==
  \/ \E i \in Chunks : chunkCache[tag][i] # 0 \/ idb[tag][i] # 0
  \/ found[2] # 0 /\ found[1] = tag

KnownAbove(tag) ==
  /\ fileVersion = 0 \/ tag <= fileVersion
  /\ tag <= entry.version
  /\ pc[conn] # "idle" => tag <= asset[conn].version
  /\ SizesFrom(Stream, tag)

CachedBefore == \A tag \in Images : UsedTag(tag) => KnownAbove(tag)

LEMMA KnownNow ==
  ASSUME ServerTypeOK, ClientTyped, ClientOrder, VersionsInOrder
  PROVE  KnownAbove(fileVersion)
<1>1. fileVersion \in Nat
  BY DEF ClientTyped, CachesTyped, Tags
<1>2. QED
  BY <1>1 DEF KnownAbove, ClientOrder, TaskAhead, VersionsInOrder

\* A version comes into use only while the client knows it.
LEMMA TagsUsed ==
  ASSUME ClientTyped, ClientTyped', [Next]_vars, NEW tag \in Images, UsedTag(tag)'
  PROVE  UsedTag(tag) \/ (tag = fileVersion /\ UNCHANGED <<serverVars, conn, fileVersion>>)
<1>1. ASSUME UNCHANGED <<chunkCache, idb>>, found' = found \/ found' = NotFound
      PROVE  UsedTag(tag)
  BY <1>1 DEF UsedTag, NotFound
<1>2. CASE \/ UNCHANGED vars \/ RewriteFile \/ ServeRequest \/ LookUp \/ AllCached \/ FetchMissing
           \/ ReceiveSize \/ ReceiveDone \/ ReceiveError \/ KeepAlive \/ SizeTimesOut
           \/ FetchTimesOut \/ RetryFetch \/ Reconnect \/ RegisterAgain
  BY <1>1, <1>2 DEF vars, clientVars, cacheVars, readVars, RewriteFile, ServeRequest, LookUp,
     AllCached, EndRead, FetchMissing, ReceiveSize, ReceiveDone, ReceiveError, KeepAlive,
     SizeTimesOut, FetchTimesOut, RetryFetch, Reconnect, RegisterAgain
<1>3. ASSUME NEW t \in Tasks, OtherClientAsks(t) \/ ServerStep(t) \/ SendReply(t)
      PROVE  UsedTag(tag)
  BY <1>1, <1>3 DEF OtherClientAsks, ServerStep, SendReply, clientVars, cacheVars, readVars
<1>4. ASSUME NEW range \in Ranges, BeginRead(range)
      PROVE  UsedTag(tag)
  BY <1>1, <1>4 DEF BeginRead, cacheVars
<1>5. ASSUME NEW b \in Chunks \X Chunks, SendBatch(b)
      PROVE  UsedTag(tag)
  BY <1>1, <1>5 DEF SendBatch, cacheVars
<1>6. CASE AskIndexedDB
  <2>1. at \in Chunks
    BY <1>6, RangesTyped DEF AskIndexedDB, ClientTyped, ReadTyped
  <2>2. CASE found' = NotFound
    BY <1>1, <1>6, <2>2 DEF AskIndexedDB, cacheVars
  <2>3. CASE found' = <<fileVersion, Under(idb, at)>>
    <3>1. Under(idb, at) # 0 => fileVersion \in Images /\ idb[fileVersion][at] # 0
      BY DEF Under
    <3>2. UNCHANGED <<chunkCache, idb>>
      BY <1>6 DEF AskIndexedDB, cacheVars
    <3>3. QED
      BY <2>1, <2>3, <3>1, <3>2 DEF UsedTag
  <2>4. QED
    BY <1>6, <2>2, <2>3 DEF AskIndexedDB
<1>7. CASE IndexedDBAnswers
  <2>1. UNCHANGED idb /\ found' = NotFound
    BY <1>7 DEF IndexedDBAnswers
  <2>2. CASE found[2] = 0
    BY <1>1, <1>7, <2>1, <2>2 DEF IndexedDBAnswers
  <2>3. CASE found[2] # 0
    <3>1. chunkCache' = [chunkCache EXCEPT ![found[1]][at] = found[2]]
      BY <1>7, <2>3 DEF IndexedDBAnswers, Kept
    <3>2. tag # found[1] => chunkCache'[tag] = chunkCache[tag]
      BY <3>1 DEF ClientTyped, CachesTyped
    <3>3. QED
      BY <2>1, <2>3, <3>2 DEF UsedTag, NotFound
  <2>4. QED
    BY <2>2, <2>3
<1>8. CASE ReceiveChunk
  <2>1. UNCHANGED <<serverVars, conn, fileVersion, found>>
    BY <1>8 DEF ReceiveChunk, Receive, readVars
  <2>2. tag # fileVersion => chunkCache'[tag] = chunkCache[tag] /\ idb'[tag] = idb[tag]
    BY <1>8 DEF ReceiveChunk, Filed, ClientTyped, CachesTyped
  <2>3. QED
    BY <2>1, <2>2 DEF UsedTag
<1>9. CASE ReloadPage
  <2>1. UNCHANGED idb /\ found' = NotFound /\ \A i \in Chunks : chunkCache'[tag][i] = 0
    BY <1>9 DEF ReloadPage, EndRead, Empty
  <2>2. QED
    BY <2>1 DEF UsedTag, NotFound
<1>10. QED
  BY <1>2, <1>3, <1>4, <1>5, <1>6, <1>7, <1>8, <1>9 DEF Next

\* Neither the entry nor the asset of the client's task goes back.
LEMMA ServerAhead ==
  ASSUME ServerTypeOK, ClientTyped, ServerOrder, ~AllowRollback, Next
  PROVE  /\ entry.version <= entry'.version
         /\ pc'[conn'] # "idle" =>
              /\ conn' = conn
              /\ IF pc[conn] = "idle" THEN asset'[conn] = entry
                                      ELSE asset[conn].version <= asset'[conn].version
<1>1. conn \in Tasks /\ entry.version \in Nat /\ asset[conn].version \in Nat
  BY Numbers DEF ClientTyped, WireTyped
<1>2. ServerAction \/ UNCHANGED serverVars
  BY NextIsServerAction DEF CacheTypeOK, ClientTyped, WireTyped, CachesTyped, ReadTyped,
     AskTyped
<1>3. /\ entry.version <= entry'.version
      /\ pc'[conn] # "idle" =>
            IF pc[conn] = "idle" THEN asset'[conn] = entry
                                 ELSE asset[conn].version <= asset'[conn].version
  <2>1. CASE ServerAction
    BY <1>1, <2>1, ServerOnlyAdvances DEF ServerOrder
  <2>2. CASE UNCHANGED serverVars
    BY <1>1, <2>2 DEF serverVars
  <2>3. QED
    BY <1>2, <2>1, <2>2
<1>4. CASE conn' # conn
  <2>1. pc'[conn'] = "idle"
    BY <1>4 DEF Next, RewriteFile, ServeRequest, OtherClientAsks, ServerStep, SendReply,
       BeginRead,
       LookUp, AskIndexedDB, IndexedDBAnswers, AllCached, FetchMissing, SendBatch, ReceiveSize,
       ReceiveChunk, ReceiveDone, ReceiveError, Receive, KeepAlive, SizeTimesOut,
       FetchTimesOut, RetryFetch,
       Reconnect, ReloadPage, RegisterAgain, clientVars, serverVars
  <2>2. QED
    BY <1>3, <2>1
<1>5. QED
  BY <1>3, <1>4

LEMMA KnownAboveStep ==
  ASSUME ServerTypeOK, ClientTyped, ServerOrder, ~AllowRollback, ClientOrder, Next,
         NEW tag \in Images, KnownAbove(tag)
  PROVE  KnownAbove(tag)'
<1>1. ServerTypeOK' /\ ClientTyped'
  BY TypeStep
<1>2. /\ tag \in Nat /\ fileVersion \in Nat /\ fileVersion' \in Nat
      /\ entry.version \in Nat /\ entry'.version \in Nat
      /\ asset[conn].version \in Nat /\ asset'[conn].version \in Nat
  <2>1. conn \in Tasks /\ fileVersion \in Nat /\ fileVersion' \in Nat /\ tag \in Nat
    BY <1>1 DEF ClientTyped, WireTyped, CachesTyped, Tags, Images
  <2>2. QED
    BY <1>1, <2>1, ConstantsTyped, AssetFields DEF ServerTypeOK
<1>3. tag <= entry'.version /\ (pc'[conn'] # "idle" => tag <= asset'[conn'].version)
  BY <1>2, ServerAhead DEF KnownAbove
<1>4. /\ Stream \in Seq(Frames) /\ Stream' \in Seq(Frames)
      /\ s2c \in Seq(Frames) /\ Begins(s2c, Stream)
  <2>1. s2c' \in Seq(Frames) /\ reply'[conn'] \in Seq(Frames)
    BY <1>1 DEF ServerTypeOK, ClientTyped, WireTyped
  <2>2. Stream' \in Seq(Frames)
    BY <2>1 DEF Stream
  <2>3. QED
    BY <2>2, StreamTyped
<1>5. SizesFrom(Stream, tag)
  BY DEF KnownAbove
<1>6. SUFFICES (fileVersion' = 0 \/ tag <= fileVersion') /\ SizesFrom(Stream', tag)
  BY <1>3 DEF KnownAbove, SizesFrom
<1>7. CASE Begins(Stream', Stream) /\ ~ReceiveAny
  <2>1. fileVersion' = fileVersion \/ fileVersion' = 0
    BY <1>7 DEF ReceiveAny, Next, RewriteFile, ServeRequest, OtherClientAsks, ServerStep,
       SendReply,
       BeginRead, LookUp, AskIndexedDB, IndexedDBAnswers, AllCached, FetchMissing, SendBatch,
       KeepAlive, SizeTimesOut, FetchTimesOut, RetryFetch, Reconnect, ReloadPage,
       RegisterAgain, clientVars,
       cacheVars
  <2>2. SizesFrom(Stream', tag)
    BY <1>2, <1>4, <1>5, <1>7, SizesPrefix
  <2>3. QED
    BY <2>1, <2>2 DEF KnownAbove
<1>8. CASE Stream' = Append(s2c, ErrorFrame) /\ UNCHANGED clientVars
  <2>1. SizesFrom(s2c, tag)
    BY <1>2, <1>4, <1>5, SizesPrefix
  <2>2. ErrorFrame \in Frames /\ ErrorFrame.type = "error"
    BY FramesAreFrames DEF ErrorFrame
  <2>3. SizesFrom(Append(s2c, ErrorFrame), tag)
    BY <1>4, <2>1, <2>2, SizesAppend
  <2>4. QED
    BY <1>8, <2>3 DEF clientVars, cacheVars, KnownAbove
<1>9. ASSUME NEW frame \in Frames,
             Emits(conn, frame), Stream' = Append(Stream, frame), UNCHANGED clientVars
      PROVE  (fileVersion' = 0 \/ tag <= fileVersion') /\ SizesFrom(Stream', tag)
  <2>1. frame.type = "size" => frame.image = asset[conn].version
    BY <1>9 DEF Emits, SizeFrame, ChunkFrame, DoneFrame
  <2>2. tag <= asset[conn].version /\ NoSizeAbove(Stream, asset[conn].version)
    BY <1>9, StreamBelow DEF Emits, KnownAbove
  <2>3. SizesFrom(Append(Stream, frame), tag)
    BY <1>4, <1>5, <2>1, <2>2, SizesAppend
  <2>4. QED
    BY <1>9, <2>3 DEF clientVars, cacheVars, KnownAbove
<1>10. CASE ReceiveAny /\ s2c # <<>> /\ Head(Stream) = Head(s2c) /\ Stream' = Tail(Stream)
  <2>1. \/ fileVersion' = fileVersion
        \/ Head(Stream).type = "size" /\ fileVersion' = Head(Stream).image
    BY <1>10 DEF ReceiveAny, ReceiveSize, ReceiveChunk, ReceiveDone, ReceiveError, Receive,
                 cacheVars
  <2>2. Stream # <<>>
    BY <1>4, <1>10 DEF Begins
  <2>3. SizesFrom(Tail(Stream), tag) /\ (Head(Stream).type = "size" => tag <= Head(Stream).image)
    BY <1>4, <1>5, <2>2, SizesTail
  <2>4. QED
    BY <1>10, <2>1, <2>3 DEF KnownAbove
<1>11. QED
  BY <1>7, <1>8, <1>9, <1>10, StreamStep

LEMMA CachedBeforeStep ==
  ASSUME ServerTypeOK, ClientTyped, ServerOrder, ~AllowRollback, ClientOrder, VersionsInOrder,
         CachedBefore, [Next]_vars
  PROVE  CachedBefore'
<1>1. ClientTyped'
  BY TypeStep
<1>2. CASE UNCHANGED vars
  BY <1>2 DEF vars, clientVars, cacheVars, readVars, serverVars, CachedBefore, UsedTag,
              KnownAbove, SizesFrom, Stream
<1>3. ASSUME Next, NEW tag \in Images, UsedTag(tag)'
      PROVE  KnownAbove(tag)'
  <2>1. KnownAbove(tag)
    BY <1>1, <1>3, TagsUsed, KnownNow DEF CachedBefore
  <2>2. QED
    BY <1>3, <2>1, KnownAboveStep
<1>4. QED
  BY <1>2, <1>3 DEF CachedBefore

-----------------------------------------------------------------------------
\* The inductive invariant.
CacheInv ==
  /\ ServerTypeOK /\ ClientTyped
  /\ ServerOrder /\ RepliesComplete
  /\ ClientOrder /\ NeverOlder /\ FoundFits
  /\ BytesInOrder /\ VersionsInOrder /\ DonesInOrder
  /\ ReadOnTrack /\ CachedBefore

LEMMA CacheInvInit == Init => CacheInv
<1> SUFFICES ASSUME Init
             PROVE  CacheInv
  OBVIOUS
<1>1. ServerTypeOK /\ ClientTyped /\ ServerOrder /\ RepliesComplete
  BY ClientInitTyped, ServerInitTyped, ServerInitOrdered, ServerInitComplete DEF Init
<1>2. ClientOrder
  BY DEF Init, ServerInit, FirstAsset, ClientOrder, WireOrdered, TaskAhead, NoSizeAbove,
         ChunksWithin, InOrder
<1>3. NeverOlder /\ FoundFits
  BY DEF Init, Empty, NotFound, NeverOlder, FitsTags, FoundFits
<1>4. Stream = <<>>
  <2>1. s2c = <<>> /\ reply[conn] = <<>>
    BY DEF Init, ServerInit
  <2>2. QED
    BY <2>1 DEF Stream
<1>5. BytesInOrder
  <2>1. Freshest(conn) \in Nat
    BY <1>1, ConstantsTyped, AssetFields DEF ClientTyped, WireTyped, ServerTypeOK,
       Freshest, Source
  <2>2. CacheWithin(idb, Freshest(conn))
    BY <2>1 DEF Init, Empty, CacheWithin
  <2>3. QED
    BY <1>4, <2>2 DEF BytesInOrder, BytesOrdered
<1>6. VersionsInOrder /\ DonesInOrder
  BY <1>4 DEF VersionsInOrder, SizesFrom, DonesInOrder, DonesCovered
<1>7. ReadOnTrack
  BY DEF Init, ReadOnTrack, ReadStarts, ReadBehind, Reading, LookedAt, StillAwaited
<1>8. CachedBefore
  <2>1. \A tag \in Images, i \in Chunks : chunkCache[tag][i] = 0 /\ idb[tag][i] = 0
    BY DEF Init, Empty
  <2>2. QED
    BY <2>1 DEF Init, NotFound, CachedBefore, UsedTag
<1>9. QED
  BY <1>1, <1>2, <1>3, <1>5, <1>6, <1>7, <1>8 DEF CacheInv

LEMMA CacheInvStep ==
  ASSUME ~AllowRollback, CacheInv, [Next]_vars
  PROVE  CacheInv'
<1>1. CacheTypeOK /\ ServerTypeOK' /\ ClientTyped'
  BY TypeStep DEF CacheInv
<1>2. ServerOrder' /\ RepliesComplete'
  <2>1. CASE ServerAction
    BY <1>1, <2>1, ServerOrderStep, RepliesCompleteStep DEF CacheInv
  <2>2. CASE UNCHANGED serverVars
    BY <2>2 DEF CacheInv, serverVars, ServerOrder, AssetsOrdered, EntryOrdered, AssetOrdered,
                BuildOrdered, RepliesFit, ReplyFits, FrameFits, RepliesComplete, ServedUpTo
  <2>3. QED
    BY <1>1, <2>1, <2>2, NextIsServerAction
<1>3. ClientOrder' /\ NeverOlder' /\ FoundFits'
  BY OrderStep, NeverOlderStep, FoundFitsStep DEF CacheInv
<1>4. BytesInOrder' /\ VersionsInOrder' /\ DonesInOrder'
  BY BytesInOrderStep, VersionsInOrderStep, DonesInOrderStep DEF CacheInv
<1>5. ReadOnTrack' /\ CachedBefore'
  BY ReadOnTrackStep, CachedBeforeStep DEF CacheInv
<1>6. QED
  BY <1>1, <1>2, <1>3, <1>4, <1>5 DEF CacheInv

\* Whatever is filed under a version is at least as new as that version and
\* never newer than the file: late answers, lost connections and page loads
\* cannot file old bytes under a new version.
THEOREM NothingFiledTooOld ==
  ASSUME ~AllowRollback
  PROVE  Spec => []NeverOlder
<1>1. CacheInv /\ [Next]_vars => CacheInv'
  BY CacheInvStep
<1>2. CacheInv => NeverOlder
  BY DEF CacheInv
<1>3. QED
  BY CacheInvInit, <1>1, <1>2, PTL DEF Spec

\* A chunk cached under the version the file has now holds the bytes the file
\* has now, in memory and in IndexedDB: getChunkCacheKey keeps its promise.
THEOREM CachedIsCurrent ==
  ASSUME ~AllowRollback
  PROVE  Spec => []FreshWhenCurrent
<1>1. CacheInv /\ [Next]_vars => CacheInv'
  BY CacheInvStep
<1>2. CacheInv => FreshWhenCurrent
  <2> SUFFICES ASSUME CacheInv, NEW i \in Chunks
               PROVE  {chunkCache[disk][i], idb[disk][i]} \subseteq {0, disk}
    BY DEF FreshWhenCurrent
  <2>1. disk \in Images /\ disk \in Nat
    BY DEF CacheInv, ServerTypeOK, Images
  <2>2. chunkCache[disk][i] \in Nat /\ idb[disk][i] \in Nat
    BY <2>1 DEF CacheInv, ClientTyped, CachesTyped, Tags
  <2>3. /\ chunkCache[disk][i] # 0 => disk <= chunkCache[disk][i] /\ chunkCache[disk][i] <= disk
        /\ idb[disk][i] # 0 => disk <= idb[disk][i] /\ idb[disk][i] <= disk
    BY <2>1 DEF CacheInv, NeverOlder, FitsTags
  <2>4. QED
    BY <2>1, <2>2, <2>3
<1>3. QED
  BY CacheInvInit, <1>1, <1>2, PTL DEF Spec

\* Nothing is cached under a version newer than the one the client works with:
\* late answers, a new connection, a page load and a second registration of
\* the file never make it learn an older version than it, or the page before
\* it, knew when it filed a chunk.
THEOREM VersionAboveCache ==
  ASSUME ~AllowRollback
  PROVE  Spec => []NotBehindItsCache
<1>1. CacheInv /\ [Next]_vars => CacheInv'
  BY CacheInvStep
<1>2. CacheInv => NotBehindItsCache
  BY DEF CacheInv, CachedBefore, UsedTag, KnownAbove, NotBehindItsCache
<1>3. QED
  BY CacheInvInit, <1>1, <1>2, PTL DEF Spec

\* The server's entry and every asset still in use never run ahead of the
\* file, and their data are at least as new as the version they announce.
THEOREM EntryBehindDisk == Spec => []EntryWithinDisk
<1>1. CASE AllowRollback
  <2>1. EntryWithinDisk
    BY <1>1 DEF EntryWithinDisk
  <2>2. QED
    BY <2>1, PTL
<1>2. CASE ~AllowRollback
  <2>1. CacheInv /\ [Next]_vars => CacheInv'
    BY <1>2, CacheInvStep
  <2>2. CacheInv => EntryWithinDisk
    BY DEF CacheInv, ServerOrder, AssetsOrdered, EntryOrdered, AssetOrdered, EntryWithinDisk
  <2>3. QED
    BY CacheInvInit, <2>1, <2>2, PTL DEF Spec
<1>3. QED
  BY <1>1, <1>2

\* No race of rebuilding tasks moves the entry back to an older image.
THEOREM EntryAdvances == Spec => EntryNeverRegresses
<1>1. CASE AllowRollback
  <2>1. [~AllowRollback => entry'.version >= entry.version /\ entry'.data >= entry.data]_serverVars
    BY <1>1
  <2>2. QED
    BY <2>1, PTL DEF EntryNeverRegresses
<1>2. CASE ~AllowRollback
  <2>1. CacheInv /\ [Next]_vars => CacheInv'
    BY <1>2, CacheInvStep
  <2>2. CacheInv /\ [Next]_vars =>
           [~AllowRollback => entry'.version >= entry.version /\ entry'.data >= entry.data]_serverVars
    <3> SUFFICES ASSUME CacheInv, [Next]_vars, ~UNCHANGED serverVars
                 PROVE  entry'.version >= entry.version /\ entry'.data >= entry.data
      OBVIOUS
    <3>1. ServerTypeOK /\ ServerTypeOK' /\ AssetsOrdered /\ ServerAction
      BY TypeStep, NextIsServerAction DEF CacheInv, ServerOrder
    <3>2. /\ entry.version \in Nat /\ entry'.version \in Nat
          /\ entry.data \in Nat /\ entry'.data \in Nat
      BY <3>1, AssetFields DEF ServerTypeOK
    <3>3. QED
      BY <1>2, <3>1, <3>2, ServerOnlyAdvances
  <2>3. QED
    BY CacheInvInit, <2>1, <2>2, PTL DEF Spec, EntryNeverRegresses
<1>3. QED
  BY <1>1, <1>2

\* A chunk never replaces newer bytes in IndexedDB, under any version, over
\* lost connections, page loads and second registrations: handleBinaryChunk
\* may file whatever arrives.
THEOREM CacheOnlyAdvances ==
  ASSUME ~AllowRollback
  PROVE  Spec => CacheNeverGoesBack
<1>1. CacheInv /\ [Next]_vars => CacheInv'
  BY CacheInvStep
<1>2. CacheInv /\ [Next]_vars =>
         [\A tag \in Images, i \in Chunks : idb'[tag][i] >= idb[tag][i]]_vars
  <2> SUFFICES ASSUME CacheInv, Next
               PROVE  \A tag \in Images, i \in Chunks : idb'[tag][i] >= idb[tag][i]
    OBVIOUS
  <2>1. CASE ReceiveChunk
    BY <2>1, FiledForward DEF CacheInv
  <2>2. CASE ~ReceiveChunk
    <3>1. idb' = idb
      BY <2>2, OnlyChunksFiled
    <3>2. \A tag \in Images, i \in Chunks : idb[tag][i] \in Nat
      BY DEF CacheInv, ClientTyped, CachesTyped, Tags
    <3>3. QED
      BY <3>1, <3>2
  <2>3. QED
    BY <2>1, <2>2
<1>3. QED
  BY CacheInvInit, <1>1, <1>2, PTL DEF Spec, CacheNeverGoesBack

\* readFileData comes back incomplete only when the file changed under it or
\* a batch went unanswered: between its look-ups, the frames that arrive for
\* others meanwhile and the ends of its batches no chunk is lost.
THEOREM AnsweredReadsAreComplete ==
  ASSUME ~AllowRollback
  PROVE  Spec => IncompleteOnlyIfChanged
<1> DEFINE Complete ==
             /\ ReadAnswered /\ lookedUp = fileVersion /\ fileVersion = disk
             /\ \A i \in want[1] .. want[2] : i < SizeOf[disk]
             => Assembled(chunkCache, fileVersion)
<1>1. CacheInv /\ [Next]_vars => CacheInv'
  BY CacheInvStep
<1>2. ASSUME CacheInv, ReadAnswered, lookedUp = fileVersion, fileVersion = disk,
             NEW i \in want[1] .. want[2], i < SizeOf[disk]
      PROVE  chunkCache[fileVersion][i] # 0
  <2>1. i \in Chunks /\ i \in Nat /\ at \in Nat /\ want[2] \in Nat
    BY <1>2, RangesTyped DEF CacheInv, ClientTyped, ReadTyped
  <2>2. CASE AllCached
    BY <1>2, <2>1, <2>2 DEF AllCached, CacheInv, ReadOnTrack, Reading, LookedAt
  <2>3. CASE ReceiveDone /\ reader = "fetch" /\ reader' = "idle"
    <3>1. awaited = {<<Head(s2c).index, Head(s2c).last>>}
      BY <2>3 DEF ReceiveDone
    <3>2. CASE \E b \in awaited : i \in b[1] .. b[2]
      <4>1. Head(s2c).index \in Nat /\ Head(s2c).last \in Nat
        BY <1>2, <2>3, HeadTyped DEF ReceiveDone, Receive, CacheInv, ClientTyped, Frames
      <4>2. Head(s2c).index <= i /\ i <= Head(s2c).last
        <5>1. PICK b \in awaited : i \in b[1] .. b[2]
          BY <3>2
        <5>2. b = <<Head(s2c).index, Head(s2c).last>>
          BY <3>1
        <5>3. i \in Head(s2c).index .. Head(s2c).last
          BY <5>1, <5>2
        <5>4. QED
          BY <2>1, <4>1, <5>3
      <4>3. QED
        BY <1>2, <2>1, <2>3, <4>2, BatchCached DEF CacheInv
    <3>3. CASE ~\E b \in awaited : i \in b[1] .. b[2]
      BY <1>2, <2>3, <3>3 DEF CacheInv, ReadOnTrack, StillAwaited
    <3>4. QED
      BY <3>2, <3>3
  <2>4. QED
    BY <1>2, <2>2, <2>3 DEF ReadAnswered
<1>3. CacheInv => Complete
  BY <1>2 DEF Assembled
<1>4. QED
  BY CacheInvInit, <1>1, <1>3, PTL DEF Spec, IncompleteOnlyIfChanged
=============================================================================
