--------------------------- MODULE BitmapLoading ---------------------------
(****************************************************************************)
(* How textures get into the atlas without blocking the main loop           *)
(* (GraphicsGL::queuebitmap, preparebitmaps), and the gate that holds a map *)
(* back until its bitmaps are there (Stage::begin_loading, update_loading,  *)
(* retry_loading over map_asset_gate), on top of the prefetches of LazyFS.  *)
(*                                                                          *)
(* A bitmap is the file range of its data. Drawing goes on while a map is   *)
(* loading or the interface is blocked, and the cash shop prepares the      *)
(* looks it shows as MAP_REQUIRED, so bitmaps may be queued with any of     *)
(* their classes at any time.                                               *)
(****************************************************************************)
EXTENDS LazyFSPrefetch

CONSTANTS
  Uses,       \* the load classes that every bitmap is queued with
  MaxMishaps  \* bound: failures of the connection, batches that time out,
              \* chunks others fetch, bitmaps whose data cannot be had,
              \* overflows of the atlas

Classes == {"BACKGROUND", "MAP_REQUIRED", "BLOCKING_VISIBLE", "TRANSIENT_EFFECT"}

ASSUME LoadingAssumption ==
  /\ Uses \in [Ranges -> SUBSET Classes]
  /\ MaxMishaps \in Nat

VARIABLES
  lane,      \* [Ranges -> "none", or the deque of pending bitmaps it is in]
  blocking,  \* pending_blocking_bitmap_ids
  offsets,   \* bitmaps in the atlas
  quiet,     \* history: the pending ones that MAP_REQUIRED made urgent
  loading,   \* Stage::state is LOADING
  batch,     \* bitmaps of the batch: all of them, and the required ones
  stable,    \* the batch has not grown for STABLE_WINDOW_MS
  shown,     \* the progress the gate has last seen, once it has failed
  overlay,   \* the map's entry in the loading overlay; "failed" is also
             \* asset_gate.failed
  mishaps

bitmapVars == <<lane, blocking, offsets, quiet>>
gateVars == <<loading, batch, stable, shown, overlay>>
loadingVars == <<bitmapVars, gateVars, mishaps>>
vars == <<prefetchVars, loadingVars>>

NoBatch == [bitmaps |-> {}, required |-> {}]
NoProgress == [resident |-> 0, total |-> 0, prepared |-> 0, required |-> 0]

Init ==
  /\ PrefetchInit
  /\ lane = [b \in Ranges |-> "none"]
  /\ blocking = {}
  /\ offsets = {}
  /\ quiet = {}
  /\ loading = FALSE
  /\ batch = NoBatch
  /\ stable = FALSE
  /\ shown = NoProgress
  /\ overlay = "none"
  /\ mishaps = 0

Mishap == mishaps < MaxMishaps /\ mishaps' = mishaps + 1

-----------------------------------------------------------------------------
IsPriority(class) == class # "BACKGROUND"
IsMapRequired(class) == class \in {"MAP_REQUIRED", "BLOCKING_VISIBLE"}

(* addtobitmapbatch: a batch exists while a map is loading. *)
AddToBatch(b, class) ==
  LET grown == [bitmaps |-> batch.bitmaps \cup {b},
                required |-> batch.required \cup
                               (IF IsMapRequired(class) THEN {b} ELSE {})]
  IN IF loading
     THEN /\ batch' = grown
          /\ stable' = (stable /\ grown = batch)
     ELSE UNCHANGED <<batch, stable>>

(* fetch_pending_bitmap: a prefetch that is refused is only logged. *)
Fetch(b, class) ==
  CASE class = "BLOCKING_VISIBLE"
         -> RequestForeground(b) /\ UNCHANGED <<pool, inFlight, priority>>
    [] class = "TRANSIENT_EFFECT" -> RequestPriority(b)
    [] OTHER -> PrefetchFileRange(b) /\ UNCHANGED <<foreground, priority>>

(* The prefetch of a bitmap that MAP_REQUIRED makes urgent tells nobody.       *)
Quieted(b, class) == IF class = "MAP_REQUIRED" THEN quiet \cup {b} ELSE quiet \ {b}

QueueBitmap_Fault(b, class) ==
  /\ AddToBatch(b, class)
  /\ blocking' = IF class = "BLOCKING_VISIBLE" /\ b \notin offsets /\ ~Resident(b)
                 THEN blocking \cup {b} ELSE blocking
  /\ IF b \notin offsets /\ lane[b] = "none"
     THEN /\ lane' = [lane EXCEPT ![b] =
               IF IsPriority(class) THEN "priority" ELSE "normal"]
          /\ quiet' = Quieted(b, class)
          /\ Fetch(b, class)
     ELSE UNCHANGED <<lane, quiet, pool, inFlight, foreground, priority>>

(* queuebitmap: one fetch when the bitmap becomes pending, and one more when  *)
(* it changes to the priority lane.                                           *)
QueueBitmap(b, class) ==
  /\ AddToBatch(b, class)
  /\ IF b \in offsets
     THEN UNCHANGED <<lane, blocking, quiet, pool, inFlight, foreground, priority>>
     ELSE /\ blocking' = IF class = "BLOCKING_VISIBLE" /\ ~Resident(b)
                         THEN blocking \cup {b} ELSE blocking
          /\ IF lane[b] = "none" \/ (lane[b] = "normal" /\ IsPriority(class))
             THEN /\ lane' = [lane EXCEPT ![b] =
                       IF IsPriority(class) THEN "priority" ELSE "normal"]
                  /\ quiet' = Quieted(b, class)
                  /\ Fetch(b, class)
             ELSE UNCHANGED <<lane, quiet, pool, inFlight, foreground, priority>>

Queue(b, class) ==
  /\ QueueBitmap(b, class)
  /\ UNCHANGED <<terminalConnectionFailure, taskVars, chunkCache, offsets, loading,
                 shown, overlay, mishaps>>

(* preparebitmaps: a bitmap whose data is there goes to the atlas; the normal *)
(* lane waits until nothing is pending in the priority lane.                  *)
Prepares(b) ==
  /\ \/ lane[b] = "priority"
     \/ lane[b] = "normal" /\ \A q \in Ranges : lane[q] # "priority"
  /\ b \in offsets \/ Resident(b)
  /\ lane' = [lane EXCEPT ![b] = "none"]
  /\ blocking' = blocking \ {b}
  /\ quiet' = quiet \ {b}
  /\ UNCHANGED <<prefetchVars, gateVars>>

PrepareBitmap(b) ==
  /\ Prepares(b)
  /\ offsets' = offsets \cup {b}
  /\ UNCHANGED mishaps

(* getoffset finds the atlas full and empties it first, or gets no data and     *)
(* stores nothing; the bitmap is no longer pending all the same.                *)
PrepareGoesWrong(b) ==
  /\ Prepares(b) /\ b \notin offsets
  /\ offsets' \in {{b}, offsets}
  /\ Mishap

-----------------------------------------------------------------------------
(* Stage::clear, when a player leaves a map: one that is still loading is given *)
(* up. What it has queued stays pending.                                        *)
NoLoading ==
  /\ loading' = FALSE
  /\ batch' = NoBatch
  /\ stable' = FALSE
  /\ shown' = NoProgress
  /\ overlay' = "none"

Clear ==
  /\ loading
  /\ NoLoading
  /\ UNCHANGED <<prefetchVars, bitmapVars, mishaps>>

(* The end of the fade: the atlas is emptied if it is nearly full, then         *)
(* Stage::load begins to load, and the bitmaps of the map are queued. The fade  *)
(* began with Clear, so no map is loading.                                      *)
Load ==
  /\ ~loading
  /\ \/ UNCHANGED <<offsets, mishaps>>
     \/ Mishap /\ offsets' = {}
  /\ loading' = TRUE
  /\ batch' = NoBatch
  /\ stable' = FALSE
  /\ shown' = NoProgress
  /\ overlay' = "loading"
  /\ UNCHANGED <<prefetchVars, lane, blocking, quiet>>

(* bitmapbatchprogress *)
Progress ==
  [resident |-> Cardinality({b \in batch.bitmaps : Resident(b)}),
   total |-> Cardinality(batch.bitmaps),
   prepared |-> Cardinality(batch.required \cap offsets),
   required |-> Cardinality(batch.required)]

Ready == /\ Progress.resident = Progress.total
         /\ Progress.prepared = Progress.required
         /\ stable

(* update_loading in a frame; late says that nothing has changed for           *)
(* STALL_TIMEOUT_MS, this frame included. After a failure, progress shows the   *)
(* map as loading again.                                                        *)
UpdateLoading(late) ==
  /\ loading
  /\ IF Ready THEN NoLoading
     ELSE /\ overlay' = IF overlay = "failed" /\ shown # Progress THEN "loading"
                        ELSE IF late THEN "failed" ELSE overlay
          /\ shown' = IF overlay' = "failed" THEN Progress ELSE NoProgress
          /\ UNCHANGED <<loading, batch, stable>>
  /\ UNCHANGED <<prefetchVars, bitmapVars, mishaps>>

StableWindow ==
  /\ loading
  /\ stable' = TRUE
  /\ UNCHANGED <<prefetchVars, bitmapVars, loading, batch, shown, overlay, mishaps>>

-----------------------------------------------------------------------------
(* retrybitmapbatch queues the prefetches of the bitmaps that are missing, in   *)
(* any order, joins those in flight, and what is required but not yet in the    *)
(* atlas moves to the priority lane.                                            *)
Missing == {b \in batch.bitmaps : ~Resident(b)}

RetryBatch ==
  /\ LET refetched == Missing \ inFlight IN
     /\ \E order \in [1 .. Cardinality(refetched) -> refetched] :
          /\ \A i, j \in DOMAIN order : order[i] = order[j] => i = j
          /\ pool' = Drain([pool EXCEPT !.queue = @ \o order])
     /\ inFlight' = inFlight \cup refetched
  /\ lane' = [b \in Ranges |-> IF b \in batch.required \ (Missing \cup offsets)
                               THEN "priority" ELSE lane[b]]
  /\ overlay' = "loading"
  /\ shown' = NoProgress

Retry_Fault ==
  /\ overlay = "failed" \/ \E r \in Ranges : foreground[r] = "failed"
  /\ terminalConnectionFailure' = FALSE
  /\ foreground' = [r \in Ranges |->
       IF foreground[r] = "failed" THEN "starting" ELSE foreground[r]]
  /\ overlay' = IF overlay = "failed" THEN "loading" ELSE overlay
  /\ shown' = NoProgress
  /\ UNCHANGED <<pool, inFlight, taskVars, chunkCache, priority, bitmapVars, loading,
                 batch, stable, mishaps>>

(* The player presses the retry button of the overlay: every foreground       *)
(* request that failed begins again, and the map retries its batch.            *)
Retry ==
  /\ overlay = "failed" \/ \E r \in Ranges : foreground[r] = "failed"
  /\ terminalConnectionFailure' = FALSE
  /\ foreground' = [r \in Ranges |->
       IF \/ foreground[r] = "failed"
          \/ /\ overlay = "failed" /\ foreground[r] = "none"
             /\ r \in batch.required \cap Missing
       THEN "starting" ELSE foreground[r]]
  /\ IF overlay = "failed" THEN RetryBatch
     ELSE UNCHANGED <<pool, inFlight, lane, overlay, shown>>
  /\ UNCHANGED <<taskVars, chunkCache, priority, blocking, offsets, quiet, loading,
                 batch, stable, mishaps>>

Fails ==
  /\ Mishap
  /\ ConnectionFails \/ \E r \in Ranges : BatchTimesOut(r)
  /\ UNCHANGED <<bitmapVars, gateVars>>

Chunks == UNION {First[r] .. Last[r] : r \in Ranges}

OtherReads ==
  /\ Mishap
  /\ \E chunk \in Chunks : OtherChunk(chunk)
  /\ UNCHANGED <<bitmapVars, gateVars>>

-----------------------------------------------------------------------------
(* What runs by itself: continuations first, then events of the browser, and   *)
(* the work of a frame on its pending bitmaps.                                  *)
Advance ==
  \E r \in Ranges :
    \/ Continue(r) /\ UNCHANGED loadingVars
    \/ ~Microtask /\ Event(r) /\ UNCHANGED loadingVars
    \/ ~Microtask /\ PrepareBitmap(r)

Next ==
  \/ \E b \in Ranges : \E class \in Uses[b] : Queue(b, class)
  \/ Advance
  \/ /\ ~Microtask
     /\ \/ \E late \in BOOLEAN : UpdateLoading(late)
        \/ \E b \in Ranges : PrepareGoesWrong(b)
        \/ StableWindow \/ Clear \/ Load \/ Retry \/ Fails \/ OtherReads

Spec == Init /\ [][Next]_vars

(* The browser and the server do what is due, frames are drawn, time passes,   *)
(* and the player presses the retry button when it is offered.                 *)
FairSpec ==
  /\ Spec
  /\ WF_vars(Advance)
  /\ WF_vars(~Microtask /\ UpdateLoading(TRUE))
  /\ WF_vars(~Microtask /\ StableWindow)
  /\ WF_vars(~Microtask /\ Retry)

-----------------------------------------------------------------------------
(* Types of the prefetch queue, the pending bitmaps and the gate. *)
LoadingTypeOK ==
  /\ terminalConnectionFailure \in BOOLEAN
  /\ pool \in [queue : Seq(Ranges), active : Nat, running : SUBSET Ranges]
  /\ inFlight \subseteq Ranges
  /\ phase \in [Ranges -> {"starting", "lookup", "fetching", "rejected", "yielding"}]
  /\ at \in [Ranges -> Nat]
  /\ chunkCache \subseteq Nat
  /\ foreground \in [Ranges -> {"none", "starting", "loading", "failed"}]
  /\ priority \subseteq Ranges
  /\ lane \in [Ranges -> {"none", "normal", "priority"}]
  /\ blocking \subseteq Ranges
  /\ offsets \subseteq Ranges
  /\ quiet \subseteq Ranges
  /\ loading \in BOOLEAN
  /\ batch \in [bitmaps : SUBSET Ranges, required : SUBSET Ranges]
  /\ stable \in BOOLEAN
  /\ shown \in [resident : Nat, total : Nat, prepared : Nat, required : Nat]
  /\ overlay \in {"none", "loading", "failed"}
  /\ mishaps \in 0 .. MaxMishaps

(* No prefetch is forgotten: every promise that is handed out belongs to a     *)
(* task that is queued, once, or runs, so that it is settled in the end; a     *)
(* terminal failure leaves none in the queue.                                  *)
NoLostPrefetch ==
  /\ inFlight = Queued(pool) \cup pool.running
  /\ Queued(pool) \cap pool.running = {}
  /\ \A i, j \in DOMAIN pool.queue : pool.queue[i] = pool.queue[j] => i = j
  /\ terminalConnectionFailure => pool.queue = <<>>

(* Slots are neither leaked nor freed twice, though tasks start above the cap, *)
(* fail and are rejected from the queue; and none is left free while a         *)
(* prefetch is queued, so that the queue is always drained.                    *)
SlotsAccounted ==
  /\ pool.active = Cardinality(pool.running)
  /\ pool.queue # <<>> => pool.active >= MAX_CONCURRENT_PREFETCHES

(* An overlay that says "loading", or a priority request, waits for a prefetch *)
(* that is on its way: it never waits for nothing.                             *)
WaitersAreServed ==
  \A r \in Ranges : foreground[r] = "loading" \/ r \in priority => r \in inFlight

(* Nothing brings the data of the bitmap, and no button would ask for it. *)
Stranded(b) ==
  ~Resident(b) /\ b \notin inFlight /\ foreground[b] \notin {"starting", "failed"}

(* A bitmap that blocks the game is there, on its way, or offers a retry ("a   *)
(* failed BLOCKING_VISIBLE still gets the overlay and the retry button"), if   *)
(* need be through the gate of the map that requires it.                       *)
BlockedOffersRetry ==
  \A b \in blocking : Stranded(b) => loading /\ b \in batch.required

(* What becomes of the above in this code: only a bitmap that was urgent       *)
(* before it blocked, by a MAP_REQUIRED prefetch whose failure nobody hears    *)
(* of, may block the game with nothing on its way and no retry. Every other    *)
(* one, a priority request that was refused included, is there, on its way or  *)
(* offers a retry by itself, whether a map is loading or has been given up.    *)
OnlyQuietOnesStrand == \A b \in blocking : Stranded(b) => b \in quiet

(* The condition under which a frame updates neither the interface nor, unless *)
(* a map is loading, the stage, but for bitmaps that are stranded.             *)
Waits ==
  \/ \E b \in blocking : ~Stranded(b)
  \/ overlay # "none"
  \/ \E r \in Ranges : foreground[r] # "none"

(* Waiting for assets ends, though maps are given up and loaded anew, the      *)
(* connection fails, batches time out and bitmaps leave the atlas: again and   *)
(* again nothing blocks the game, except bitmaps that are stranded.            *)
WaitingEnds == []<>~Waits
=============================================================================
