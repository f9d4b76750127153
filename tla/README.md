# A specification of the MapleStory WASM client's asset pipeline and game link

This directory holds TLA+ modules, TLC configurations and TLAPS proofs about the
program in this repository: a C++ game client compiled to WebAssembly, and the three
Rust services and the desktop shell around it. They treat the two parts on which
everything else waits and in which the most parties run concurrently.

* **Assets.** A read of an NX file in C++ suspends the wasm stack, becomes requests
  on a WebSocket that may be lost, is answered by a server whose file may be
  rewritten meanwhile, and ends in caches that outlive the page. Textures are
  fetched in the background, and a map is held back until its own are there.
* **The game link.** Packets of a game server pass a proxy, a WebSocket and a cipher
  whose keys change when a packet handler replaces the connection in the middle of
  the bytes it was handed.

Paths below are relative to `src/`; `LazyFS/` is `src/client/LazyFS/`.

## 1. The system

| component | state it keeps | operations | hard behaviour | what makes it correct |
|---|---|---|---|---|
| **LazyFS connection** `LazyFS/lazyfs_connection.js` | the socket, connected flag, the one attempt under way and its attempt number, connection generation, terminal failure, keep-alive timer, table of pending requests with a timer each | `connect`, `connectWithRetry`, `openSocket` and its four handlers, `request`, `sendPendingRequest`, replay, settle, `failConnection`, reset by a foreground retry, `beforeunload` | handlers and promise jobs interleave; sockets close with requests pending; late answers of timed-out requests; several send thunks for one request | each promise settles once and is never forgotten, each request is sent exactly once per connection, an attempt ends, terminal failure leaves nothing behind |
| **LazyFS chunk caches and reads** `LazyFS/lazyfs.js` | per file: size, version, chunks in memory and in IndexedDB under the version tag | `registerFile`, `getFileSize`, `readFileData`, `fetchChunks`, `handleMessage`, `handleBinaryChunk` | awaits between look-ups; frames without versions; the file changes under a read; page loads | nothing stale is kept under the present version, a complete answer is found again by the read that asked for it |
| **Assets server** `assets-server/src` | a shared cache entry per file (size, version, optionally data) behind an `RwLock` | `get` (clone, stale check, rebuild), `get_size`, `get_chunks`, connection loop | three separate lock acquisitions; the file is replaced between them and within a rebuild; disk and memory mode | answers are current, racing rebuilds never move back, nobody waits for ever or panics |
| **Asyncify trampolines** `LazyFS/LazyFileBackend.cpp`, `LazyFS/LazyFS.cpp` | Asyncify's one rewind buffer and state, `pendingSyncRead`, open backends | `open`, `fetch_data`, `RegisterFile`, the bail-out of a failed wake-up | code after `handleSleep` runs in both passes; the replay must re-enter the call that suspended | one stack suspended at a time, each rewind stops where it must |
| **LazyFS prefetch** (queue in `lazyfs.js`) and boot warm-up `LazyFS/lazyfs_warmup.js` | queue, active count, deduplication maps, foreground requests that failed | prefetch, promotion by a foreground or priority request, drain, failure of the queue, retry | promotion above the cap; a request joins a task in flight; failure while tasks sit at an await | count returns, queue drains, each promise settles, nobody waits for nothing |
| LazyFileLoader `LazyFS/LazyFileLoader.cpp` | LRU of chunks, FIFO of stitched ranges, read offset | `get_ptr`, seek/read, eviction | callers retain pointers over evictions and suspensions | retained pointers stay valid as long as promised |
| Main loop and input callbacks `src/client/Journey.cpp`, `IO/Window.cpp` | tick-in-flight flag, accumulator | `main_tick`, key/mouse/focus callbacks | frames and input events arrive while a tick is parked | ticks never overlap |
| NX file opening `Util/NxFiles.cpp`, `src/nlnx` | open files | register all, open all | second registration forgets the size | boot ends or fails visibly |
| **Game socket** `Net/SockInternal.cpp`, `SocketWinsock.cpp` | socket instances with buffered bytes, manual-close marks | connect, send, recv (sleeping polls), close | `onclose` erases buffered bytes; instance erased over a sleep | bytes in order, one socket open |
| **Game session** `Net/Session.cpp`, `Cryptography.cpp`, `PacketSwitch.cpp` | packet buffer, keys, `connection_changed` | read, process, forward, reconnect, disconnect | reconnect from within a handler; framing over arbitrary reads; a logout between two frames | no packet lost, duplicated or decoded with the wrong key, by either side |
| **WebSocket proxy** `ws-proxy/src` | per session: two sockets, last-seen deadline | target frame, dial, select loop, liveness tick, teardown | an awaited send blocks the tick; half-open peers | both directions end together, last words are delivered, dead peers reclaimed |
| **Stage and map-loading gate** `Gameplay/Stage*.cpp`, `Loading/MapAssetGate.h` | loading phase, batch and its revision, stability and stall timers | load, progress, retry | late assets and new revisions race with both timers | a map opens when its textures are stable; a stall is offered for retry; waiting ends |
| Map drops and pet loot `MapleMap/MapDrops.cpp`, `Pet/PetAutomation.cpp` | drops, queued spawns, remembered removals | spawn, remove, loot | removals overtake spawns | a removed drop never appears, a new one always does |
| Player trade window `IO/Trade/UITrade.cpp` | offers, confirmations, dialog | offer, confirm, cancel, peer's packets | dialogs outlive the state they were opened in | no offer after a confirmation |
| Cash shop `IO/CashShop` | one pending operation and its deadline | start, settle, time out | late replies matched by opcode | a reply settles its own operation |
| Login and character list `Net/Login`, `IO/CharacterSelect` | transition, recovery | packets and recovery timers | lost answers, retries | the list is shown once |
| Character, inventory, stats `Character/` | mirror of the game server | assignments from packets | – | not protocol-bearing |
| Physics, combat, mobs `Gameplay/` | floating-point simulation | per-tick updates | numeric | – |
| Graphics, audio, UI; of it the **texture queue** `Graphics/GraphicsGL*.cpp` and the loading overlay of `web/index.html` | atlas, two lanes of pending bitmaps, bitmaps that block the game, batches | queue, prepare, retry, clear | a bitmap is asked for once while several classes of use wait for it | what blocks the game loads or offers a retry |
| Web server `web-server/src` | none | serve a file | – | stateless |
| Desktop shell `desktop/main` | child services, ports | start, stop, failing start | partial start | no service left behind |

How they interact. C++ calls `LazyFileBackend` (an `EM_ASM` trampoline), which asks
`LazyFS.readCachedSync` and, on a miss, suspends through Asyncify and awaits
`readFileData`; that looks into the caches and calls `request()` of the connection
for the batches that are missing; the connection exchanges JSON requests and binary
chunk frames with the assets server; each frame is filed by `handleBinaryChunk`,
each answer settles a pending request, which wakes the suspended stack. The main
loop and the browser's input callbacks enter the same wasm instance. Drawing asks
for bitmaps (`GraphicsGL::queuebitmap`), which become prefetched, priority or
foreground ranges of LazyFS by their load class; a map that loads counts them in a
batch, and the overlay blocks the game until they are there. Game traffic takes
another way: `Session` over `SockInternal` over a WebSocket to `ws-proxy`, which
speaks TCP to a game server that is not here. Packet handlers run inside
`Session::process` and may call back into `Session`.

`PROJECT.json` lists, under `hazards`, what can go wrong in this code that a unit
test hardly reaches, each with its line and the property that would notice.

## 2. The modules and the code

Each module names its bounds as CONSTANTS with an `ASSUME`. Names follow the source.
An operator `X_Fault` is the operator `X` with a plausible slip (a dropped guard, a
missing reset, an off-by-one); no specification uses one. Substituting it for `X`
must make a run fail, which is how each property was seen to bite.

**LazyFSConnection** (`lazyfs_connection.js`, all state-changing operations). The
browser runs one event handler, then drains the promise jobs. An action is one
handler up to the first job it queues; `SendJob(k)` is the continuation of
`sendPendingRequest` after `await this.connect()`, and every handler is guarded by
`JobsDone`. `loop`/`attempt` are the position in `connectWithRetry`; `waiters` are
send thunks chained on `connectionPromise`, `jobs` those whose promise has resolved.
`SocketOpen` queues both the waiting thunks and one replay thunk per entry, as
`onopen` does. A socket that is closing accepts and drops sends until its `onclose`
runs. The server is reduced to "answers once, or sends an error frame that names no
request". URL construction is left out.

**RequestPromises** is the abstract specification of `request()` as its callers see
it: one waiting promise per key, settled once; when the connection is given up all
who wait learn it in the same step, and calls are refused until a retry.
LazyFSConnection implements it with `down <- terminalConnectionFailure`
(`CallersAreServed`): sockets, generations, timers and replays are stutters.

**AsyncifyReplay** (`LazyFileBackend.cpp`, `LazyFS.cpp`, the guard of `Journey.cpp`,
`NxFiles.cpp`'s order, the sleeping polls of the socket). Asyncify is external,
modelled by its documented use: `currData` is one buffer, a wake-up rewinds whatever
it holds, and the rewind ends only if the re-entered call goes through
`handleSleep`. `StopsRewind` is what the trampoline does in state 2; `OpenUnsized`
and `ReadMissing` differ exactly as the two trampolines differ in when they clear
`pendingSyncRead`. `refused` holds the reads that `readFileData` turned down at once
because another stack was parked when it was called. `stage` walks through boot
(register each file, register again and open each) to the main loop. One range per
file.

**BlockingCalls** is what the C++ code takes for granted of the calls that suspend:
such a call stops the stack that made it, and this stack runs on only by the return
of this very call. AsyncifyReplay implements it (`CallsBlock`): the call a stack
waits in is what the single rewind buffer says of it, unwinding and replaying are no
steps of their own, and `hung` is a rewind that nothing stops, which only an `open`
may cause (`MayHang`).

**AssetsServer** (`cache.rs`, `serve.rs`, the loop of `main.rs`, one file). The
images of the file are numbered by their mtime, so a number is content and version
at once, and two images always differ in version. `AssetCache::get` is split where
it gives up a lock: `Arrive` (clone under the read lock), `CheckStale` (file system,
no lock), `LosesRace` or `BeginBuild`/`EndBuild` (write lock, metadata and then
data). `sharers` is `Arc::ptr_eq` with the current entry. In disk mode each chunk
reads the file as it is at that moment. Read failures are actions (`CheckFails`,
`BuildFails`, `ChunkUnreadable`); a slice beyond the data is `ChunkPanics`, which
ends the task and its connection without a reply. `Finish` hands over a reply and is
for tasks that have one; `Replaced` puts the task of a new connection in the place
of one that panicked.

**AssetsServerAnswers** adds clients that ask at any time and two history variables
(`seen`: images since the request arrived; `failed`). An answer is `Answered`; a
request that went down with its task is `Lost`, and the two are told apart.

**LazyFSCache** EXTENDS `AssetsServer` and composes it with the client:
`fileVersion`, `chunkCache`, `idb`, a `readFileData` whose every `await` is a step
boundary (`LookUp`, `AskIndexedDB`, `IndexedDBAnswers`, `FetchMissing`,
`SendBatch`), `handleMessage` as `ReceiveSize/Chunk/Done/Error`, the keep-alive, a
lost connection, timeouts, the retry of a read, which asks for all its batches again
and joins those that are pending (`RetryFetch`), a page load that keeps IndexedDB, a
second registration, and a second client of the same server. The connection is the
reliable-until-lost one of which LazyFSConnection shows the detail.

**LazyFSPrefetch** (the prefetch half of `lazyfs.js`). `pool` holds `prefetchQueue`,
`activePrefetches` and the tasks that run; a task is at one of its awaits (`phase`)
and at a chunk. `Drain`, `Promote` and `Finish` are the three functions that touch
the count. `Resolve` and `Reject` settle the promise of a range together with
whoever chained on it: a foreground request, whose overlay entry goes or offers a
retry, and a priority request, which becomes a foreground one. A foreground request
that was refused while a task of its range still ran is not chained on that task
and stays failed. Batches fail with the connection (`ConnectionFails`) or by their
60 s timer on one that lives (`BatchTimesOut`: an error frame or a peer gone without
a close); tasks that want the same chunk share its batch (`inFlightBatches`), and a
task whose batch was rejected frees its slot for the queue (`BatchRejected`).
`OtherChunk` is a chunk that other reads or a late answer bring. The database is open,
the look-up in IndexedDB finds the chunk or not, and the version of the file does
not change. Continuations of settled promises run before the next event of the
browser (`Microtask`).

**BitmapLoading** EXTENDS `LazyFSPrefetch` with `GraphicsGL`'s queue and the map's
gate. A bitmap is the range of its data; `lane` is the deque it is pending in,
`blocking` is `pending_blocking_bitmap_ids`. `Queue` is one call of `queuebitmap`
with one of the bitmap's load classes, at any time, since the cash shop prepares the
looks it shows as `MAP_REQUIRED` whether or not a map is loading. `PrepareBitmap` is
the work of a frame, and `PrepareGoesWrong` that work when `getoffset` finds no data
or no room: the bitmap is no longer pending but not in the atlas, or the atlas has
been emptied for it. `Load`, `UpdateLoading`, `StableWindow` and `Retry` are the gate
and the retry button of the overlay, which retries every failed foreground request
and the map. `Clear` is `Stage::clear`, which a transition calls whatever the stage
is doing: a map that is still loading is given up, and what it has queued stays
pending. `quiet` is a history: the pending bitmaps whose last fetch was the prefetch
of a `MAP_REQUIRED` call, of whose failure nobody hears.
Time is abstract: `stable` says that the batch has not grown for the stability
window, `late` that nothing has changed for the stall timeout. `shown`, the progress
the gate compares with, is kept only after a failure, where it matters. `blocking #
{}` stands for the overlay's `gpu` entry, which each frame derives from it.

**WsProxy** (`ws-proxy/src/lib.rs`): one `session` per WebSocket, one action per
branch of the `select!`. The bytes of a server are a stream of cells: a hello, and
packets of a header and a body. Where a reader cuts it is arbitrary, so `sent`,
`relayed` and the client's `arrived` and `taken` are positions in it. A send on a
broken path hangs (`sending`) and no other branch runs until the kernel gives up.

**GameSession** EXTENDS `WsProxy` with the client: `SockInternal`'s instances and
`Session`. `pc` is where the single wasm thread is; the two suspensions of opening a
connection (`connecting`, `hello`) and each packet are step boundaries between which
WebSocket callbacks run. `keys`, `rx` and `tx` are the cipher: whose hello keyed it
and how many packets each initialisation vector has gone through, so that a packet
is understood iff both ends agree on them (`Decoded`, `ServerUnderstands`). A header
read with the wrong keys or at the wrong place may give any length (`LengthsAt`).
`ForwardReconnect` is a handler that replaces the connection, `Logout` the system
menu's logout.

**PacketStream** is the abstract specification of the link as packet handlers see
it: the packets of one connection after the other, in order and without a gap.
GameSession implements it with `delivered <- stream`, a history of everything
forwarded (`StreamIsUnbroken`).

The `map` of `PROJECT.json` gives, for each definition, the lines it stands for.

## 3. What is checked

| run | module | question | result |
|---|---|---|---|
| `lazyfs_connection` | MCLazyFSConnection | promises never forgotten, sent once per connection, replayed, always served (refinement of RequestPromises); attempts end, requests settle | holds |
| `asyncify_replay` | AsyncifyReplay | one suspension, rewinds of reads stop, a suspended loop resumes, suspending calls block (refinement of BlockingCalls), if input callbacks touch resident assets only | holds |
| `asyncify_open` | AsyncifyReplay | the rewind of every call stops, `open` included | violated |
| `asyncify_input` | AsyncifyReplay | one suspension, input callbacks that miss included | violated |
| `assets_server` | MCAssetsServer | answers are current; each request is answered or, if its asset is torn (`assets_rewrite`), lost in a panic | holds if the lock is fair or the file is left alone in the end |
| `assets_rewrite` | MCAssetsServer | chunks within the announced size can be read | violated |
| `lazyfs_cache` | MCLazyFSCache | nothing stale under the current version; the entry and IndexedDB never go back, nor does the client's version behind what it has cached; a fully answered read is complete unless the file changed | holds |
| `lazyfs_cache_learns` | MCLazyFSCache | reads of two chunks in disk mode: a fully answered one is complete unless the file changed; the client learns a new version by the keep-alive alone | holds |
| `game_session` | MCGameSession | handlers see an unbroken packet stream (refinement of PacketStream), servers understand what they read, one socket stays open, the last words arrive, dead sessions are reclaimed | holds |
| `game_logout` | MCGameSession | `process()` drops only bytes of a replaced connection | violated |
| `bitmap_loading` | MCBitmapLoading | prefetches and slots are accounted for, nobody waits for nothing; what blocks the game offers a retry, and waiting ends, except for a bitmap that a refused `MAP_REQUIRED` prefetch left behind (`bitmap_blocked`) | holds |
| `bitmap_blocked` | MCBitmapLoading | whatever blocks the game is there, on its way, or offers a retry | violated |

The five violations are disagreements between the code and a comment of its own:

* **`asyncify_open`**. `LazyFileBackend::open` with an unknown size tags itself and
  sleeps, but clears the tag in the unwinding pass
  (`LazyFS/LazyFileBackend.cpp:105-113`; `fetch_data` guards the same lines with
  `wasRewinding`). On replay the size is known, `open` returns synchronously and
  nothing stops the rewind. The comment at lines 28-30 says the suspended frame MUST
  re-enter `handleSleep`. It needs the second registration of a file to fail and the
  size fetch of `open` to succeed.
* **`asyncify_input`**. `LazyFS/LazyFileLoader.cpp:264-266` says the tick guard
  keeps at most one wasm stack runnable; input callbacks (`IO/Window.cpp:91-201`)
  are not behind that guard, and one that reads a non-resident asset suspends a
  second stack over the parked tick.
* **`assets_rewrite`**. `CachedAsset::build` reads size and data at different
  moments (`assets-server/src/cache.rs:55-83`). A file that shrinks between leaves
  an entry announcing more than it holds and `read_chunk` (line 44) panics. The
  comment at lines 121-123 claims that rewrites in place no longer give a stale
  size.
* **`game_logout`**. `Session::disconnect` sets `connection_changed`, and the logout
  (`IO/UITypes/StatusBar/StatusBarActions.cpp:72-85`) calls it between two frames,
  not within `forward()`. The mark survives the new `init()`; after the first packet
  of the login server, `process()` (`Net/Session.cpp:217`) takes it for a reconnect
  by that packet's handler and drops the rest of the read, which is of the present
  connection: the rest of that read is lost and, if it ended in the middle of a
  packet, the framing with it. The comment at lines 214-216 says that "the remaining
  bytes belong to the old stream", and
  `features/changelog/2026-08-12/reconnect-ui-recovery.md:47` that the mark is set
  only during `forward()`. A server that waits for the client before it sends its
  second packet hides it.
* **`bitmap_blocked`**. The cash shop's preview
  (`IO/CashShop/UICashShopActions.cpp:257`) queues `MAP_REQUIRED` bitmaps outside a
  batch. If the prefetch is refused because the connection has failed for good, or
  fails later, that is only logged (`LazyFS/LazyFileLoader.cpp:187-188`) and the
  bitmap stays in the priority lane. A later `BLOCKING_VISIBLE` draw marks it as
  blocking, finds it pending (`Graphics/GraphicsGL.cpp:434`) and asks for nothing:
  the game is blocked and no retry is offered. The comment there says that a queued
  bitmap "only needs one live fetch; the blocking gate above still records the
  escalation", and
  `features/changelog/2026-10-19/ellinia-map-render-cpu-hotspots.md:36-37` that a
  failed `BLOCKING_VISIBLE` still goes through the overlay and the retry button. It
  ends only if something else makes the bitmap's data resident, or if a map that
  requires it loads. `OnlyQuietOnesStrand`, checked in `bitmap_loading` and proved
  below, says that this is the only way to it: every other bitmap that blocks the
  game is there, on its way, or offers a retry by itself.

### Bounds, and why they suffice

* `lazyfs_connection`: three requests over two keys, so that one key is asked twice
  (a late answer meets the re-request) while another is pending; one retry delay
  (first attempt, retried attempt, final failure); two opened connections (one
  replay). `MaxConnections` bounds the generation, `KeepAliveTick` allows one
  outstanding probe. About 96 000 states. The theorems below cover every value.
* `asyncify_*`: two files, so that the second registration of one precedes the first
  opening of another, and one input chain, enough for an overlap.
* `assets_server`: two images, one of two chunks and one of one chunk, with
  roll-backs (so any number of changes between them), failing file system, two
  tasks, both modes. 162 000 states. The theorem covers any number of images and
  tasks.
* `assets_rewrite`: three images of which the last shrinks, memory mode.
* `lazyfs_cache`: three images (old, newer, newest: the smallest where a chunk may
  be newer than its tag and older than the file), one chunk, memory and disk mode,
  in which the chunk may be unreadable, two tasks, one mishap (`MaxMishaps`: lost
  connection, timeout, page load, second registration or another client's request).
  Tasks are symmetric. 4.7 million states.
* `lazyfs_cache_learns`: two images, two chunks, disk mode, where each chunk opens
  the file anew and may fail to: what is missing is asked for in one batch, which
  may mix images or end in an error frame, and a read that failed is retried.
  One task, so no lost connection, which the other run has; no symmetry since it
  checks a liveness property. 637 000 states.
* Both leave the failures of the stale check and of a rebuild to `assets_server`.
  Reads of several batches at a time need a third chunk and are left to the
  theorems, which cover any ranges, chunks, tasks and both modes.
* `game_session`: two connections (one replacement), two packets of different
  lengths on each, a header of two cells so that every cut occurs, a hello of one
  cell, and one packet the client writes by itself on a connection on which it has
  written nothing, beside those of a handler and of the logout. Everything about the
  first connection is reliable; the second may lose its server, its path or its page
  at any point. `MaxConns`, `MaxPackets` and `MaxWrites` are the bounds. 303 000
  states. The theorems cover every number of connections and packets and every set
  `Fragile`.
* `game_logout`: the same with nothing fragile.
* `bitmap_loading`: two bitmaps of which one shares a chunk with the other, so that
  a prefetch may find its chunk fetched by another task; a cap of one, so that every
  promotion exceeds it; one bitmap is queued in the three classes whose order
  matters, the other as a transient effect; one mishap (`MaxMishaps`: the connection
  fails for good, a batch times out, another read brings a chunk, the atlas
  overflows or is emptied, or a bitmap's data cannot be had). 198 000 states. The
  bound matters for `WaitingEnds`: a map whose required bitmaps do not fit into the
  atlas together, or one of which can never be decoded, never ends loading, in the
  code as in the model with infinitely many mishaps. The theorems cover any ranges,
  cap, uses and number of mishaps.
* `bitmap_blocked`: the same constants.

`CHECK_DEADLOCK FALSE` everywhere, because the systems may really stop: the page has
unloaded, the boot has failed, the page is reloading, the rewind never ends, or a
bound (images, connections, mishaps) is used up.

### Fairness

* Connection: WF of queued promise jobs, of each request's timer, of the result of a
  dial (a browser ends every handshake one way or the other), of the retry delay and
  of `onclose` after a peer closed. Nothing is assumed of the server or of the
  network: `RequestsSettle` rests on the timers alone.
* Asyncify: SF of `Wake`, because a wake-up callback waits while other wasm runs and
  the promise behind it settles (`RequestsSettle` above); WF of the return of an
  input callback. No fairness of ticks.
* Server: WF of a task's work and of handing over the reply: tokio polls a task that
  can run, and the file system answers. Nothing is assumed of the lock:
  `entries` is a `std::sync::RwLock` (`assets-server/src/cache.rs:8`), which
  promises no fairness. `EveryRequestAnswered` therefore names what it needs besides:
  that a task waiting for the lock gets it in the end (`LockIsFair`), or that the
  file is left alone and readable from some time on (`Calm`), when no rebuild
  competes any more. With a lock that starves a waiter and a file that is rewritten
  for ever, a request need not be answered. The file system's failures and the
  operator are not fair.
* Cache: WF of a server task's step, of handing over the reply, of taking up a
  request, of delivery, of the keep-alive interval, and of noticing that a
  connection's task has died.
* Game link: WF of the client's thread, of its callbacks and of each proxy session.
  The proxy's includes the liveness tick, which an interval timer fires, and the
  failure of a send that hangs, which the kernel's retransmission limit brings
  about. It leaves out the error of a broken stream (`StreamError`): nothing
  promises that a dead path is ever reported. The server, the path and the page owe
  nothing.
* Bitmaps: WF of what runs by itself (promise jobs, timers, IndexedDB, answers of
  the server, the work of a frame), of a late `update_loading`, of the stability
  window and of the retry button, pressed by a player who waits. New draws, new maps
  and maps that are given up are not fair, and may go on for ever. `WaitingEnds`
  leaves out bitmaps that are stranded (`Waits`); that the code has such states is
  what `bitmap_blocked` shows.

## 4. What is proved

TLAPS checks the following for all values of the constants that satisfy the named
assumptions (`ConnectionAssumption`, `ReplayAssumption`, `ServerAssumption`,
`CacheAssumption`, `RangesAssumption`, `LoadingAssumption`, `WritesAssumption`:
typing of the constants only; `StreamAssumption`: also where the packets of the
stream start). What a theorem assumes besides is named with it.

**LazyFSConnectionProofs.** `TypeCorrect`; `PromisesKept`; `TerminalFailureIsClean`
and `RequestsAreServed`; `SentOnce` and `EverythingReplayed`. `NoForgottenPromise`
is inductive over types. The next two need `Phases`, the possible combinations of
socket, attempt and flags (an attempt dials exactly while the socket is connecting;
thunks wait only on an attempt; connected means open or closing); together they are
`ConnectionInv`. The last two rest on `OnWire(r)` (a request that travels was
stamped with this generation, at most one copy) and `ReplayInv` (every pending entry
not yet stamped on an open connection has a send job queued), the conjunction
`WireInv`. `PromisesImplemented` is the refinement of RequestPromises: a step of the
connection settles at most one promise (`SettlesOne`), except the terminal failure,
which settles all that wait because a waiting promise is always the entry under its
key (`NoForgottenPromise`); that nobody waits while the connection is down is
`TerminalIsClean`.

**AsyncifyReplayProofs.** Under `~InputMayMiss`: `OneSuspension`,
`ReadsStopTheirRewind` and `TypeCorrect`. The inductive invariant is `MainIsParked`
(only the main chain suspends, what is suspended is in the buffer, and then either
it boots or the tick guard is up) and `TagIntact` (a suspended read's tag is in
place). The assumption is needed: `asyncify_input` is the counterexample without it.
`SuspensionsAreCalls` is the refinement of BlockingCalls under the same assumption.
It needs the invariant above and `BufferInUse` (the buffer names a stack only while
that stack's wake-up is to come or its rewind goes on for ever); each step is then
an entry, a departure, a call, the return of the call that was made, a freeze in an
`open`, or nothing.

**AssetsServerProofs** holds the lemmas about one step of the server, for both
modules built on it: typing, and `ServerOrder` = `AssetsOrdered` (version ≤ data ≤
disk for the entry and for every asset held) and `RepliesFit` (a task's frames are
no older than the version it serves). `FreshestAdvances`: what a task can still send
only gets newer. `RepliesComplete` (`ServedUpTo`): when a batch is reported done
under the file's present version, a chunk frame for each of its chunks came before.

**AssetsServerAnswersProofs.** `AnswersAreCurrent`, roll-backs and failures
included. `SeenInv` adds to the property that the present image is in every active
task's `seen` (`DiskSeen`), that the image being built was seen by all who wait
(`BuiltSeen`), and that an entry rebuilt after a task cloned its Arc is one that
this task has seen (`EntrySeen`): that is why a loser of the race may serve the
winner's entry without a second check. Two theorems give the limits of the violation
in `assets_rewrite`: `ChunksReadSafely` holds if no older image comes back and none
is shorter than the one before (`NoPanicWhileFilesGrow`: version ≤ data, so the size
announced is at most that of the data), and without `--cache-all-nx` whatever
happens to the file (`NoPanicFromDisk`).

**LazyFSCacheProofs.** `CacheTypeCorrect`; under `~AllowRollback`,
`NothingFiledTooOld`, `CachedIsCurrent`, `CacheOnlyAdvances`, `VersionAboveCache`
and `AnsweredReadsAreComplete`; `EntryBehindDisk`, `EntryAdvances`. The argument for
`CachedIsCurrent`: versions are ordered along the way they travel, client ≤ frames
on the wire ≤ the serving task's asset ≤ entry ≤ disk, and bytes are never older
than any version announced before them on the same connection (`ClientOrder`). So
bytes filed under tag v are of an image in v..disk (`NeverOlder`, and `FoundFits`
for what IndexedDB found before an await), and under the present version, exactly
the present image. Bytes filed under an older tag may be newer than it; that tag is
not the current one, and without roll-back never becomes it again, which is why the
assumption is there.

The other three, under the same assumption, are about what the client is still to
hear: `Stream`, the frames on the wire followed by the reply its task is preparing.
A step of anyone shortens it at the end, appends one frame to it or takes its first
one (`StreamStep`), so that facts about it have few cases. `CacheOnlyAdvances`: the
bytes in the stream are in the file's order, and what IndexedDB holds is no newer
than the first of them (`BytesInOrder`). `VersionAboveCache`: the versions in the
stream are in order and not below the client's (`VersionsInOrder`); a tag under
which anything is cached is not above what the client has yet to learn, from the
stream, from its task's asset or from the entry (`KnownAbove`), even while it has
forgotten its version. `AnsweredReadsAreComplete`: once the client knows the file's
present version, or is told it in the stream, the end of a later batch comes behind
a frame for each of its chunks, or the chunk is cached already (`DonesInOrder`); a
chunk that was looked up is cached or known to be missing (`LookedAt`), and then
cached or in a batch still awaited (`StillAwaited`), because the batches of
`fetchChunks` partition what is missing (`BatchesPartition`).

**GameSessionProofs.** `TypeCorrect`; `OneSocket`; `Unbroken`, the refinement of
PacketStream; `LastWordsHeard`; `CipherInStep`. The refinement rests on one fact
about the position of the walk: within `process()` on the connection whose keys are
in use, the bytes already walked are exactly the hello, `rx` whole packets and the
header and body cells the framing remembers, so that the next complete body is
packet `rx + 1`; between frames the same holds of what was taken from the socket
(`Aligned`). A handler's mark is consumed by the walk it was meant for, and none is
left behind for another one until a logout (`Unmarked`); the record is level with
the current connection or behind it (`Recorded`). For `CipherInStep`, `heard`
continues with the frames on the wire and then with what the client will write: the
packets heard and those travelling are numbered without a gap, all under the keys of
their own connection (`HeardInOrder`, `Continues`), a connection whose hello has not
been read has none (`Fresh`), and on the current one their number is `tx`
(`Counted`). A replaced socket is closed behind its last packet, and the proxy reads
in order (`Parting`), hence `LastWordsHeard`. That the packets of the stream start at
growing positions (`StartsGrow`) is proved by a least counterexample. The comment
that `game_logout` contradicts is true until the player logs out
(`OldBytesUntilLogout`): till then bytes are left over only by a handler that
replaced the connection they came from (`Leftover`).

**LazyFSPrefetchProofs** holds the lemmas about the queue for the module built on
it: what `Drain`, `Promote` and `Finish` do to the members of the queue and to the
count. **BitmapLoadingProofs**: `TypeCorrect`, `PrefetchesKept`, `SlotsCounted`
(these are one inductive invariant, `Types`), `WaitersServed`, and
`OthersOfferRetry`, which assumes nothing of the cash shop, of the maps or of what
can be decoded: whatever blocks the game without being there or on its way, and
offers no retry by itself, was made urgent by a `MAP_REQUIRED` prefetch. It needs to
know who asked: a bitmap that blocks and is not resident is in the priority lane,
and one in the priority lane that is not resident has a priority or a foreground
request (one that has begun, loads, or failed and offers a retry), or is `quiet`
(`PriorityAsked`); what a loading map requires is in its batch, so that a retry
fetches it (`RequiredInBatch`); and a running task has not passed a chunk that is
missing (`TasksOK`), so that a task that ends leaves its range resident. That a
foreground or priority request which waits is in flight is `WaitersAreServed`.

### Only model-checked

All liveness (`AttemptEnds`, `RequestsSettle`, `SuspendedReadResumes`,
`EveryRequestAnswered`, `EventuallyCurrent`, `SessionReclaimed`, `WaitingEnds`):
liveness under fairness and ENABLED are out of the prover's reach.
Every safety property of the runs that pass has a theorem. The violated properties
have none as they stand; what is proved of two of them names the condition their
counterexample needs. Induction over data and RECURSIVE operators are out of reach
too: no module declares a RECURSIVE operator, and the two facts that call for
induction (`StartsGrow`, `BatchesCover`) are proved from the least element of a set of
numbers instead.

## 5. Not modelled, and why

*Assets.* Versions are distinct numbers here; in the code they are nanoseconds
rounded by JavaScript to 53 bits, so two images within a few hundred nanoseconds
share a version tag. The keep-alive asks for the first registered file only, so
LazyFSCache speaks of that file; LazyFSPrefetch assumes that the version stays. A
client's size may lag its version; the bounds of a read come from LazyFileLoader,
which is not modelled: how long its callers keep a pointer is decided by every
reader of an NX node. `beforeunload` in
LazyFSPrefetch (LazyFSConnection has it), and the boot warm-up, which asks through
the same functions, are left out. Statistics, logs, URL and message formatting, the
byte-level checks of a fetched range and the parsing of NX are left out.
`getChunk`/`get_chunk` have no caller.

*Game link.* Input that suspends (the logout) happens between two frames, and no
frame runs while the logout's `init()` is suspended: the interleaving of suspended
stacks is AsyncifyReplay's subject. While a handler reconnects the interface is
disabled, so nothing is written. The page is closed only with an open socket.
Keep-alive frames of length zero, the watchdog and the manual-close marks, which
decide whether a banner is shown, are left out. A failed reconnect enables the
interface again (`Net/Handlers/LoginHandlers.cpp:363-377`), but the next `main_tick`
finds the session closed and stops for good, which is `Stop`. A session that waits
for its target frame has no deadline in the proxy, so `SessionReclaimed` speaks of
sessions that bridge. The proxy's accept loop, parsing of targets and renaming of
hosts have no state.

*The rest.* Map drops, trade, cash shop and character list react to a game server
that is not in this repository: what could go wrong there depends on the order and
the lateness of its packets, which a model would have to invent. Physics and combat
are floating-point simulation. Drawing, audio and layout are effects; the web server
is stateless; the desktop shell starts its services one after the other; the
character's mirror only assigns from packets.

The share of mapped lines is small (under 1%): most of the repository's lines are
drawing, layout, game data and vendored headers (`includes/stb` alone is more than
all the code that runs concurrently), in which there is no state that several
parties share.

## 6. Where it could go on

All modules of the plan that the repository alone determines are written:
LazyFSConnection, AsyncifyReplay, AssetsServer, AssetsServerAnswers, LazyFSCache,
LazyFSPrefetch, BitmapLoading, WsProxy, GameSession, and the abstract RequestPromises,
BlockingCalls and PacketStream. What would add most now: versions that change under a
prefetch (`LazyFS/lazyfs.js:486`), by putting LazyFSPrefetch on top of LazyFSCache;
and LazyFileLoader, once its callers' use of pointers is written down.
