---------------------------- MODULE AsyncifyReplay ----------------------------
(***************************************************************************)
(* How the client blocks on assets: the EM_ASM trampolines of              *)
(* LazyFileBackend (open, fetch_data), RegisterFile, the emscripten_sleep  *)
(* polls of the socket layer and the main_tick guard, on top of Asyncify,  *)
(* which keeps ONE rewind buffer (Asyncify.currData) for all wasm stacks.  *)
(*                                                                         *)
(* Asyncify itself is external: a call that goes to sleep saves its stack  *)
(* in currData and leaves wasm; the JavaScript after handleSleep still     *)
(* runs in that unwinding pass.  A wake-up rewinds whatever currData holds *)
(* and re-enters the suspended call with state 2 (Rewinding); the rewind   *)
(* stops only if that call goes through handleSleep again, which returns   *)
(* the value of the wake-up.                                               *)
(*                                                                         *)
(* Each file has one range.  X_Fault is a faulty variant of the operator X *)
(* that follows it; the specification never uses it.                       *)
(***************************************************************************)
EXTENDS Naturals

CONSTANTS
  Files,
  InputChains,      \* browser input callbacks that enter wasm
  InputMayMiss,     \* whether they may read assets that are not resident
  RegisterMayFail   \* whether the get_size of a second RegisterFile may fail

ASSUME ReplayAssumption ==
  /\ "main" \notin InputChains
  /\ InputMayMiss \in BOOLEAN
  /\ RegisterMayFail \in BOOLEAN

Chains == {"main"} \cup InputChains
NoChain == "none"
Sleep == <<"sleep", "socket">>
Calls == ({"register", "open", "read"} \X Files) \cup {Sleep}
NoCall == <<"none", "none">>

VARIABLES
  stage,            \* of the program: main() boots, then the main loop runs
  running,          \* the chain that executes wasm now
  asyncifyState,    \* between two JavaScript turns
  currData,         \* the saved stack: its chain and the suspended call
  suspended,        \* the suspended stacks whose wake-up is still to come
  refused,          \* suspended reads that readFileData refuses
  pendingSyncRead,  \* the tag of the suspended read or open
  tickInFlight,
  registered,       \* RegisterFile calls completed for the file
  sizeKnown,        \* fileEntry.size # null
  resident,         \* files whose range is in chunkCache
  opened            \* files with an open backend

vars == <<stage, running, asyncifyState, currData, suspended, refused,
          pendingSyncRead, tickInFlight, registered, sizeKnown, resident, opened>>

Nobody == <<NoChain, NoCall>>

TypeOK ==
  /\ stage \in {"booting", "running", "failed", "reloading"}
  /\ running \in Chains \cup {NoChain}
  /\ asyncifyState \in {"normal", "rewinding"}
  /\ currData \in (Chains \X Calls) \cup {Nobody}
  /\ suspended \subseteq Chains \X Calls
  /\ refused \subseteq Chains \X Calls
  /\ pendingSyncRead \in Calls \cup {NoCall}
  /\ tickInFlight \in BOOLEAN
  /\ registered \in [Files -> 0 .. 2]
  /\ sizeKnown \in [Files -> BOOLEAN]
  /\ resident \subseteq Files
  /\ opened \subseteq Files

Init ==
  /\ stage = "booting"
  /\ running = "main"
  /\ asyncifyState = "normal"
  /\ currData = Nobody
  /\ suspended = {}
  /\ refused = {}
  /\ pendingSyncRead = NoCall
  /\ tickInFlight = FALSE
  /\ registered = [f \in Files |-> 0]
  /\ sizeKnown = [f \in Files |-> FALSE]
  /\ resident = {}
  /\ opened = {}

-----------------------------------------------------------------------------
(* Calls made by the running chain.                                        *)

Executing(c) ==
  running = c /\ asyncifyState = "normal" /\ stage \in {"booting", "running"}

\* handleSleep in state Normal: the buffer is single, so an earlier occupant
\* is overwritten.
Suspend(c, call) ==
  /\ currData' = <<c, call>>
  /\ suspended' = suspended \cup {<<c, call>>}
  /\ running' = NoChain

\* NxFiles::init registers every file once, then nl::file::open registers it
\* again before it opens the backend.
RegistersNow_Fault(f) == \A g \in Files : registered[f] <= registered[g]
RegistersNow(f) ==
  \/ registered[f] = 0
  \/ registered[f] = 1 /\ \A g \in Files : registered[g] > 0

\* RegisterFile: registerFile() resets the entry, then get_size is awaited.
Register(f) ==
  /\ Executing("main") /\ stage = "booting"
  /\ RegistersNow(f)
  /\ sizeKnown' = [sizeKnown EXCEPT ![f] = FALSE]
  /\ Suspend("main", <<"register", f>>)
  /\ UNCHANGED <<stage, asyncifyState, pendingSyncRead, tickInFlight,
                 registered, resident, opened, refused>>

\* LazyFileBackend::open with the size known: no suspension.
OpenSized(f) ==
  /\ Executing("main") /\ stage = "booting"
  /\ registered[f] = 2 /\ f \notin opened
  /\ sizeKnown[f]
  /\ opened' = opened \cup {f}
  /\ UNCHANGED <<stage, running, asyncifyState, currData, suspended, pendingSyncRead,
                 tickInFlight, registered, sizeKnown, resident, refused>>

\* ... and with the size still null: it tags itself and sleeps; the lines
\* after handleSleep run in the unwinding pass and clear the tag again.
OpenUnsized(f) ==
  /\ Executing("main") /\ stage = "booting"
  /\ registered[f] = 2 /\ f \notin opened
  /\ ~sizeKnown[f]
  /\ pendingSyncRead' = NoCall
  /\ Suspend("main", <<"open", f>>)
  /\ UNCHANGED <<stage, asyncifyState, tickInFlight, registered, sizeKnown,
                 resident, opened, refused>>

\* fetch_data clears its tag only after a rewind (wasRewinding).
TagOfRead_Fault(f) == NoCall
TagOfRead(f) == <<"read", f>>

\* fetch_data of a range that readCachedSync cannot serve. readFileData gives up
\* at once when it is called while another stack is parked.
ReadMissing(c, f) ==
  /\ Executing(c)
  /\ c = "main" \/ InputMayMiss
  /\ f \in opened
  /\ ~(sizeKnown[f] /\ f \in resident)
  /\ pendingSyncRead' = TagOfRead(f)
  /\ refused' = IF currData = Nobody THEN refused ELSE refused \cup {<<c, <<"read", f>>>>}
  /\ Suspend(c, <<"read", f>>)
  /\ UNCHANGED <<stage, asyncifyState, tickInFlight, registered, sizeKnown,
                 resident, opened>>

\* emscripten_sleep in ws_connect and ws_recv.
SleepInSocket ==
  /\ Executing("main") /\ stage = "running"
  /\ Suspend("main", Sleep)
  /\ UNCHANGED <<stage, asyncifyState, pendingSyncRead, tickInFlight, registered,
                 sizeKnown, resident, opened, refused>>

-----------------------------------------------------------------------------
(* Wake-ups.                                                               *)

\* What the awaited work may come to: a sleep ends, a first RegisterFile, a
\* read and a size fetch may fail.
MaySucceed(c, call) == <<c, call>> \notin refused
MayFail(call) ==
  \/ call[1] \in {"open", "read"}
  \/ call[1] = "register" /\ (registered[call[2]] = 0 \/ RegisterMayFail)

\* The re-entered call, in state 2, stops the rewind.  sized: sizeKnown after
\* the awaited work.
StopsRewind(call, sized) ==
  CASE call[1] \in {"register", "sleep"} -> TRUE
    [] call[1] = "open" -> pendingSyncRead = call \/ ~sized[call[2]]
    [] call[1] = "read" -> pendingSyncRead = call

\* What the resumed call's caller does with the value it gets.
Continue(call, ok, sized) ==
  /\ registered' = IF call[1] = "register"
                   THEN [registered EXCEPT ![call[2]] = @ + 1] ELSE registered
  /\ opened' = IF call[1] = "open" /\ sized[call[2]]
               THEN opened \cup {call[2]} ELSE opened
  /\ stage' = IF \/ call[1] = "register" /\ ~ok /\ registered[call[2]] = 0
                 \/ call[1] = "open" /\ ~sized[call[2]]
              THEN "failed" ELSE stage

Wake(c, call, ok) ==
  LET sized == IF ok /\ call[1] \in {"register", "open"}
               THEN [sizeKnown EXCEPT ![call[2]] = TRUE] ELSE sizeKnown
      reentered == currData[2]
  IN
  /\ running = NoChain /\ asyncifyState = "normal"
  /\ stage \in {"booting", "running"}
  /\ <<c, call>> \in suspended
  /\ IF ok THEN MaySucceed(c, call) ELSE MayFail(call)
  /\ suspended' = suspended \ {<<c, call>>}
  /\ refused' = refused \ {<<c, call>>}
  /\ sizeKnown' = sized
  /\ resident' = IF ok /\ call[1] = "read" THEN resident \cup {call[2]} ELSE resident
  /\ IF currData = Nobody
     THEN \* the buffer is gone: wakeUp throws and the page reloads once
          /\ stage' = "reloading"
          /\ UNCHANGED <<running, asyncifyState, currData, pendingSyncRead,
                         registered, opened>>
     ELSE IF StopsRewind(reentered, sized)
     THEN /\ running' = currData[1]
          /\ currData' = Nobody
          /\ pendingSyncRead' = IF pendingSyncRead = reentered THEN NoCall
                                ELSE pendingSyncRead
          /\ Continue(reentered, ok, sized)
          /\ UNCHANGED asyncifyState
     ELSE \* the call returned without handleSleep: nothing stops the rewind
          /\ asyncifyState' = "rewinding"
          /\ UNCHANGED <<stage, running, currData, pendingSyncRead, registered, opened>>
  /\ UNCHANGED tickInFlight

-----------------------------------------------------------------------------
(* Entries into wasm.                                                      *)

Idle == running = NoChain /\ asyncifyState = "normal" /\ stage = "running"

\* main() returns once every file is open (emscripten_set_main_loop).
BootEnds ==
  /\ Executing("main") /\ stage = "booting" /\ opened = Files
  /\ stage' = "running"
  /\ running' = NoChain
  /\ UNCHANGED <<asyncifyState, currData, suspended, pendingSyncRead, tickInFlight,
                 registered, sizeKnown, resident, opened, refused>>

\* The guard at the top of main_tick.
TickAdmitted_Fault == TRUE
TickAdmitted == ~tickInFlight

TickStarts ==
  /\ Idle /\ TickAdmitted
  /\ tickInFlight' = TRUE
  /\ running' = "main"
  /\ UNCHANGED <<stage, asyncifyState, currData, suspended, pendingSyncRead,
                 registered, sizeKnown, resident, opened, refused>>

TickEnds ==
  /\ Executing("main") /\ stage = "running"
  /\ tickInFlight' = FALSE
  /\ running' = NoChain
  /\ UNCHANGED <<stage, asyncifyState, currData, suspended, pendingSyncRead,
                 registered, sizeKnown, resident, opened, refused>>

\* key_callback, mousekey_callback, ...: not guarded by main_tick.
InputStarts(c) ==
  /\ Idle
  /\ \A call \in Calls : <<c, call>> \notin suspended
  /\ running' = c
  /\ UNCHANGED <<stage, asyncifyState, currData, suspended, pendingSyncRead,
                 tickInFlight, registered, sizeKnown, resident, opened, refused>>

InputEnds(c) ==
  /\ Executing(c)
  /\ running' = NoChain
  /\ UNCHANGED <<stage, asyncifyState, currData, suspended, pendingSyncRead,
                 tickInFlight, registered, sizeKnown, resident, opened, refused>>

Next ==
  \/ \E f \in Files : Register(f) \/ OpenSized(f) \/ OpenUnsized(f)
  \/ \E c \in Chains, f \in Files : ReadMissing(c, f)
  \/ SleepInSocket
  \/ \E c \in Chains, call \in Calls, ok \in BOOLEAN : Wake(c, call, ok)
  \/ BootEnds \/ TickStarts \/ TickEnds
  \/ \E c \in InputChains : InputStarts(c) \/ InputEnds(c)

Spec == Init /\ [][Next]_vars

\* Every awaited promise settles (the request timers of LazyFSConnection) and
\* its callback is run, whatever other callbacks keep arriving; an input
\* callback returns.
FairSpec ==
  /\ Spec
  /\ SF_vars(\E c \in Chains, call \in Calls, ok \in BOOLEAN : Wake(c, call, ok))
  /\ \A c \in InputChains : WF_vars(InputEnds(c))

-----------------------------------------------------------------------------
\* Every rewind is stopped by the call that suspended: the single buffer is
\* never left in state 2, which would freeze the client without an error.
RewindStops == asyncifyState = "normal"

\* The same for the rewind of a read: the tag of fetch_data survives from the
\* unwinding pass to the replay.
ReadRewindStops == asyncifyState = "rewinding" => currData[2][1] # "read"

\* Every suspended stack is the one in the rewind buffer, so there is at most
\* one and its wake-up resumes it and no other.
SingleSuspension == \A s \in suspended : currData = s

\* To the code that makes them, the calls that suspend are plain blocking calls,
\* although the rewind buffer is single, ticks and input callbacks enter wasm
\* meanwhile and a replay runs the caller's code again. Only an open may hang.
Blocking == INSTANCE BlockingCalls WITH
  calling <- [c \in Chains |-> IF currData[1] = c THEN currData[2] ELSE NoCall],
  hung <- asyncifyState = "rewinding",
  MayHang <- {"open"} \X Files
CallsBlock == Blocking!Spec

\* A suspended read of the main loop is always resumed.  (Its fetch may fail,
\* but the loop must not stay parked.)
SuspendedReadResumes ==
  \A f \in Files : (<<"main", <<"read", f>>>> \in suspended) ~> (running = "main")
=============================================================================
