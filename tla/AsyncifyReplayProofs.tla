------------------------- MODULE AsyncifyReplayProofs -------------------------
(***************************************************************************)
(* One suspended stack at a time, and no read that rewinds for ever, for   *)
(* any number of files and of input callbacks, as long as input callbacks  *)
(* find their assets resident (InputMayMiss = FALSE).                      *)
(***************************************************************************)
EXTENDS AsyncifyReplay, TLAPS

\* The suspended stack is the main loop's, and its tick is still in flight, so
\* that main_tick admits no other.
MainIsParked ==
  /\ \A s \in suspended : /\ s = currData
                          /\ s[1] = "main"
                          /\ running # "main"
                          /\ stage = "running" => tickInFlight
                          /\ asyncifyState = "normal"
  /\ running = "main" /\ stage = "running" => tickInFlight

\* The tag of a suspended read is intact.
TagIntact ==
  /\ \A s \in suspended : s[2][1] = "read" => pendingSyncRead = s[2]
  /\ ReadRewindStops

ReplayInv == MainIsParked /\ TagIntact

\* A call of the main stack suspends while nothing else is suspended.
LEMMA SuspendKeepsReplay ==
  ASSUME ReplayInv, NEW call, Executing("main"), Suspend("main", call),
         stage' = stage, tickInFlight' = tickInFlight, asyncifyState' = asyncifyState,
         call[1] = "read" => pendingSyncRead' = call
  PROVE  ReplayInv'
<1>1. suspended = {}
  BY DEF ReplayInv, MainIsParked, Executing
<1>2. suspended' = {<<"main", call>>} /\ currData' = <<"main", call>> /\ running' = NoChain
  BY <1>1 DEF Suspend
<1>3. asyncifyState' = "normal" /\ (stage = "running" => tickInFlight)
  BY DEF ReplayInv, MainIsParked, Executing
<1>4. MainIsParked'
  BY <1>2, <1>3 DEF MainIsParked, NoChain
<1>5. TagIntact'
  BY <1>2, <1>3 DEF TagIntact, ReadRewindStops
<1>6. QED
  BY <1>4, <1>5 DEF ReplayInv

\* Every step keeps the main stack parked alone and its tag intact.
LEMMA ReplayStep ==
  ASSUME ~InputMayMiss, ReplayInv, [Next]_vars
  PROVE  ReplayInv'
<1> USE ReplayAssumption DEF ReplayAssumption
<1>1. ASSUME NEW f \in Files, Register(f)
      PROVE  ReplayInv'
  BY <1>1, SuspendKeepsReplay DEF Register
<1>2. ASSUME NEW f \in Files, OpenSized(f)
      PROVE  ReplayInv'
  BY <1>2 DEF OpenSized, ReplayInv, MainIsParked, TagIntact, ReadRewindStops
<1>3. ASSUME NEW f \in Files, OpenUnsized(f)
      PROVE  ReplayInv'
  BY <1>3, SuspendKeepsReplay DEF OpenUnsized
<1>4. ASSUME NEW c \in Chains, NEW f \in Files, ReadMissing(c, f)
      PROVE  ReplayInv'
  <2>1. c = "main"
    BY <1>4 DEF ReadMissing
  <2>2. QED
    BY <1>4, <2>1, SuspendKeepsReplay DEF ReadMissing, TagOfRead
<1>5. CASE SleepInSocket
  BY <1>5, SuspendKeepsReplay DEF SleepInSocket, Sleep
<1>6. ASSUME NEW c \in Chains, NEW call \in Calls, NEW ok \in BOOLEAN, Wake(c, call, ok)
      PROVE  ReplayInv'
  <2>1. <<c, call>> \in suspended /\ running = NoChain /\ asyncifyState = "normal"
    BY <1>6 DEF Wake
  <2>2. currData = <<c, call>> /\ c = "main" /\ currData # Nobody
    BY <2>1 DEF ReplayInv, MainIsParked, Nobody, NoChain
  <2>3. suspended' = {}
    BY <1>6, <2>2 DEF Wake, ReplayInv, MainIsParked
  <2>4. stage = "running" => tickInFlight'
    BY <1>6, <2>1 DEF Wake, ReplayInv, MainIsParked
  <2>5. stage' = "running" => stage = "running"
    BY <1>6 DEF Wake, Continue
  <2>6. CASE asyncifyState' = "rewinding"
    <3>1. currData' = currData /\ running' = running
      BY <1>6, <2>1, <2>2, <2>6 DEF Wake
    <3>2. call[1] # "read"
      BY <1>6, <2>1, <2>2, <2>6 DEF Wake, StopsRewind, ReplayInv, TagIntact
    <3>3. QED
      BY <2>1, <2>2, <2>3, <3>1, <3>2
         DEF ReplayInv, MainIsParked, TagIntact, ReadRewindStops, NoChain
  <2>7. CASE asyncifyState' # "rewinding"
    BY <2>3, <2>4, <2>5, <2>7 DEF ReplayInv, MainIsParked, TagIntact, ReadRewindStops
  <2>8. QED
    BY <2>6, <2>7
<1>7. CASE BootEnds \/ TickEnds
  <2>1. suspended = {}
    BY <1>7 DEF BootEnds, TickEnds, Executing, ReplayInv, MainIsParked
  <2>2. QED
    BY <1>7, <2>1
       DEF BootEnds, TickEnds, ReplayInv, MainIsParked, TagIntact, ReadRewindStops, NoChain
<1>8. CASE TickStarts
  <2>1. suspended = {}
    BY <1>8 DEF TickStarts, TickAdmitted, Idle, ReplayInv, MainIsParked
  <2>2. QED
    BY <1>8, <2>1 DEF TickStarts, ReplayInv, MainIsParked, TagIntact, ReadRewindStops
<1>9. ASSUME NEW c \in InputChains, InputStarts(c)
      PROVE  ReplayInv'
  BY <1>9 DEF InputStarts, ReplayInv, MainIsParked, TagIntact, ReadRewindStops
<1>10. ASSUME NEW c \in InputChains, InputEnds(c)
       PROVE  ReplayInv'
  BY <1>10 DEF InputEnds, ReplayInv, MainIsParked, TagIntact, ReadRewindStops, NoChain
<1>11. CASE UNCHANGED vars
  BY <1>11 DEF vars, ReplayInv, MainIsParked, TagIntact, ReadRewindStops
<1>12. QED
  BY <1>1, <1>2, <1>3, <1>4, <1>5, <1>6, <1>7, <1>8, <1>9, <1>10, <1>11 DEF Next

LEMMA ReplayAlways == ASSUME ~InputMayMiss
                      PROVE  Spec => []ReplayInv
<1>1. Init => ReplayInv
  BY DEF Init, ReplayInv, MainIsParked, TagIntact, ReadRewindStops
<1>2. ReplayInv /\ [Next]_vars => ReplayInv'
  BY ReplayStep
<1>3. QED
  BY <1>1, <1>2, PTL DEF Spec

\* As long as input callbacks read only resident assets, the guard of main_tick
\* is enough for the single rewind buffer.
THEOREM OneSuspension == ASSUME ~InputMayMiss
                         PROVE  Spec => []SingleSuspension
<1>1. ReplayInv => SingleSuspension
  BY DEF ReplayInv, MainIsParked, SingleSuspension
<1>2. QED
  BY <1>1, ReplayAlways, PTL

\* The tag of fetch_data stops the rewind of every read.
THEOREM ReadsStopTheirRewind == ASSUME ~InputMayMiss
                                PROVE  Spec => []ReadRewindStops
<1>1. ReplayInv => ReadRewindStops
  BY DEF ReplayInv, TagIntact
<1>2. QED
  BY <1>1, ReplayAlways, PTL

-----------------------------------------------------------------------------
\* A file is registered a third time by nobody.
RegistersLeft ==
  \A s \in suspended : s[2][1] = "register" => registered[s[2][2]] <= 1

Typed == TypeOK /\ RegistersLeft

\* The calls are pairs, and only those about a file are registrations, opens or reads.
LEMMA CallShapes ==
  /\ Sleep \in Calls /\ Sleep[1] = "sleep"
  /\ \A kind \in {"register", "open", "read"}, f \in Files :
       <<kind, f>> \in Calls /\ <<kind, f>>[1] = kind /\ <<kind, f>>[2] = f
  /\ \A call \in Calls : /\ call[1] \in {"register", "open", "read", "sleep"}
                          /\ call[1] # "sleep" => call[2] \in Files
BY DEF Calls, Sleep

\* A call of the chain c suspends.
LEMMA SuspendTyped ==
  ASSUME Typed, NEW c \in Chains, NEW call \in Calls, Suspend(c, call),
         call[1] = "register" => registered[call[2]] <= 1,
         UNCHANGED <<stage, asyncifyState, tickInFlight, registered, resident, opened>>,
         refused' \subseteq Chains \X Calls,
         pendingSyncRead' \in Calls \cup {NoCall},
         sizeKnown' \in [Files -> BOOLEAN]
  PROVE  Typed'
<1>1. <<c, call>> \in Chains \X Calls /\ NoChain \in Chains \cup {NoChain}
  OBVIOUS
<1>2. TypeOK'
  BY <1>1 DEF Typed, TypeOK, Suspend
<1>3. RegistersLeft'
  BY DEF Typed, RegistersLeft, Suspend
<1>4. QED
  BY <1>2, <1>3 DEF Typed

\* A wake-up of the only suspended stack.
LEMMA WakeTyped ==
  ASSUME ReplayInv, Typed, NEW c \in Chains, NEW call \in Calls, NEW ok \in BOOLEAN,
         Wake(c, call, ok)
  PROVE  Typed'
<1>1. <<c, call>> \in suspended /\ currData = <<c, call>>
  BY DEF Wake, ReplayInv, MainIsParked
<1>2. suspended' = {}
  BY <1>1 DEF Wake, ReplayInv, MainIsParked
<1>3. currData # Nobody /\ currData[2] = call /\ currData[1] = c
  BY <1>1 DEF Wake, ReplayInv, MainIsParked, Nobody, NoChain
<1>4. sizeKnown' \in [Files -> BOOLEAN]
  BY DEF Wake, Typed, TypeOK
<1>5. resident' \subseteq Files
  BY CallShapes DEF Wake, Typed, TypeOK
<1>6. registered' \in [Files -> 0 .. 2]
  <2>1. CASE call[1] = "register"
    <3>1. call[2] \in Files /\ registered[call[2]] \in 0 .. 1
      BY <1>1, <2>1, CallShapes DEF Typed, TypeOK, RegistersLeft
    <3>2. \A n \in 0 .. 1 : n + 1 \in 0 .. 2
      OBVIOUS
    <3>3. registered' = registered \/ registered' = [registered EXCEPT ![call[2]] = @ + 1]
      BY <1>3, <2>1 DEF Wake, Continue
    <3>4. QED
      BY <3>1, <3>2, <3>3 DEF Typed, TypeOK
  <2>2. CASE call[1] # "register"
    BY <1>3, <2>2 DEF Wake, Continue, Typed, TypeOK
  <2>3. QED
    BY <2>1, <2>2
<1>7. opened' \subseteq Files
  BY <1>3, CallShapes DEF Wake, Continue, Typed, TypeOK
<1>8. stage' \in {"booting", "running", "failed", "reloading"}
  BY <1>3 DEF Wake, Continue, Typed, TypeOK
<1>9. /\ running' \in Chains \cup {NoChain} /\ currData' \in (Chains \X Calls) \cup {Nobody}
      /\ asyncifyState' \in {"normal", "rewinding"}
      /\ pendingSyncRead' \in Calls \cup {NoCall} /\ tickInFlight' \in BOOLEAN
      /\ refused' \subseteq Chains \X Calls
  BY <1>3 DEF Wake, Typed, TypeOK
<1>10. QED
  BY <1>2, <1>4, <1>5, <1>6, <1>7, <1>8, <1>9 DEF Typed, TypeOK, RegistersLeft

\* Every step keeps the types.
LEMMA TypedStep ==
  ASSUME ReplayInv, Typed, [Next]_vars
  PROVE  Typed'
<1>1. ASSUME NEW f \in Files, Register(f)
      PROVE  Typed'
  <2>1. registered[f] <= 1 /\ sizeKnown' \in [Files -> BOOLEAN]
    BY <1>1 DEF Register, RegistersNow, Typed, TypeOK
  <2>2. QED
    BY <1>1, <2>1, SuspendTyped, CallShapes DEF Register, Chains, Typed, TypeOK
<1>2. ASSUME NEW f \in Files, OpenSized(f)
      PROVE  Typed'
  BY <1>2 DEF OpenSized, Typed, TypeOK, RegistersLeft
<1>3. ASSUME NEW f \in Files, OpenUnsized(f)
      PROVE  Typed'
  BY <1>3, SuspendTyped, CallShapes DEF OpenUnsized, Chains, Typed, TypeOK
<1>4. ASSUME NEW c \in Chains, NEW f \in Files, ReadMissing(c, f)
      PROVE  Typed'
  BY <1>4, SuspendTyped, CallShapes DEF ReadMissing, TagOfRead, Typed, TypeOK
<1>5. CASE SleepInSocket
  BY <1>5, SuspendTyped, CallShapes DEF SleepInSocket, Chains, Typed, TypeOK
<1>6. ASSUME NEW c \in Chains, NEW call \in Calls, NEW ok \in BOOLEAN, Wake(c, call, ok)
      PROVE  Typed'
  BY <1>6, WakeTyped
<1>7. CASE BootEnds \/ TickStarts \/ TickEnds
  BY <1>7 DEF BootEnds, TickStarts, TickEnds, Chains, Typed, TypeOK, RegistersLeft
<1>8. ASSUME NEW c \in InputChains, InputStarts(c) \/ InputEnds(c)
      PROVE  Typed'
  BY <1>8 DEF InputStarts, InputEnds, Chains, Typed, TypeOK, RegistersLeft
<1>9. CASE UNCHANGED vars
  BY <1>9 DEF vars, Typed, TypeOK, RegistersLeft
<1>10. QED
  BY <1>1, <1>2, <1>3, <1>4, <1>5, <1>6, <1>7, <1>8, <1>9 DEF Next

\* The types of the client's state; no file is registered more than twice, because
\* the stack that registers is the only one that a wake-up may resume.
THEOREM TypeCorrect == ASSUME ~InputMayMiss
                       PROVE  Spec => []TypeOK
<1>1. Init => Typed
  <2>1. /\ [f \in Files |-> 0] \in [Files -> 0 .. 2]
        /\ [f \in Files |-> FALSE] \in [Files -> BOOLEAN]
    OBVIOUS
  <2>2. Init => RegistersLeft
    BY DEF Init, RegistersLeft
  <2>3. Init => TypeOK
    BY <2>1, Zenon DEF Init, TypeOK, Chains
  <2>4. QED
    BY <2>2, <2>3 DEF Typed
<1>2. ReplayInv /\ Typed /\ [Next]_vars => Typed'
  BY TypedStep
<1>3. Typed => TypeOK
  BY DEF Typed
<1>4. QED
  BY <1>1, <1>2, <1>3, ReplayAlways, PTL DEF Spec
-----------------------------------------------------------------------------
(* The calls that suspend, as their callers see them.                       *)

\* The call every stack waits for.
Awaits == [c \in Chains |-> IF currData[1] = c THEN currData[2] ELSE NoCall]

MayHang == {"open"} \X Files

\* The buffer holds a stack only while its wake-up is to come, or for good.
BufferInUse == currData # Nobody => currData \in suspended \/ asyncifyState = "rewinding"

LEMMA CallKinds ==
  ASSUME NEW call \in Calls
  PROVE  /\ call # NoCall
         /\ call[1] = "register" \/ call[1] = "open" \/ call[1] = "read" \/ call[1] = "sleep"
         /\ call[1] = "open" => call \in MayHang
BY DEF Calls, Sleep, NoCall, MayHang

LEMMA NobodyAwaits ==
  ASSUME ReplayInv, BufferInUse, suspended = {}, asyncifyState = "normal"
  PROVE  currData = Nobody /\ Awaits = [c \in Chains |-> NoCall]
BY DEF BufferInUse, Awaits, Nobody

\* A call of the main stack, the only one that suspends.
LEMMA MainCalls ==
  ASSUME ReplayInv, BufferInUse, NEW call \in Calls, Executing("main"),
         Suspend("main", call), UNCHANGED asyncifyState
  PROVE  BufferInUse' /\ Blocking!Next
<1>1. suspended = {} /\ asyncifyState = "normal" /\ running = "main" /\ "main" \in Chains
  BY DEF ReplayInv, MainIsParked, Executing, Chains
<1>2. Awaits = [c \in Chains |-> NoCall]
  BY <1>1, NobodyAwaits
<1>3. currData' = <<"main", call>> /\ currData' \in suspended' /\ running' = NoChain
  BY DEF Suspend
<1>4. Awaits' = [Awaits EXCEPT !["main"] = call]
  BY <1>1, <1>2, <1>3 DEF Awaits
<1>5. Blocking!Call("main", call)
  BY <1>1, <1>2, <1>3, <1>4 DEF Blocking!Call, Awaits
<1>6. QED
  BY <1>1, <1>3, <1>5 DEF BufferInUse, Blocking!Next

\* A stack enters wasm or leaves it, and suspends nothing.
LEMMA EntersOrLeaves ==
  ASSUME BufferInUse, asyncifyState = "normal", NEW c \in Chains, Awaits[c] = NoCall,
         \/ running = NoChain /\ running' = c
         \/ running = c /\ running' = NoChain,
         UNCHANGED <<currData, suspended, asyncifyState>>
  PROVE  BufferInUse' /\ Blocking!Next
<1>1. Awaits' = Awaits
  BY DEF Awaits
<1>2. Blocking!Enter(c) \/ Blocking!Leave(c)
  BY <1>1 DEF Blocking!Enter, Blocking!Leave, Awaits
<1>3. QED
  BY <1>2 DEF BufferInUse, Blocking!Next

\* A wake-up returns to the stack that waits for it, or freezes on an open.
LEMMA WakeReturns ==
  ASSUME ReplayInv, BufferInUse, NEW c \in Chains, NEW call \in Calls,
         NEW ok \in BOOLEAN, Wake(c, call, ok)
  PROVE  BufferInUse' /\ Blocking!Next
<1>1. <<c, call>> \in suspended /\ running = NoChain /\ asyncifyState = "normal"
  BY DEF Wake
<1>2. currData = <<c, call>> /\ currData # Nobody
  BY <1>1 DEF ReplayInv, MainIsParked, Nobody, NoChain
<1>3. Awaits = [d \in Chains |-> IF d = c THEN call ELSE NoCall]
  BY <1>2 DEF Awaits
<1>4. call # NoCall
  BY CallKinds
<1>5. CASE currData' = Nobody
  <2>1. running' = c /\ UNCHANGED asyncifyState
    BY <1>2, <1>5 DEF Wake
  <2>2. Awaits' = [d \in Chains |-> NoCall]
    BY <1>5 DEF Awaits, Nobody
  <2>3. Awaits' = [Awaits EXCEPT ![c] = NoCall]
    BY <1>3, <2>2
  <2>4. Blocking!Return(c)
    BY <1>1, <1>3, <1>4, <2>1, <2>3 DEF Blocking!Return, Awaits
  <2>5. QED
    BY <1>1, <1>5, <2>4 DEF BufferInUse, Blocking!Next
<1>6. CASE currData' # Nobody
  <2>1. /\ asyncifyState' = "rewinding" /\ UNCHANGED <<running, currData>>
        /\ \/ call[1] = "open"
           \/ call[1] = "read" /\ pendingSyncRead # call
    BY <1>2, <1>6, CallKinds DEF Wake, StopsRewind
  <2>2. call[1] = "open"
    BY <1>1, <2>1 DEF ReplayInv, TagIntact
  <2>3. call \in MayHang
    BY <2>2, CallKinds
  <2>4. Awaits' = Awaits
    BY <2>1 DEF Awaits
  <2>5. Blocking!Hang(c)
    BY <1>1, <1>3, <2>1, <2>3, <2>4 DEF Blocking!Hang, Awaits, MayHang
  <2>6. QED
    BY <1>1, <2>1, <2>5 DEF BufferInUse, Blocking!Next
<1>7. QED
  BY <1>5, <1>6

\* Every step is one of the blocking calls, or none that they show.
LEMMA BlockingStep ==
  ASSUME ~InputMayMiss, ReplayInv, BufferInUse, [Next]_vars
  PROVE  /\ BufferInUse'
         /\ Blocking!Next \/ UNCHANGED <<running, Awaits, asyncifyState>>
<1> USE ReplayAssumption DEF ReplayAssumption
<1>1. ASSUME NEW f \in Files, Register(f) \/ OpenUnsized(f)
      PROVE  BufferInUse' /\ Blocking!Next
  BY <1>1, MainCalls, CallShapes DEF Register, OpenUnsized
<1>2. ASSUME NEW f \in Files, OpenSized(f)
      PROVE  BufferInUse' /\ UNCHANGED <<running, Awaits, asyncifyState>>
  BY <1>2 DEF OpenSized, BufferInUse, Awaits
<1>3. ASSUME NEW c \in Chains, NEW f \in Files, ReadMissing(c, f)
      PROVE  BufferInUse' /\ Blocking!Next
  <2>1. c = "main"
    BY <1>3 DEF ReadMissing
  <2>2. QED
    BY <1>3, <2>1, MainCalls, CallShapes DEF ReadMissing
<1>4. CASE SleepInSocket
  BY <1>4, MainCalls, CallShapes DEF SleepInSocket
<1>5. ASSUME NEW c \in Chains, NEW call \in Calls, NEW ok \in BOOLEAN, Wake(c, call, ok)
      PROVE  BufferInUse' /\ Blocking!Next
  BY <1>5, WakeReturns
<1>6. CASE BootEnds \/ TickStarts \/ TickEnds
  <2>1. suspended = {} /\ asyncifyState = "normal" /\ "main" \in Chains
    BY <1>6 DEF BootEnds, TickStarts, TickEnds, TickAdmitted, Executing, Idle, ReplayInv,
                MainIsParked, Chains
  <2>2. Awaits["main"] = NoCall
    BY <2>1, NobodyAwaits
  <2>3. QED
    BY <1>6, <2>1, <2>2, EntersOrLeaves DEF BootEnds, TickStarts, TickEnds, Executing, Idle
<1>7. ASSUME NEW c \in InputChains, InputStarts(c) \/ InputEnds(c)
      PROVE  BufferInUse' /\ Blocking!Next
  <2>1. c \in Chains /\ c # "main" /\ asyncifyState = "normal"
    BY <1>7 DEF Chains, InputStarts, InputEnds, Executing, Idle
  <2>2. Awaits[c] = NoCall
    <3>1. CASE currData = Nobody
      BY <2>1, <3>1 DEF Awaits, Nobody
    <3>2. CASE currData # Nobody
      BY <2>1, <3>2 DEF Awaits, BufferInUse, ReplayInv, MainIsParked
    <3>3. QED
      BY <3>1, <3>2
  <2>3. QED
    BY <1>7, <2>1, <2>2, EntersOrLeaves DEF InputStarts, InputEnds, Executing, Idle
<1>8. CASE UNCHANGED vars
  BY <1>8 DEF vars, BufferInUse, Awaits
<1>9. QED
  BY <1>1, <1>2, <1>3, <1>4, <1>5, <1>6, <1>7, <1>8 DEF Next

\* For any number of files and of input callbacks that find their assets, what
\* suspends a stack is a plain blocking call to the code above it.
THEOREM SuspensionsAreCalls == ASSUME ~InputMayMiss
                               PROVE  Spec => CallsBlock
<1> DEFINE Hung == asyncifyState = "rewinding"
<1>1. Init => Blocking!Init /\ BufferInUse
  <2> SUFFICES ASSUME Init
               PROVE  Blocking!Init /\ BufferInUse
    OBVIOUS
  <2>1. Awaits = [c \in Chains |-> NoCall]
    BY DEF Init, Awaits, Nobody
  <2>2. Blocking!Init
    BY <2>1 DEF Init, Blocking!Init, Chains, Awaits
  <2>3. QED
    BY <2>2 DEF Init, BufferInUse
<1>2. ReplayInv /\ BufferInUse /\ [Next]_vars =>
        BufferInUse' /\ [Blocking!Next]_<<running, Awaits, Hung>>
  BY BlockingStep
<1>3. QED
  BY <1>1, <1>2, ReplayAlways, PTL DEF Spec, CallsBlock, Blocking!Spec, Awaits
=============================================================================
