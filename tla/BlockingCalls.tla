---------------------------- MODULE BlockingCalls ----------------------------
(***************************************************************************)
(* What the C++ code takes for granted of the calls that wait for an       *)
(* asset, a registration or a timer: such a call stops the stack that made *)
(* it, and no code of that stack runs until this very call returns, to     *)
(* that stack. Other stacks may run and end meanwhile. A call in MayHang   *)
(* may instead never return, and then the program is frozen.               *)
(***************************************************************************)
CONSTANTS
  Chains, NoChain,  \* the stacks, and "none of them runs"
  Calls, NoCall,
  MayHang           \* calls that may freeze the program

VARIABLES
  running,  \* the stack that executes
  calling,  \* [Chains -> the call the stack waits for, or NoCall]
  hung

Init ==
  /\ running \in Chains
  /\ calling = [c \in Chains |-> NoCall]
  /\ hung = FALSE

Enter(c) ==
  /\ running = NoChain
  /\ calling[c] = NoCall
  /\ running' = c
  /\ UNCHANGED <<calling, hung>>

Leave(c) ==
  /\ running = c
  /\ running' = NoChain
  /\ UNCHANGED <<calling, hung>>

Call(c, call) ==
  /\ running = c
  /\ calling[c] = NoCall
  /\ calling' = [calling EXCEPT ![c] = call]
  /\ running' = NoChain
  /\ UNCHANGED hung

Return(c) ==
  /\ running = NoChain
  /\ calling[c] # NoCall
  /\ calling' = [calling EXCEPT ![c] = NoCall]
  /\ running' = c
  /\ UNCHANGED hung

Hang(c) ==
  /\ running = NoChain
  /\ calling[c] \in MayHang
  /\ hung' = TRUE
  /\ UNCHANGED <<running, calling>>

Next ==
  /\ ~hung
  /\ \E c \in Chains :
       \/ Enter(c) \/ Leave(c) \/ Return(c) \/ Hang(c)
       \/ \E call \in Calls : Call(c, call)

Spec == Init /\ [][Next]_<<running, calling, hung>>
=============================================================================
