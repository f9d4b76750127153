-------------------------- MODULE AssetsServerAnswers --------------------------
(***************************************************************************)
(* The assets server with clients that ask for the file at any time and    *)
(* two history variables that say what an answer may be compared with.     *)
(***************************************************************************)
EXTENDS AssetsServer

VARIABLES
  seen,      \* images the file has had since the task's request arrived
  failed     \* the file system failed that request

vars == <<serverVars, seen, failed>>

Init ==
  /\ ServerInit
  /\ seen = [t \in Tasks |-> {}]
  /\ failed = [t \in Tasks |-> FALSE]

RewriteSeen ==
  /\ Rewrite
  /\ seen' = [t \in Tasks |-> IF pc[t] = "idle" THEN {} ELSE seen[t] \cup {disk'}]
  /\ UNCHANGED failed

Asks(t, r) ==
  /\ Arrive(t, r)
  /\ seen' = [seen EXCEPT ![t] = {disk}]
  /\ UNCHANGED failed

Answered(t) ==
  /\ Finish(t)
  /\ seen' = [seen EXCEPT ![t] = {}]
  /\ failed' = [failed EXCEPT ![t] = FALSE]

\* A request that is lost with its task leaves nothing to compare an answer with.
Lost(t) ==
  /\ Replaced(t)
  /\ seen' = [seen EXCEPT ![t] = {}]
  /\ failed' = [failed EXCEPT ![t] = FALSE]

TaskWorks(t) == Works(t) /\ UNCHANGED <<seen, failed>>

TaskFails(t) == Fails(t) /\ failed' = [failed EXCEPT ![t] = TRUE] /\ UNCHANGED seen

Next ==
  \/ RewriteSeen
  \/ \E t \in Tasks :
        \/ TaskWorks(t) \/ TaskFails(t) \/ Answered(t) \/ Lost(t)
        \/ Asks(t, SizeRequest)
        \/ \E range \in Ranges : Asks(t, ChunksRequest(range[1], range[2]))

Spec == Init /\ [][Next]_vars

\* tokio polls every task that can run, and the file system answers.
FairSpec ==
  /\ Spec
  /\ \A t \in Tasks : WF_vars(TaskWorks(t)) /\ WF_vars(Answered(t))

-----------------------------------------------------------------------------
\* An answer is current: the version it is served under was the version of
\* the file at some moment since the request arrived, unless the file system
\* failed this very request.  (get releases the lock between its look-up, its
\* stale check and its rebuild, and concurrent requests rebuild once.)
AnswerIsCurrent ==
  \A t \in Tasks :
     pc[t] \in {"serve", "done"} /\ ~failed[t] => asset[t].version \in seen[t]

\* The write lock is granted in the end to a task that waits for it, however
\* often others take it meanwhile: std::sync::RwLock does not promise that.
LockIsFair ==
  \A t \in Tasks :
     SF_vars((LosesRace(t) \/ BeginBuild(t)) /\ UNCHANGED <<seen, failed>>)

\* In the end the file is left alone, and can be read.
Calm == <>[][UNCHANGED disk /\ \A t \in Tasks : ~TaskFails(t)]_vars

\* The metadata of the asset announce more than its data hold, because the file
\* was rewritten between the two reads of a rebuild.
Torn(t) == SizeOf[asset[t].data] < SizeOf[asset[t].version]

\* Every request is answered or, if its asset is torn, lost in a panic: other
\* requests that rebuild the entry do not keep it for ever, even though the file
\* is rewritten again and again if the lock is fair, and without any promise of
\* the lock once the file is left alone.
EveryRequestAnswered ==
  LockIsFair \/ Calm =>
    \A t \in Tasks :
       pc[t] = "check" ~> pc[t] = "done" \/ (pc[t] = "panicked" /\ Torn(t))
=============================================================================
