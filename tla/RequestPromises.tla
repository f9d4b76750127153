--------------------------- MODULE RequestPromises ---------------------------
(***************************************************************************)
(* What the LazyFS connection promises to whoever calls request(): a call  *)
(* is accepted or refused at once; of the calls for one key at most one is *)
(* waiting at a time; a promise settles once, for good. When the           *)
(* connection is given up, every caller that waits learns it in the same   *)
(* step, nobody waits while it is down, and work is taken again only after *)
(* a retry. Nothing here speaks of sockets, timers or replays.             *)
(***************************************************************************)
CONSTANTS Requests, KeyOf

VARIABLES
  fate,  \* of each call's promise
  down   \* the connection has been given up

Waiting(r) == fate[r] = "pending"

Init ==
  /\ fate = [r \in Requests |-> "new"]
  /\ down = FALSE

Accept(r) ==
  /\ ~down
  /\ fate[r] = "new"
  /\ \A q \in Requests : KeyOf[q] = KeyOf[r] => ~Waiting(q)
  /\ fate' = [fate EXCEPT ![r] = "pending"]
  /\ UNCHANGED down

Refuse(r) ==
  /\ down
  /\ fate[r] = "new"
  /\ fate' = [fate EXCEPT ![r] = "rejected"]
  /\ UNCHANGED down

Settle(r) ==
  /\ Waiting(r)
  /\ \E outcome \in {"resolved", "rejected"} : fate' = [fate EXCEPT ![r] = outcome]
  /\ UNCHANGED down

GiveUp ==
  /\ ~down
  /\ down' = TRUE
  /\ fate' = [r \in Requests |-> IF Waiting(r) THEN "rejected" ELSE fate[r]]

Retry ==
  /\ down
  /\ down' = FALSE
  /\ UNCHANGED fate

Next ==
  \/ \E r \in Requests : Accept(r) \/ Refuse(r) \/ Settle(r)
  \/ GiveUp \/ Retry

Spec == Init /\ [][Next]_<<fate, down>>
=============================================================================
