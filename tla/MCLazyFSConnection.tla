-------------------------- MODULE MCLazyFSConnection --------------------------
(* A small instance of LazyFSConnection: a key asked for twice, so that a   *)
(* re-request can meet the late answer of a timed-out one, and another key. *)
EXTENDS LazyFSConnection, TLC

CONSTANTS r1, r2, r3, kSize, kBatch

MCKeyOf == (r1 :> kSize) @@ (r2 :> kBatch) @@ (r3 :> kBatch)
=============================================================================
