---------------------------- MODULE MCLazyFSCache ----------------------------
(* A file read by one client while it is rewritten, with one interruption   *)
(* (a lost connection, a timeout, a page load, another client's request):   *)
(* three images of one chunk, or two of two chunks on one connection.       *)
EXTENDS LazyFSCache, TLC

CONSTANTS t1, t2

TwoChunks == [image \in Images |-> 2]
WholeFile == {<<0, 1>>}
OneChunk == [image \in Images |-> 1]
FirstChunk == {<<0, 0>>}
TaskSymmetry == Permutations(Tasks)
=============================================================================
