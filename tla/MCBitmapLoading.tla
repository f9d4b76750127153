-------------------------- MODULE MCBitmapLoading --------------------------
(****************************************************************************)
(* Bitmaps for TLC: one of two chunks, and one that shares a chunk with it. *)
(****************************************************************************)
EXTENDS BitmapLoading

FirstChunk == [b \in Ranges |-> 1]
LastChunk == [b \in Ranges |-> IF b = 2 THEN 1 ELSE 2]

TwoUses == [b \in Ranges |->
  IF b = 1 THEN {"BACKGROUND", "MAP_REQUIRED", "BLOCKING_VISIBLE"}
  ELSE {"TRANSIENT_EFFECT"}]
=============================================================================
