---------------------------- MODULE MCAssetsServer ----------------------------
(* The assets server with a file of two chunks that may shrink to one and   *)
(* grow again, and two connections that ask for it at the same time.        *)
EXTENDS AssetsServerAnswers

Shrinking == [image \in Images |-> IF image = 2 THEN 1 ELSE 2]
ShrinkingLast == [image \in Images |-> IF image = LastImage THEN 1 ELSE 2]
WholeFile == {<<0, 1>>}
=============================================================================
