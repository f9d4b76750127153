--------------------------- MODULE MCGameSession ---------------------------
(****************************************************************************)
(* Small streams for TLC: a header of two cells, so that it may be cut, and *)
(* packets of different lengths, so that a misread length shows.            *)
(****************************************************************************)
EXTENDS GameSession

TwoLengths == <<1, 2>>
TwoStarts == <<HANDSHAKE_LEN, HANDSHAKE_LEN + HEADER_LENGTH + 1,
               HANDSHAKE_LEN + 2 * HEADER_LENGTH + 3>>
=============================================================================
