---------------------------- MODULE PacketStream ----------------------------
(****************************************************************************)
(* What the game link promises to the packet handlers: they see the packets *)
(* of one connection after the other, those of a connection from the first  *)
(* one on, in order and without a gap, and never one of an earlier          *)
(* connection once a later one has spoken. Packets at the end of a          *)
(* connection may be missing: it was closed or replaced.                    *)
(****************************************************************************)
EXTENDS Integers, Sequences

CONSTANT Conns  \* the connections, numbered as they were opened

VARIABLE delivered  \* Seq([conn, packet]), everything the handlers have seen

Empty == [conn |-> 0, packet |-> 0]

Latest == IF delivered = <<>> THEN Empty ELSE delivered[Len(delivered)]

Init == delivered = <<>>

(* The next packet of connection c, which is the latest one or a later one. *)
Deliver(c) ==
  /\ c >= Latest.conn
  /\ delivered' = Append(delivered,
       [conn |-> c, packet |-> IF c = Latest.conn THEN Latest.packet + 1 ELSE 1])

Next == \E c \in Conns : Deliver(c)

Spec == Init /\ [][Next]_delivered
=============================================================================
