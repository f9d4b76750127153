------------------------------ MODULE WsProxy ------------------------------
(****************************************************************************)
(* The WebSocket proxy (src/ws-proxy) between the browser and the game      *)
(* server: one session per WebSocket, which reads the target address, dials *)
(* it and bridges both directions until one side ends.                      *)
(*                                                                          *)
(* The byte stream of a game server is the same on every connection: a      *)
(* hello of HANDSHAKE_LEN cells and then packets, packet k being a header   *)
(* of HEADER_LENGTH cells and a body of LengthOf[k] cells from the position *)
(* Start[k] on. A position counts the cells before it, so sent, relayed and *)
(* the client's counters say how far each of them is in the same stream.    *)
(*                                                                          *)
(* The game server is external: it greets, answers once it has heard from   *)
(* the client, and may close. The path to the browser may break at any      *)
(* time; a broken path loses what is on it and says nothing to the proxy.   *)
(****************************************************************************)
EXTENDS Integers, Sequences

CONSTANTS
  MaxConns,       \* WebSockets the client opens (bound)
  MaxPackets,     \* packets a server sends on one connection (bound)
  HANDSHAKE_LEN,  \* cells of the hello
  HEADER_LENGTH,  \* cells of a packet's header
  LengthOf,       \* body length of every packet
  Start,          \* position of every packet's first cell
  Fragile         \* connections whose server, path or page may go away (bound)

Conns == 1 .. MaxConns
Packets == 1 .. MaxPackets

ASSUME StreamAssumption ==
  /\ MaxConns \in Nat
  /\ MaxPackets \in Nat
  /\ HANDSHAKE_LEN \in Nat \ {0}
  /\ HEADER_LENGTH \in Nat \ {0}
  /\ LengthOf \in [Packets -> Nat \ {0}]
  /\ Start \in [1 .. MaxPackets + 1 -> Nat]
  /\ Start[1] = HANDSHAKE_LEN
  /\ \A k \in Packets : Start[k + 1] = Start[k] + HEADER_LENGTH + LengthOf[k]
  /\ Fragile \subseteq Conns

VARIABLES
  session,       \* [Conns -> where handle_connection is]
  wsUp,          \* [Conns -> Seq(frames from the browser not yet read)]
  wsBroken,      \* [Conns -> the path to the browser is broken]
  sent,          \* [Conns -> position the server has written up to]
  relayed,       \* [Conns -> position up to which frames went to the browser]
  serverClosed,  \* [Conns -> the game server closed its side]
  heard          \* [Conns -> Seq(packets the game server has read)]

proxyVars == <<session, wsUp, wsBroken, sent, relayed, serverClosed, heard>>

Target == [type |-> "text"]
Close == [type |-> "close"]
Binary(keys, n) == [type |-> "binary", keys |-> keys, n |-> n]

ProxyInit ==
  /\ session = [c \in Conns |-> "none"]
  /\ wsUp = [c \in Conns |-> <<>>]
  /\ wsBroken = [c \in Conns |-> FALSE]
  /\ sent = [c \in Conns |-> 0]
  /\ relayed = [c \in Conns |-> 0]
  /\ serverClosed = [c \in Conns |-> FALSE]
  /\ heard = [c \in Conns |-> <<>>]

-----------------------------------------------------------------------------
(* The frame of type t that the session reads next, if the path still works. *)
Reads(c, t) == /\ ~wsBroken[c]
               /\ wsUp[c] # <<>>
               /\ Head(wsUp[c]).type = t

(* handle_connection returns: both sockets are shut down, and what either     *)
(* side had sent and nobody has read is lost.                                 *)
EndSession(c) ==
  /\ session' = [session EXCEPT ![c] = "closed"]
  /\ wsUp' = [wsUp EXCEPT ![c] = <<>>]
  /\ sent' = [sent EXCEPT ![c] = relayed[c]]

(* The proxy accepts a WebSocket and waits for its first message. *)
Accept(c) ==
  /\ session[c] = "none"
  /\ session' = [session EXCEPT ![c] = "waiting"]
  /\ UNCHANGED <<wsUp, wsBroken, sent, relayed, serverClosed, heard>>

(* The first message names the target; the dial succeeds or is refused. *)
Dial(c) ==
  /\ session[c] = "waiting"
  /\ Reads(c, "text")
  /\ \/ /\ session' = [session EXCEPT ![c] = "bridging"]
        /\ wsUp' = [wsUp EXCEPT ![c] = Tail(@)]
        /\ UNCHANGED sent
     \/ EndSession(c)
  /\ UNCHANGED <<wsBroken, relayed, serverClosed, heard>>

(* The browser closes before it has named a target. *)
LeaveEarly(c) ==
  /\ session[c] = "waiting"
  /\ Reads(c, "close")
  /\ EndSession(c)
  /\ UNCHANGED <<wsBroken, relayed, serverClosed, heard>>

(* A binary frame goes to the server. What is written to a server that has  *)
(* closed is lost, or fails, and then the loop ends.                         *)
Downstream(c) ==
  /\ session[c] = "bridging"
  /\ Reads(c, "binary")
  /\ wsUp' = [wsUp EXCEPT ![c] = Tail(@)]
  /\ \/ /\ ~serverClosed[c]
        /\ heard' = [heard EXCEPT ![c] = Append(@, Head(wsUp[c]))]
        /\ UNCHANGED session
     \/ /\ serverClosed[c]
        /\ \E outcome \in {"bridging", "closing"} :
             session' = [session EXCEPT ![c] = outcome]
        /\ UNCHANGED heard
  /\ UNCHANGED <<wsBroken, sent, relayed, serverClosed>>

DownstreamEnds_Fault(c) ==
  /\ session[c] = "bridging"
  /\ ~wsBroken[c] /\ \E i \in DOMAIN wsUp[c] : wsUp[c][i] = Close
  /\ session' = [session EXCEPT ![c] = "closing"]
  /\ UNCHANGED <<wsUp, wsBroken, sent, relayed, serverClosed, heard>>

(* A close frame ends the loop. *)
DownstreamEnds(c) ==
  /\ session[c] = "bridging"
  /\ Reads(c, "close")
  /\ session' = [session EXCEPT ![c] = "closing"]
  /\ UNCHANGED <<wsUp, wsBroken, sent, relayed, serverClosed, heard>>

(* What the server has sent goes to the browser, one frame for every read;    *)
(* where the reads cut the stream shows when the frames arrive (OnMessage).   *)
(* The other arms wait for a send: on a broken path it hangs, and the frame   *)
(* never arrives.                                                             *)
Upstream(c) ==
  /\ session[c] = "bridging"
  /\ relayed[c] < sent[c]
  /\ IF wsBroken[c]
     THEN session' = [session EXCEPT ![c] = "sending"] /\ UNCHANGED relayed
     ELSE relayed' = [relayed EXCEPT ![c] = sent[c]] /\ UNCHANGED session
  /\ UNCHANGED <<wsUp, wsBroken, sent, serverClosed, heard>>

(* The kernel gives up on the broken path: the send fails and bridge_session *)
(* returns at once.                                                           *)
SendFails(c) ==
  /\ session[c] = "sending"
  /\ EndSession(c)
  /\ UNCHANGED <<wsBroken, relayed, serverClosed, heard>>

(* The server's end of stream ends the loop, after its last byte was relayed. *)
UpstreamEnds(c) ==
  /\ session[c] = "bridging"
  /\ serverClosed[c]
  /\ relayed[c] = sent[c]
  /\ session' = [session EXCEPT ![c] = "closing"]
  /\ UNCHANGED <<wsUp, wsBroken, sent, relayed, serverClosed, heard>>

LivenessTick_Fault(c) ==
  /\ session[c] = "bridging"
  /\ wsBroken[c]
  /\ UNCHANGED proxyVars

(* Nothing was heard from the browser for longer than the timeout (a live     *)
(* browser answers the pings): the session is dropped without a close frame.  *)
LivenessTick(c) ==
  /\ session[c] = "bridging"
  /\ wsBroken[c]
  /\ EndSession(c)
  /\ UNCHANGED <<wsBroken, relayed, serverClosed, heard>>

(* After the loop: the close frame is sent, or fails, and the target socket   *)
(* is shut down in both directions.                                           *)
Teardown(c) ==
  /\ session[c] = "closing"
  /\ EndSession(c)
  /\ UNCHANGED <<wsBroken, relayed, serverClosed, heard>>

ProxyStep(c) ==
  \/ Dial(c) \/ LeaveEarly(c) \/ Downstream(c) \/ DownstreamEnds(c)
  \/ Upstream(c) \/ SendFails(c) \/ UpstreamEnds(c) \/ LivenessTick(c)
  \/ Teardown(c)

(* The broken path may also be reported as an error of the stream, which ends *)
(* the session; nothing can count on it.                                      *)
StreamError(c) ==
  /\ wsBroken[c]
  /\ \/ session[c] = "waiting" /\ EndSession(c)
     \/ /\ session[c] = "bridging"
        /\ session' = [session EXCEPT ![c] = "closing"]
        /\ UNCHANGED <<wsUp, sent>>
  /\ UNCHANGED <<wsBroken, relayed, serverClosed, heard>>

-----------------------------------------------------------------------------
(* External: the game server greets, and answers once it was written to. *)
ServerWrites(c) ==
  /\ session[c] = "bridging"
  /\ ~serverClosed[c]
  /\ \/ sent[c] = 0 /\ sent' = [sent EXCEPT ![c] = HANDSHAKE_LEN]
     \/ /\ heard[c] # <<>>
        /\ \E k \in Packets : /\ sent[c] = Start[k]
                              /\ sent' = [sent EXCEPT ![c] = Start[k + 1]]
  /\ UNCHANGED <<session, wsUp, wsBroken, relayed, serverClosed, heard>>

(* External: the game server closes its side. *)
ServerCloses(c) ==
  /\ c \in Fragile
  /\ session[c] = "bridging"
  /\ ~serverClosed[c]
  /\ serverClosed' = [serverClosed EXCEPT ![c] = TRUE]
  /\ UNCHANGED <<session, wsUp, wsBroken, sent, relayed, heard>>

(* External: the path between browser and proxy breaks. *)
PathBreaks(c) ==
  /\ c \in Fragile
  /\ session[c] \notin {"none", "closed"}
  /\ ~wsBroken[c]
  /\ wsBroken' = [wsBroken EXCEPT ![c] = TRUE]
  /\ UNCHANGED <<session, wsUp, sent, relayed, serverClosed, heard>>
=============================================================================
