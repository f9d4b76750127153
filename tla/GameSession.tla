---------------------------- MODULE GameSession ----------------------------
(****************************************************************************)
(* The client's end of the game link: Session over SocketWinsock over the   *)
(* WebSocket instances of SockInternal (src/src/client/Net), on top of the  *)
(* proxy. One thread runs everything: the main loop reads the socket once   *)
(* per frame and walks what it got packet by packet; a packet handler may   *)
(* replace the connection while the walk is under way; opening a connection *)
(* suspends twice, until the WebSocket is open and until the hello is here. *)
(*                                                                          *)
(* WebSocket callbacks run whenever the thread is not inside a step below,  *)
(* so also between two packets: a handler may suspend to read an asset. No  *)
(* frame runs while a logout waits for its new connection, and no input     *)
(* while the handler waits for its own: the interface is disabled.          *)
(****************************************************************************)
EXTENDS WsProxy

CONSTANT MaxWrites  \* packets the client writes on one connection (bound)

ASSUME WritesAssumption == MaxWrites \in Nat

VARIABLES
  opened,    \* WebSockets created so far: the last one is number opened
  inst,      \* [Conns -> the WebSockInstance: CONNECTING from the start, though
             \* it exists from the time the number is opened, then OPEN, then
             \* closed by the client or lost]
  arrived,   \* [Conns -> position up to which onmessage has buffered]
  taken,     \* [Conns -> position up to which ws_recv has fetched]
  sock,      \* SocketWinsock::sock, 0 for none
  keys,      \* connection whose hello keyed cryptography, 0 for none
  rx,        \* packets decrypted with these keys (the state of recviv)
  tx,        \* packets encrypted with these keys (the state of sendiv)
  connected, connection_changed, header_pos, length, pos,  \* Session
  bytes,     \* what process() still has to walk: connection, position, amount
  pc,        \* where the thread is
  caller,    \* who opens the connection
  loggedOut, \* history: the player has logged out
  stream     \* history: every packet forwarded until the first logout; a packet
             \* that was misread has number 0

sessionVars == <<sock, keys, rx, tx, connected, connection_changed, header_pos,
                 length, pos, bytes, pc, caller>>
historyVars == <<loggedOut, stream>>
instVars == <<opened, inst, arrived, taken>>
vars == <<proxyVars, instVars, sessionVars, historyVars>>

Lesser(a, b) == IF a < b THEN a ELSE b

Init ==
  /\ ProxyInit
  /\ opened = 0
  /\ inst = [c \in Conns |-> "CONNECTING"]
  /\ arrived = [c \in Conns |-> 0]
  /\ taken = [c \in Conns |-> 0]
  /\ sock = 0 /\ keys = 0 /\ rx = 0 /\ tx = 0
  /\ connected = FALSE /\ connection_changed = FALSE
  /\ header_pos = 0 /\ length = 0 /\ pos = 0
  /\ bytes = [conn |-> 0, at |-> 0, left |-> 0]
  /\ pc = "start"
  /\ caller = "boot"
  /\ loggedOut = FALSE /\ stream = <<>>

-----------------------------------------------------------------------------
(* remove_instance: the instance of c is closed and erased with its buffer. *)
Remove(c, how) ==
  /\ inst' = [inst EXCEPT ![c] = how]
  /\ arrived' = [arrived EXCEPT ![c] = 0]
  /\ taken' = [taken EXCEPT ![c] = 0]

(* Callbacks of the browser *)

OnOpen(c) ==
  /\ c <= opened
  /\ inst[c] = "CONNECTING"
  /\ Accept(c)
  /\ inst' = [inst EXCEPT ![c] = "OPEN"]
  /\ UNCHANGED <<opened, arrived, taken, sessionVars, historyVars>>

(* A frame, which holds any part of the stream that follows, is appended to  *)
(* the buffer of its instance.                                               *)
OnMessage(c) ==
  /\ inst[c] = "OPEN"
  /\ ~wsBroken[c]
  /\ \E p \in arrived[c] + 1 .. relayed[c] : arrived' = [arrived EXCEPT ![c] = p]
  /\ UNCHANGED <<opened, inst, taken, proxyVars, sessionVars, historyVars>>

(* The socket failed or was closed by the proxy, after its last frame: the   *)
(* instance is removed, with what it has buffered.                           *)
OnClose(c) ==
  /\ c <= opened
  /\ \/ inst[c] = "CONNECTING"
     \/ inst[c] = "OPEN" /\ wsBroken[c]
     \/ inst[c] = "OPEN" /\ session[c] = "closed" /\ arrived[c] = relayed[c]
  /\ Remove(c, "lost")
  /\ UNCHANGED <<opened, proxyVars, sessionVars, historyVars>>

(* External: the page is closed, and with it the socket.                     *)
PageCloses(c) ==
  /\ c \in Fragile
  /\ inst[c] = "OPEN"
  /\ wsUp' = IF session[c] = "closed" THEN wsUp
             ELSE [wsUp EXCEPT ![c] = Append(@, Close)]
  /\ Remove(c, "closed")
  /\ pc' = "stopped"
  /\ UNCHANGED <<session, wsBroken, sent, relayed, serverClosed, heard, opened,
                 sock, keys, rx, tx, connected, connection_changed, header_pos,
                 length, pos, bytes, caller, historyVars>>

-----------------------------------------------------------------------------
Alive(c) == c \in Conns /\ inst[c] = "OPEN"

(* dispatch: the frames go up on the current socket; a socket that is gone,   *)
(* on this end or on the other, drops them.                                   *)
SendUp(frames) ==
  wsUp' = IF Alive(sock) /\ session[sock] # "closed"
          THEN [wsUp EXCEPT ![sock] = @ \o frames] ELSE wsUp

CloseSocket_Fault(frames) ==
  /\ SendUp(Append(frames, Close))
  /\ UNCHANGED <<inst, arrived, taken>>

(* SocketWinsock::close, after the frames the client has just written: the    *)
(* instance, if it is still there, is closed and removed.                     *)
CloseSocket(frames) ==
  /\ SendUp(Append(frames, Close))
  /\ IF Alive(sock) THEN Remove(sock, "closed")
     ELSE UNCHANGED <<inst, arrived, taken>>

(* WebSockManager::connect creates the next WebSocket and waits for it.       *)
NewSocket(by) ==
  /\ opened < MaxConns
  /\ opened' = opened + 1
  /\ pc' = "connecting"
  /\ caller' = by

ResetFraming == header_pos' = 0 /\ length' = 0 /\ pos' = 0

-----------------------------------------------------------------------------
(* Opening a connection: boot, reconnect() and the logout all end in init(). *)

Boot ==
  /\ pc = "start"
  /\ NewSocket("boot")
  /\ UNCHANGED <<proxyVars, inst, arrived, taken, sock, keys, rx, tx, connected,
                 connection_changed, header_pos, length, pos, bytes, historyVars>>

(* The poll of connect() finds the socket open and sends the target address. *)
Connected ==
  /\ pc = "connecting"
  /\ inst[opened] = "OPEN"
  /\ wsUp' = [wsUp EXCEPT ![opened] = Append(@, Target)]
  /\ sock' = opened
  /\ pc' = "hello"
  /\ UNCHANGED <<session, wsBroken, sent, relayed, serverClosed, heard, instVars,
                 keys, rx, tx, connected, connection_changed, header_pos, length,
                 pos, bytes, caller, historyVars>>

InitReturns_Fault(ok) ==
  /\ connected' = ok
  /\ ResetFraming
  /\ connection_changed' = FALSE
  /\ pc' = CASE caller = "boot" /\ ~ok -> "stopped"
             [] caller = "handler" /\ bytes.left > 0 -> "process"
             [] OTHER -> "tick"
  /\ UNCHANGED <<opened, inst, arrived, session, wsBroken, sent, relayed,
                 serverClosed, heard, bytes, caller, historyVars>>

(* init() returns ok to its caller. process() consumes the mark reconnect()   *)
(* leaves and drops the bytes that were left; the handler then logs in.       *)
(* After a logout the mark stays. A boot that fails ends the program.         *)
InitReturns(ok) ==
  /\ connected' = ok
  /\ ResetFraming
  /\ connection_changed' = (caller # "handler" /\ connection_changed)
  /\ pc' = IF caller = "boot" /\ ~ok THEN "stopped" ELSE "tick"
  /\ UNCHANGED <<opened, inst, arrived, session, wsBroken, sent, relayed,
                 serverClosed, heard, bytes, caller, historyVars>>

Hello_Fault ==
  /\ pc = "hello"
  /\ inst[sock] = "OPEN"
  /\ arrived[sock] - taken[sock] = HANDSHAKE_LEN
  /\ taken' = [taken EXCEPT ![sock] = arrived[sock]]
  /\ keys' = sock
  /\ rx' = 0
  /\ tx' = IF caller = "handler" THEN tx + 1 ELSE tx
  /\ SendUp(IF caller = "handler" THEN <<Binary(sock, tx + 1)>> ELSE <<>>)
  /\ InitReturns(TRUE)
  /\ UNCHANGED sock

(* The hello is here, alone: its keys replace the old ones.                   *)
Hello ==
  /\ pc = "hello"
  /\ inst[sock] = "OPEN"
  /\ arrived[sock] - taken[sock] = HANDSHAKE_LEN
  /\ taken' = [taken EXCEPT ![sock] = arrived[sock]]
  /\ keys' = sock
  /\ rx' = 0
  /\ tx' = IF caller = "handler" THEN 1 ELSE 0
  /\ SendUp(IF caller = "handler" THEN <<Binary(sock, 1)>> ELSE <<>>)
  /\ InitReturns(TRUE)
  /\ UNCHANGED sock

(* The socket was lost while connecting or waiting, or the wait timed out, or *)
(* a read of up to twice its length did not return exactly a hello.           *)
OpenFails ==
  /\ \/ /\ pc = "connecting"
        /\ inst[opened] = "lost"
        /\ sock' = 0
        /\ UNCHANGED taken
     \/ /\ pc = "hello"
        /\ inst[sock] = "OPEN" => arrived[sock] - taken[sock] # HANDSHAKE_LEN
        /\ taken' = [taken EXCEPT ![sock] =
             IF inst[sock] = "OPEN"
             THEN @ + Lesser(arrived[sock] - taken[sock], 2 * HANDSHAKE_LEN)
             ELSE @]
        /\ UNCHANGED sock
  /\ InitReturns(FALSE)
  /\ UNCHANGED <<keys, rx, tx, wsUp>>

-----------------------------------------------------------------------------
(* The main loop *)

(* main_tick finds the session closed and stops for good. *)
Stop ==
  /\ pc = "tick"
  /\ ~connected
  /\ pc' = "stopped"
  /\ UNCHANGED <<proxyVars, instVars, sock, keys, rx, tx, connected,
                 connection_changed, header_pos, length, pos, bytes, caller,
                 historyVars>>

(* Session::read finds the instance gone. *)
ReadFails ==
  /\ pc = "tick"
  /\ connected
  /\ inst[sock] # "OPEN"
  /\ connected' = FALSE
  /\ UNCHANGED <<proxyVars, instVars, sock, keys, rx, tx, connection_changed,
                 header_pos, length, pos, bytes, pc, caller, historyVars>>

(* Session::read takes all that has arrived and hands it to process(). What   *)
(* exceeds MAX_PACKET_LENGTH counts as arriving later.                        *)
Read ==
  /\ pc = "tick"
  /\ connected
  /\ inst[sock] = "OPEN"
  /\ taken[sock] < arrived[sock]
  /\ bytes' = [conn |-> sock, at |-> taken[sock],
               left |-> arrived[sock] - taken[sock]]
  /\ taken' = [taken EXCEPT ![sock] = arrived[sock]]
  /\ pc' = "process"
  /\ UNCHANGED <<proxyVars, opened, inst, arrived, sock, keys, rx, tx, connected,
                 connection_changed, header_pos, length, pos, caller, historyVars>>

(* process() has walked n more cells, and returns when none is left. *)
Walk(n) ==
  /\ bytes' = [bytes EXCEPT !.at = @ + n, !.left = @ - n]
  /\ pc' = IF bytes.left = n THEN "tick" ELSE "process"

(* The lengths that a header may give which starts at position p: its own if  *)
(* a packet starts there, whatever the keys, or anything, 0 being invalid.    *)
LengthsAt(p) ==
  IF \E k \in Packets : Start[k] = p
  THEN {LengthOf[k] : k \in {j \in Packets : Start[j] = p}}
  ELSE {LengthOf[k] : k \in Packets} \cup {0}

ProcessHeader_Fault ==
  /\ pc = "process"
  /\ length = 0
  /\ LET n == Lesser(HEADER_LENGTH - header_pos, bytes.left) IN
     /\ Walk(n)
     /\ IF header_pos + n <= HEADER_LENGTH
        THEN header_pos' = header_pos + n /\ UNCHANGED length
        ELSE /\ header_pos' = 0
             /\ length' \in LengthsAt(bytes.at - header_pos) \ {0}
  /\ UNCHANGED <<proxyVars, instVars, sock, keys, rx, tx, connected,
                 connection_changed, pos, caller, historyVars>>

(* Part of a header, or the end of one. *)
ProcessHeader ==
  /\ pc = "process"
  /\ length = 0
  /\ LET n == Lesser(HEADER_LENGTH - header_pos, bytes.left) IN
     /\ Walk(n)
     /\ IF header_pos + n < HEADER_LENGTH
        THEN header_pos' = header_pos + n /\ UNCHANGED length
        ELSE /\ header_pos' = 0
             /\ length' \in LengthsAt(bytes.at - header_pos) \ {0}
  /\ UNCHANGED <<proxyVars, instVars, sock, keys, rx, tx, connected,
                 connection_changed, pos, caller, historyVars>>

(* A header gives an invalid length: process() disconnects and returns. *)
InvalidLength ==
  /\ pc = "process"
  /\ length = 0
  /\ HEADER_LENGTH - header_pos <= bytes.left
  /\ 0 \in LengthsAt(bytes.at - header_pos)
  /\ CloseSocket(<<>>)
  /\ connected' = FALSE
  /\ connection_changed' = TRUE
  /\ ResetFraming
  /\ pc' = "tick"
  /\ UNCHANGED <<session, wsBroken, sent, relayed, serverClosed, heard, opened,
                 sock, keys, rx, tx, bytes, caller, historyVars>>

(* Part of a body. *)
ProcessBody ==
  /\ pc = "process"
  /\ 0 < length /\ bytes.left < length - pos
  /\ pos' = pos + bytes.left
  /\ Walk(bytes.left)
  /\ UNCHANGED <<proxyVars, instVars, sock, keys, rx, tx, connected,
                 connection_changed, header_pos, length, caller, historyVars>>

(* The packet that the completed body is, if the keys and the state of recviv *)
(* are those it was encrypted with, and 0 otherwise.                          *)
Decoded ==
  IF /\ keys = bytes.conn
     /\ rx + 1 \in Packets
     /\ length = LengthOf[rx + 1]
     /\ bytes.at + length - pos = Start[rx + 1] + HEADER_LENGTH + length
  THEN rx + 1 ELSE 0

(* The last part of a body: the packet is decrypted and forwarded. *)
Forward ==
  /\ pc = "process"
  /\ 0 < length /\ length - pos <= bytes.left
  /\ rx' = rx + 1
  /\ stream' = IF loggedOut THEN stream
               ELSE Append(stream, [conn |-> bytes.conn, packet |-> Decoded])
  /\ UNCHANGED <<loggedOut, sock, keys, tx, connected>>

(* A packet whose handler leaves the connection alone. With the mark set, the *)
(* rest of the bytes is dropped.                                              *)
ForwardPlain ==
  /\ Forward
  /\ ResetFraming
  /\ connection_changed' = FALSE
  /\ bytes' = [bytes EXCEPT !.at = @ + length - pos, !.left = @ - (length - pos)]
  /\ pc' = IF connection_changed \/ bytes'.left = 0 THEN "tick" ELSE "process"
  /\ UNCHANGED <<proxyVars, instVars, caller>>

(* A packet whose handler calls reconnect(): SERVER_IP or CHANGE_CHANNEL.     *)
ForwardReconnect ==
  /\ Decoded # 0
  /\ Forward
  /\ CloseSocket(<<>>)
  /\ NewSocket("handler")
  /\ ResetFraming
  /\ bytes' = [bytes EXCEPT !.at = @ + length - pos, !.left = @ - (length - pos)]
  /\ UNCHANGED <<session, wsBroken, sent, relayed, serverClosed, heard,
                 connection_changed>>

(* The tick or an input callback writes a packet. On a socket that is gone it *)
(* is dropped, but sendiv has moved on.                                       *)
Write ==
  /\ pc \in {"tick", "process"}
  /\ connected
  /\ tx < MaxWrites
  /\ tx' = tx + 1
  /\ SendUp(<<Binary(keys, tx + 1)>>)
  /\ UNCHANGED <<session, wsBroken, sent, relayed, serverClosed, heard, instVars,
                 sock, keys, rx, connected, connection_changed, header_pos,
                 length, pos, bytes, pc, caller, historyVars>>

(* The logout of the system menu, an input callback between two frames: tell  *)
(* the server, disconnect, and open a connection to the login server.         *)
Logout ==
  /\ pc = "tick"
  /\ connected
  /\ tx' = tx + 1
  /\ CloseSocket(<<Binary(keys, tx + 1)>>)
  /\ connected' = FALSE
  /\ ResetFraming
  /\ connection_changed' = TRUE
  /\ NewSocket("logout")
  /\ loggedOut' = TRUE
  /\ UNCHANGED <<session, wsBroken, sent, relayed, serverClosed, heard, sock, keys, rx, bytes, stream>>

-----------------------------------------------------------------------------
ThreadStep ==
  \/ Boot \/ Connected \/ Hello \/ OpenFails \/ Stop \/ ReadFails \/ Read
  \/ ProcessHeader \/ InvalidLength \/ ProcessBody \/ ForwardPlain

Callback(c) == OnOpen(c) \/ OnMessage(c) \/ OnClose(c)

External(c) == ServerWrites(c) \/ ServerCloses(c) \/ PathBreaks(c) \/ StreamError(c)

Next ==
  \/ ThreadStep \/ ForwardReconnect \/ Write \/ Logout
  \/ \E c \in Conns :
       \/ Callback(c) \/ PageCloses(c)
       \/ ProxyStep(c) /\ UNCHANGED <<instVars, sessionVars, historyVars>>
       \/ External(c) /\ UNCHANGED <<instVars, sessionVars, historyVars>>

Spec == Init /\ [][Next]_vars

ProxyFairness(c) ==
  WF_vars(ProxyStep(c) /\ UNCHANGED <<instVars, sessionVars, historyVars>>)

(* The thread and the callbacks run on, and so does the proxy. A thread that  *)
(* may reconnect instead of a plain forward still makes a step.               *)
FairSpec ==
  /\ Spec
  /\ WF_vars(ThreadStep \/ ForwardReconnect)
  /\ \A c \in Conns : WF_vars(Callback(c)) /\ ProxyFairness(c)

-----------------------------------------------------------------------------
(* Types of every variable of the link. *)
Frames == {Target, Close} \cup [type : {"binary"}, keys : Nat, n : Nat]

LinkTypeOK ==
  /\ session \in [Conns -> {"none", "waiting", "bridging", "sending", "closing",
                            "closed"}]
  /\ wsUp \in [Conns -> Seq(Frames)]
  /\ wsBroken \in [Conns -> BOOLEAN]
  /\ serverClosed \in [Conns -> BOOLEAN]
  /\ sent \in [Conns -> Nat] /\ relayed \in [Conns -> Nat]
  /\ arrived \in [Conns -> Nat] /\ taken \in [Conns -> Nat]
  /\ heard \in [Conns -> Seq(Frames)]
  /\ opened \in 0 .. MaxConns
  /\ inst \in [Conns -> {"CONNECTING", "OPEN", "closed", "lost"}]
  /\ sock \in 0 .. MaxConns /\ keys \in 0 .. MaxConns
  /\ rx \in Nat /\ tx \in Nat
  /\ connected \in BOOLEAN /\ connection_changed \in BOOLEAN
  /\ header_pos \in 0 .. HEADER_LENGTH - 1
  /\ length \in Nat /\ pos \in Nat
  /\ bytes \in [conn : 0 .. MaxConns, at : Nat, left : Nat]
  /\ pc \in {"start", "connecting", "hello", "tick", "process", "stopped"}
  /\ caller \in {"boot", "handler", "logout"}
  /\ stream \in Seq([conn : Conns, packet : Nat])
  /\ loggedOut \in BOOLEAN

(* Until the player logs out, the handlers see an unbroken packet stream:     *)
(* however the bytes are cut, wherever in them a handler reconnects and       *)
(* whatever was left of the old connection, no packet is skipped, repeated,   *)
(* misread or taken from a connection that has been replaced.                 *)
Link == INSTANCE PacketStream WITH delivered <- stream
StreamIsUnbroken == Link!Spec

(* What a server reads on connection c was encrypted with the keys that c's   *)
(* own hello gave, from the first packet on and without a gap, so that its    *)
(* cipher state agrees with the client's.                                     *)
ServerUnderstands ==
  \A c \in Conns : \A i \in DOMAIN heard[c] :
    heard[c][i] = Binary(c, i)

(* process() drops bytes only of a connection that is no longer the current   *)
(* one ("the remaining bytes belong to the old stream").                      *)
DroppedBytesAreOld ==
  pc = "tick" /\ bytes.left > 0 /\ connected => bytes.conn # sock

(* A socket that the client lets go of for another is closed: no connection   *)
(* of an earlier login or channel stays open behind the current one.          *)
OneOpenSocket ==
  \A c \in Conns : inst[c] = "OPEN" => c = opened

(* The last words of a connection that the client closes, the logout among    *)
(* them, reach the server before the proxy shuts the connection down, unless  *)
(* the path broke or the server had closed.                                   *)
GoodbyeIsHeard ==
  \A c \in Conns :
    session[c] = "closing" /\ inst[c] = "closed"
      /\ ~wsBroken[c] /\ ~serverClosed[c]
      => \A i \in DOMAIN wsUp[c] : wsUp[c][i].type # "binary"

(* A session whose browser has closed, or is cut off, is torn down in the     *)
(* end, so that the server sees the end of the connection.                    *)
SessionReclaimed ==
  \A c \in Conns :
    (session[c] = "bridging" /\ (inst[c] = "closed" \/ wsBroken[c]))
      ~> session[c] = "closed"
=============================================================================
