-------------------------- MODULE GameSessionProofs --------------------------
(****************************************************************************)
(* Safety of the game link for any number of connections, any packets and   *)
(* any way the bytes are cut.                                               *)
(****************************************************************************)
EXTENDS GameSession, TLAPS, WellFoundedInduction

-----------------------------------------------------------------------------
(* The stream of a server *)

StreamEnd == Start[MaxPackets + 1]

LEMMA LeastNumber ==
  ASSUME NEW S, S \subseteq Nat, S # {}
  PROVE  \E m \in S : \A n \in S : m <= n
<1>1. PICK m \in S : \A n \in S : ~(<<n, m>> \in OpToRel(<, Nat))
  BY NatLessThanWellFounded, WFMin
<1>2. \A n \in S : ~(n < m)
  BY <1>1 DEF OpToRel
<1>3. QED
  BY <1>2

\* Every packet starts after all the packets before it: the first one that
\* does not would start no later than its predecessor.
LEMMA StartsGrow ==
  \A j, k \in 1 .. MaxPackets + 1 : j < k => Start[j] < Start[k]
<1> USE StreamAssumption DEF StreamAssumption, Packets
<1> DEFINE late == {k \in 1 .. MaxPackets + 1 :
                     \E j \in 1 .. MaxPackets + 1 : j < k /\ ~(Start[j] < Start[k])}
<1>1. SUFFICES ASSUME late # {}
               PROVE  FALSE
  OBVIOUS
<1>2. PICK k \in late : \A n \in late : k <= n
  <2>1. late \subseteq Nat
    OBVIOUS
  <2>2. QED
    BY ONLY <1>1, <2>1, LeastNumber
<1>3. PICK j \in 1 .. MaxPackets + 1 : j < k /\ ~(Start[j] < Start[k])
  OBVIOUS
<1>4. k - 1 \in Packets /\ k - 1 \in 1 .. MaxPackets + 1 /\ k - 1 \notin late
  BY <1>2, <1>3
<1>5. Start[k] = Start[k - 1] + HEADER_LENGTH + LengthOf[k - 1]
  <2>1. Start[k - 1 + 1] = Start[k - 1] + HEADER_LENGTH + LengthOf[k - 1]
    BY <1>4
  <2>2. QED
    BY <1>4, <2>1
<1>6. /\ Start[k - 1] \in Nat /\ Start[j] \in Nat
      /\ HEADER_LENGTH \in Nat \ {0} /\ LengthOf[k - 1] \in Nat \ {0}
  BY <1>3, <1>4
<1>7. j = k - 1 \/ Start[j] < Start[k - 1]
  BY <1>3, <1>4
<1>8. Start[j] < Start[k]
  BY ONLY <1>5, <1>6, <1>7
<1>9. QED
  BY ONLY <1>3, <1>8

\* Positions of packets grow, up to the end of the stream.
LEMMA StartFacts ==
  /\ MaxPackets \in Nat /\ HEADER_LENGTH \in Nat \ {0} /\ MaxConns \in Nat
  /\ StreamEnd \in Nat
  /\ HANDSHAKE_LEN \in Nat \ {0} /\ HANDSHAKE_LEN = Start[1] /\ HANDSHAKE_LEN <= StreamEnd
  /\ \A k \in 1 .. MaxPackets + 1 : Start[k] \in Nat /\ Start[k] <= StreamEnd
  /\ \A k \in Packets : /\ k \in 1 .. MaxPackets + 1 /\ k + 1 \in 1 .. MaxPackets + 1
                         /\ Start[k + 1] \in Nat /\ Start[k] < Start[k + 1]
                         /\ Start[k + 1] <= StreamEnd
<1> USE StreamAssumption DEF StreamAssumption, Packets, StreamEnd
<1>1. MaxPackets \in Nat /\ HEADER_LENGTH \in Nat \ {0} /\ MaxConns \in Nat
  OBVIOUS
<1>2. MaxPackets + 1 \in 1 .. MaxPackets + 1 /\ 1 \in 1 .. MaxPackets + 1
  BY <1>1
<1>3. \A k \in 1 .. MaxPackets + 1 : Start[k] \in Nat
  OBVIOUS
<1>4. ASSUME NEW k \in 1 .. MaxPackets + 1
      PROVE  Start[k] <= StreamEnd
  <2>1. CASE k = MaxPackets + 1
    BY <1>2, <1>3, <2>1
  <2>2. CASE k < MaxPackets + 1
    <3>1. Start[k] < Start[MaxPackets + 1]
      BY <1>2, <2>2, StartsGrow
    <3>2. QED
      BY <1>2, <1>3, <3>1
  <2>3. QED
    BY <1>1, <2>1, <2>2
<1>5. ASSUME NEW k \in Packets
      PROVE  /\ k \in 1 .. MaxPackets + 1 /\ k + 1 \in 1 .. MaxPackets + 1
             /\ Start[k + 1] \in Nat /\ Start[k] < Start[k + 1]
             /\ Start[k + 1] <= StreamEnd
  <2>1. k \in 1 .. MaxPackets + 1 /\ k + 1 \in 1 .. MaxPackets + 1 /\ k < k + 1
    BY <1>1
  <2>2. Start[k] < Start[k + 1]
    BY <2>1, StartsGrow
  <2>3. QED
    BY <1>3, <1>4, <2>1, <2>2
<1>6. HANDSHAKE_LEN \in Nat \ {0} /\ HANDSHAKE_LEN = Start[1] /\ HANDSHAKE_LEN <= StreamEnd
  BY <1>2, <1>4
<1>7. StreamEnd \in Nat
  BY <1>2
<1>8. QED
  BY <1>1, <1>3, <1>4, <1>5, <1>6, <1>7

-----------------------------------------------------------------------------
(* Types, and which socket is the current one. *)

PositionTypes ==
  /\ sent \in [Conns -> Nat] /\ relayed \in [Conns -> Nat]
  /\ arrived \in [Conns -> Nat] /\ taken \in [Conns -> Nat]

\* Positions follow each other along the path of the bytes.
Ordered ==
  \A c \in Conns : /\ taken[c] <= arrived[c]
                   /\ arrived[c] <= relayed[c]
                   /\ relayed[c] <= sent[c]
                   /\ sent[c] <= StreamEnd

SessionTypes ==
  /\ session \in [Conns -> {"none", "waiting", "bridging", "sending", "closing",
                            "closed"}]
  /\ wsBroken \in [Conns -> BOOLEAN]
  /\ serverClosed \in [Conns -> BOOLEAN]

WireTypes ==
  /\ wsUp \in [Conns -> Seq(Frames)]
  /\ heard \in [Conns -> Seq(Frames)]

SocketTypes ==
  /\ opened \in 0 .. MaxConns
  /\ inst \in [Conns -> {"CONNECTING", "OPEN", "closed", "lost"}]
  /\ sock \in 0 .. MaxConns /\ keys \in 0 .. MaxConns

Chunks == [conn : 0 .. MaxConns, at : Nat, left : Nat]

NumberTypes ==
  /\ rx \in Nat /\ tx \in Nat
  /\ header_pos \in 0 .. HEADER_LENGTH - 1
  /\ length \in Nat /\ pos \in Nat

FlagTypes ==
  /\ connected \in BOOLEAN /\ connection_changed \in BOOLEAN /\ loggedOut \in BOOLEAN

ThreadTypes ==
  /\ pc \in {"start", "connecting", "hello", "tick", "process", "stopped"}
  /\ caller \in {"boot", "handler", "logout"}

FramingTypes == NumberTypes /\ FlagTypes /\ ThreadTypes /\ bytes \in Chunks

StreamType == stream \in Seq([conn : Conns, packet : Nat])

\* The walk and the reads concern the socket that was opened last, with its keys.
Current ==
  /\ pc = "start" => opened = 0 /\ keys = 0
  /\ pc \in {"connecting", "hello"} =>
       opened \in Conns /\ taken[opened] = 0 /\ keys < opened
  /\ pc = "hello" => sock = opened /\ inst[opened] # "CONNECTING"
  /\ pc \in {"tick", "process"} /\ connected =>
       /\ sock = opened /\ keys = opened /\ opened \in Conns
       /\ inst[opened] # "CONNECTING"
  /\ pc = "process" => connected /\ bytes.conn = sock /\ bytes.left > 0

\* Earlier sockets are gone, later ones have not begun.
Sockets ==
  \A c \in Conns :
    /\ c < opened => inst[c] \in {"closed", "lost"}
    /\ c > opened => inst[c] = "CONNECTING" /\ arrived[c] = 0

\* Where in a packet process() is.
Framed == IF length = 0 THEN pos = 0 ELSE pos < length /\ header_pos = 0

Base == /\ PositionTypes /\ Ordered /\ SessionTypes /\ WireTypes /\ SocketTypes
        /\ FramingTypes /\ Framed /\ StreamType /\ Current /\ Sockets

\* The proxy and its surroundings move positions forward and keep their order.
LEMMA ProxyPositions ==
  ASSUME PositionTypes, Ordered, NEW c \in Conns,
         ProxyStep(c) \/ External(c), UNCHANGED instVars
  PROVE  PositionTypes' /\ Ordered'
<1> USE DEF PositionTypes, Ordered, instVars
<1>1. StreamEnd \in Nat
  BY StartFacts
<1>3. ASSUME EndSession(c), UNCHANGED relayed
      PROVE  PositionTypes' /\ Ordered'
  BY <1>1, <1>3 DEF EndSession
<1>4. CASE Dial(c) \/ LeaveEarly(c) \/ SendFails(c) \/ LivenessTick(c) \/ Teardown(c)
  BY <1>3, <1>4 DEF Dial, LeaveEarly, SendFails, LivenessTick, Teardown
<1>5. CASE Downstream(c) \/ DownstreamEnds(c) \/ UpstreamEnds(c)
  BY <1>5 DEF Downstream, DownstreamEnds, UpstreamEnds
<1>6. CASE Upstream(c)
  BY <1>6 DEF Upstream
<1>7. CASE StreamError(c)
  BY <1>3, <1>7 DEF StreamError
<1>8. CASE ServerCloses(c) \/ PathBreaks(c)
  BY <1>8 DEF ServerCloses, PathBreaks
<1>9. CASE ServerWrites(c)
  <2>1. PICK n : sent' = [sent EXCEPT ![c] = n] /\ n \in Nat /\ sent[c] <= n
                 /\ n <= StreamEnd
    <3>1. CASE sent[c] = 0 /\ sent' = [sent EXCEPT ![c] = HANDSHAKE_LEN]
      <4>1. HANDSHAKE_LEN \in Nat /\ sent[c] <= HANDSHAKE_LEN /\ HANDSHAKE_LEN <= StreamEnd
        BY StartFacts, <3>1
      <4>2. QED
        BY <3>1, <4>1, Zenon
    <3>2. CASE \E k \in Packets : /\ sent[c] = Start[k]
                                  /\ sent' = [sent EXCEPT ![c] = Start[k + 1]]
      <4>1. PICK k \in Packets : /\ sent[c] = Start[k]
                                 /\ sent' = [sent EXCEPT ![c] = Start[k + 1]]
        BY <3>2
      <4>2. /\ Start[k + 1] \in Nat /\ Start[k + 1] <= StreamEnd
            /\ Start[k] <= Start[k + 1]
        BY StartFacts
      <4>3. QED
        BY <4>1, <4>2, Zenon
    <3>3. QED
      BY <1>9, <3>1, <3>2 DEF ServerWrites
  <2>2. UNCHANGED <<relayed, arrived, taken>>
    BY <1>9 DEF ServerWrites
  <2>3. QED
    BY <1>1, <2>1, <2>2
<1>10. QED
  BY <1>4, <1>5, <1>6, <1>7, <1>8, <1>9 DEF ProxyStep, External

\* Frames that go up keep the type of the wire.
LEMMA SendUpType ==
  ASSUME WireTypes, NEW frames \in Seq(Frames), SendUp(frames)
  PROVE  wsUp' \in [Conns -> Seq(Frames)]
<1>1. wsUp \in [Conns -> Seq(Frames)]
  BY DEF WireTypes
<1>2. CASE Alive(sock)
  <2>1. sock \in Conns /\ wsUp[sock] \o frames \in Seq(Frames)
    BY <1>1, <1>2 DEF Alive
  <2>2. QED
    BY <1>1, <1>2, <2>1 DEF SendUp
<1>3. CASE ~Alive(sock)
  BY <1>1, <1>3 DEF SendUp
<1>4. QED
  BY <1>2, <1>3

\* The frames of the protocol.
LEMMA FrameTypes ==
  /\ Target \in Frames /\ Close \in Frames
  /\ \A k, n \in Nat : Binary(k, n) \in Frames
  /\ \A k, n \in Nat : Binary(k, n) # Close /\ Binary(k, n).type = "binary"
  /\ Close.type = "close" /\ Target.type = "text" /\ Close # Target
BY DEF Frames, Target, Close, Binary

\* The proxy moves frames from the wire to the server, in order.
LEMMA ProxyTypes ==
  ASSUME SessionTypes, WireTypes, NEW c \in Conns, ProxyStep(c) \/ External(c)
  PROVE  SessionTypes' /\ WireTypes'
<1>1. /\ session \in [Conns -> {"none", "waiting", "bridging", "sending", "closing",
                                "closed"}]
      /\ wsBroken \in [Conns -> BOOLEAN]
      /\ serverClosed \in [Conns -> BOOLEAN]
      /\ wsUp \in [Conns -> Seq(Frames)]
      /\ heard \in [Conns -> Seq(Frames)]
  BY DEF SessionTypes, WireTypes
<1>2. <<>> \in Seq(Frames)
  OBVIOUS
<1>3. ASSUME EndSession(c), UNCHANGED <<wsBroken, serverClosed, heard>>
      PROVE  SessionTypes' /\ WireTypes'
  BY <1>1, <1>2, <1>3 DEF EndSession, SessionTypes, WireTypes
<1>4. ASSUME wsUp[c] # <<>>
      PROVE  /\ Tail(wsUp[c]) \in Seq(Frames) /\ Head(wsUp[c]) \in Frames
             /\ Append(heard[c], Head(wsUp[c])) \in Seq(Frames)
  <2>1. wsUp[c] \in Seq(Frames) /\ heard[c] \in Seq(Frames)
    BY <1>1
  <2>2. QED
    BY <1>4, <2>1
<1>5. CASE Dial(c)
  BY <1>1, <1>3, <1>4, <1>5 DEF Dial, Reads, SessionTypes, WireTypes
<1>6. CASE LeaveEarly(c) \/ SendFails(c) \/ LivenessTick(c) \/ Teardown(c)
  BY <1>3, <1>6 DEF LeaveEarly, SendFails, LivenessTick, Teardown
<1>7. CASE Downstream(c)
  BY <1>1, <1>4, <1>7 DEF Downstream, Reads, SessionTypes, WireTypes
<1>8. CASE DownstreamEnds(c) \/ Upstream(c) \/ UpstreamEnds(c)
  BY <1>1, <1>8 DEF DownstreamEnds, Upstream, UpstreamEnds, SessionTypes, WireTypes
<1>9. CASE StreamError(c)
  BY <1>1, <1>3, <1>9 DEF StreamError, SessionTypes, WireTypes
<1>10. CASE ServerWrites(c) \/ ServerCloses(c) \/ PathBreaks(c)
  BY <1>1, <1>10 DEF ServerWrites, ServerCloses, PathBreaks, SessionTypes, WireTypes
<1>11. QED
  BY <1>5, <1>6, <1>7, <1>8, <1>9, <1>10 DEF ProxyStep, External

\* A step of the proxy or its surroundings.
LEMMA ProxyBase ==
  ASSUME Base, NEW c \in Conns, ProxyStep(c) \/ External(c),
         UNCHANGED <<instVars, sessionVars, historyVars>>
  PROVE  Base'
<1> USE DEF Base
<1>1. PositionTypes' /\ Ordered'
  BY ProxyPositions
<1>2. SessionTypes' /\ WireTypes'
  BY ProxyTypes
<1>3. /\ SocketTypes' /\ FramingTypes' /\ Framed' /\ StreamType' /\ Current' /\ Sockets'
  BY DEF instVars, sessionVars, historyVars, SocketTypes, FramingTypes, NumberTypes, FlagTypes, ThreadTypes, Framed, StreamType,
         Current, Sockets
<1>4. QED
  BY <1>1, <1>2, <1>3

\* A callback of the browser.
LEMMA CallbackBase ==
  ASSUME Base, NEW c \in Conns, Callback(c)
  PROVE  Base'
<1> USE DEF Base
<1>1. /\ UNCHANGED <<sessionVars, historyVars, opened, sent, relayed, wsUp, wsBroken,
                     serverClosed, heard>>
      /\ session' = session \/ Accept(c)
  BY DEF Callback, OnOpen, OnMessage, OnClose, Accept, Remove, proxyVars
<1>2. WireTypes' /\ FramingTypes' /\ Framed' /\ StreamType'
  BY <1>1 DEF sessionVars, historyVars, WireTypes, FramingTypes, NumberTypes, FlagTypes, ThreadTypes, Framed, StreamType
<1>3. SessionTypes'
  BY <1>1 DEF Accept, SessionTypes
<1>4. SocketTypes'
  BY <1>1 DEF Callback, OnOpen, OnMessage, OnClose, Remove, SocketTypes, sessionVars
<1>5. PositionTypes' /\ Ordered'
  <2>1. StreamEnd \in Nat
    BY StartFacts
  <2>2. CASE OnOpen(c)
    BY <1>1, <2>2 DEF OnOpen, PositionTypes, Ordered
  <2>3. CASE OnMessage(c)
    <3>1. PICK p \in arrived[c] + 1 .. relayed[c] : arrived' = [arrived EXCEPT ![c] = p]
      BY <2>3 DEF OnMessage
    <3>2. UNCHANGED taken
      BY <2>3 DEF OnMessage
    <3>3. p \in Nat /\ arrived[c] <= p /\ p <= relayed[c]
      BY <3>1 DEF PositionTypes
    <3>4. QED
      BY <1>1, <2>1, <3>1, <3>2, <3>3 DEF PositionTypes, Ordered
  <2>4. CASE OnClose(c)
    BY <1>1, <2>1, <2>4 DEF OnClose, Remove, PositionTypes, Ordered
  <2>5. QED
    BY <2>2, <2>3, <2>4 DEF Callback
<1>6. Current' /\ Sockets'
  <2> USE DEF PositionTypes, SocketTypes, FramingTypes, NumberTypes, FlagTypes, ThreadTypes, sessionVars
  <2>1. CASE OnOpen(c)
    BY <1>1, <2>1 DEF OnOpen, Current, Sockets, Conns
  <2>2. CASE OnMessage(c)
    BY <1>1, <2>2 DEF OnMessage, Current, Sockets, Conns
  <2>3. CASE OnClose(c)
    BY <1>1, <2>3 DEF OnClose, Remove, Current, Sockets, Conns
  <2>4. QED
    BY <2>1, <2>2, <2>3 DEF Callback
<1>7. QED
  BY <1>2, <1>3, <1>4, <1>5, <1>6

\* The connection is closed, and perhaps another one is begun.
LEMMA CloseBase ==
  ASSUME Base, NEW frames \in Seq(Frames), CloseSocket(frames),
         sock = opened, sock \in Conns, inst[sock] # "CONNECTING",
         UNCHANGED <<session, wsBroken, sent, relayed, serverClosed, heard>>
  PROVE  /\ PositionTypes' /\ Ordered' /\ SessionTypes' /\ WireTypes'
         /\ inst' \in [Conns -> {"CONNECTING", "OPEN", "closed", "lost"}]
         /\ \A c \in Conns :
              /\ c <= opened => inst'[c] \in {"closed", "lost"}
              /\ c # opened => inst'[c] = inst[c] /\ arrived'[c] = arrived[c]
                                 /\ taken'[c] = taken[c]
<1> USE DEF Base
<1>1. StreamEnd \in Nat
  BY StartFacts
<1>2. wsUp' \in [Conns -> Seq(Frames)]
  <2>1. Append(frames, Close) \in Seq(Frames) /\ SendUp(Append(frames, Close))
    BY FrameTypes DEF CloseSocket
  <2>2. QED
    BY <2>1, SendUpType
<1>3. WireTypes' /\ SessionTypes'
  BY <1>2 DEF WireTypes, SessionTypes
<1>4. CASE Alive(sock)
  <2>1. Remove(sock, "closed")
    BY <1>4 DEF CloseSocket
  <2>2. PositionTypes' /\ Ordered'
    BY <1>1, <2>1 DEF Remove, PositionTypes, Ordered
  <2>3. QED
    BY <1>3, <2>1, <2>2
       DEF Remove, PositionTypes, SocketTypes, Sockets, Conns
<1>5. CASE ~Alive(sock)
  <2>1. UNCHANGED <<inst, arrived, taken>>
    BY <1>5 DEF CloseSocket
  <2>2. PositionTypes' /\ Ordered'
    BY <1>1, <2>1 DEF PositionTypes, Ordered
  <2>3. QED
    BY <1>3, <1>5, <2>1, <2>2 DEF Alive, SocketTypes, Sockets, Conns
<1>6. QED
  BY <1>4, <1>5

\* Steps that open a connection.
LEMMA OpeningBase ==
  ASSUME Base, Boot \/ Connected \/ Hello \/ OpenFails
  PROVE  Base'
<1> USE DEF Base
<1>1. /\ StreamEnd \in Nat /\ HANDSHAKE_LEN \in Nat \ {0} /\ HEADER_LENGTH \in Nat \ {0}
      /\ MaxConns \in Nat
  BY StartFacts
<1>2. CASE Boot
  <2>1. opened = 0 /\ opened' = 1 /\ opened' \in Conns
    BY <1>1, <1>2 DEF Boot, NewSocket, Current, Conns
  <2>2. /\ SessionTypes' /\ WireTypes' /\ StreamType' /\ PositionTypes' /\ Ordered'
    BY <1>2 DEF Boot, proxyVars, SessionTypes, WireTypes, StreamType, PositionTypes,
                Ordered, historyVars
  <2>3. SocketTypes' /\ FramingTypes' /\ Framed'
    BY <1>2, <2>1
       DEF Boot, NewSocket, SocketTypes, FramingTypes, NumberTypes, FlagTypes, ThreadTypes, Framed, historyVars, Conns
  <2>4. Current' /\ Sockets'
    <3>1. keys = 0
      BY <1>2 DEF Boot, Current
    <3>2. taken[1] = 0
      BY <2>1 DEF Sockets, Ordered, PositionTypes, Conns
    <3>3. QED
      BY <1>2, <2>1, <3>1, <3>2 DEF Boot, NewSocket, Current, Sockets, Conns
  <2>5. QED
    BY <2>2, <2>3, <2>4
<1>3. CASE Connected
  <2>1. opened \in Conns
    BY <1>3 DEF Connected, Current
  <2>2. wsUp' \in [Conns -> Seq(Frames)]
    BY <1>3, <2>1, FrameTypes DEF Connected, WireTypes
  <2>3. /\ SessionTypes' /\ WireTypes' /\ StreamType' /\ PositionTypes' /\ Ordered'
    BY <1>3, <2>2 DEF Connected, SessionTypes, WireTypes, StreamType, PositionTypes,
                      Ordered, historyVars, instVars
  <2>4. SocketTypes' /\ FramingTypes' /\ Framed'
    BY <1>3, <2>1
       DEF Connected, SocketTypes, FramingTypes, NumberTypes, FlagTypes, ThreadTypes, Framed, historyVars, instVars, Conns
  <2>5. Current' /\ Sockets'
    BY <1>3, <2>1 DEF Connected, instVars, Current, Sockets
  <2>6. QED
    BY <2>3, <2>4, <2>5
<1>4. CASE Hello
  <2>1. sock = opened /\ opened \in Conns
    BY <1>4 DEF Hello, Current
  <2>2. wsUp' \in [Conns -> Seq(Frames)]
    <3>1. (IF caller = "handler" THEN <<Binary(sock, 1)>> ELSE <<>>) \in Seq(Frames)
      BY <2>1, FrameTypes DEF Conns
    <3>2. QED
      BY <1>4, <3>1, SendUpType DEF Hello
  <2>3. /\ SessionTypes' /\ WireTypes' /\ StreamType'
    BY <1>4, <2>2 DEF Hello, InitReturns, SessionTypes, WireTypes, StreamType, historyVars
  <2>4. PositionTypes' /\ Ordered'
    BY <1>4, <2>1 DEF Hello, InitReturns, PositionTypes, Ordered
  <2>5. SocketTypes' /\ FramingTypes' /\ Framed'
    BY <1>1, <1>4, <2>1
       DEF Hello, InitReturns, ResetFraming, SocketTypes, FramingTypes, NumberTypes, FlagTypes, ThreadTypes, Framed,
           historyVars, Conns
  <2>6. Current' /\ Sockets'
    BY <1>4, <2>1 DEF Hello, InitReturns, Current, Sockets
  <2>7. QED
    BY <2>3, <2>4, <2>5, <2>6
<1>5. CASE OpenFails
  <2>1. /\ SessionTypes' /\ WireTypes' /\ StreamType'
    BY <1>5 DEF OpenFails, InitReturns, SessionTypes, WireTypes, StreamType, historyVars
  <2>2. PositionTypes' /\ Ordered'
    <3>1. CASE UNCHANGED taken
      BY <1>5, <3>1 DEF OpenFails, InitReturns, PositionTypes, Ordered
    <3>2. CASE pc = "hello"
      <4>1. sock \in Conns
        BY <3>2 DEF Current
      <4>2. PICK n \in Nat : taken' = [taken EXCEPT ![sock] = n] /\ n <= arrived[sock]
        <5>1. CASE inst[sock] = "OPEN"
          BY <1>1, <1>5, <3>2, <4>1, <5>1
             DEF OpenFails, Lesser, PositionTypes, Ordered
        <5>2. CASE inst[sock] # "OPEN"
          BY <1>5, <3>2, <4>1, <5>2 DEF OpenFails, PositionTypes, Ordered
        <5>3. QED
          BY <5>1, <5>2
      <4>3. QED
        BY <1>5, <4>1, <4>2 DEF OpenFails, InitReturns, PositionTypes, Ordered
    <3>3. QED
      BY <1>5, <3>1, <3>2 DEF OpenFails
  <2>3. SocketTypes' /\ FramingTypes' /\ Framed'
    <3>1. sock' \in {0, sock} /\ UNCHANGED <<opened, inst, keys>>
      BY <1>5 DEF OpenFails, InitReturns
    <3>2. NumberTypes' /\ Framed'
      BY <1>1, <1>5
         DEF OpenFails, InitReturns, ResetFraming, FramingTypes, NumberTypes, Framed
    <3>3. (caller # "handler" /\ connection_changed) \in BOOLEAN
      OBVIOUS
    <3>4. FlagTypes' /\ ThreadTypes' /\ bytes' \in Chunks
      BY <1>5, <3>3 DEF OpenFails, InitReturns, FramingTypes, FlagTypes, ThreadTypes, historyVars
    <3>5. QED
      BY <1>1, <3>1, <3>2, <3>4 DEF SocketTypes, FramingTypes
  <2>4. Current' /\ Sockets'
    <3>1. /\ connected' = FALSE /\ pc' \in {"stopped", "tick"}
          /\ UNCHANGED <<opened, inst, arrived>>
      BY <1>5 DEF OpenFails, InitReturns
    <3>2. QED
      BY <3>1 DEF Current, Sockets
  <2>5. QED
    BY <2>1, <2>2, <2>3, <2>4
<1>6. QED
  BY <1>2, <1>3, <1>4, <1>5

\* A forwarded packet is recorded, and the walk goes on behind it.
LEMMA ForwardTypes ==
  ASSUME Base, Forward, ResetFraming,
         bytes' = [bytes EXCEPT !.at = @ + length - pos, !.left = @ - (length - pos)]
  PROVE  /\ StreamType' /\ Framed' /\ pc = "process"
         /\ rx' \in Nat /\ header_pos' \in 0 .. HEADER_LENGTH - 1
         /\ length' \in Nat /\ pos' \in Nat
         /\ bytes' \in Chunks /\ bytes'.conn = bytes.conn
         /\ bytes'.at = bytes.at + length - pos /\ bytes'.left = bytes.left - (length - pos)
<1> USE DEF Base
<1>1. HEADER_LENGTH \in Nat \ {0} /\ MaxPackets \in Nat
  BY StartFacts
<1>2. /\ pc = "process" /\ length \in Nat /\ pos \in Nat /\ pos < length
      /\ length - pos <= bytes.left /\ bytes.conn \in Conns /\ rx \in Nat
      /\ bytes \in Chunks /\ bytes.at \in Nat /\ bytes.left \in Nat
  BY DEF Forward, Framed, FramingTypes, NumberTypes, Current, Chunks
<1>3. StreamType'
  <2>1. Decoded \in Nat
    BY <1>1, <1>2 DEF Decoded
  <2>2. stream \in Seq([conn : Conns, packet : Nat])
    BY DEF StreamType
  <2>3. [conn |-> bytes.conn, packet |-> Decoded] \in [conn : Conns, packet : Nat]
    BY <1>2, <2>1
  <2>4. Append(stream, [conn |-> bytes.conn, packet |-> Decoded])
          \in Seq([conn : Conns, packet : Nat])
    BY <2>2, <2>3
  <2>5. QED
    BY <2>2, <2>4, Zenon DEF Forward, StreamType
<1>4. /\ bytes' \in Chunks /\ bytes'.conn = bytes.conn
      /\ bytes'.at = bytes.at + length - pos /\ bytes'.left = bytes.left - (length - pos)
  <2>1. bytes.at + length - pos \in Nat /\ bytes.left - (length - pos) \in Nat
    BY <1>2
  <2>2. PICK x \in Nat, y \in Nat :
           /\ bytes' = [bytes EXCEPT !.at = x, !.left = y]
           /\ x = bytes.at + length - pos /\ y = bytes.left - (length - pos)
    BY <2>1, Zenon
  <2>3. QED
    BY <1>2, <2>2 DEF Chunks
<1>5. QED
  BY <1>1, <1>2, <1>3, <1>4 DEF Forward, ResetFraming, Framed

\* Steps of the thread that leave the socket and the wire alone.
LEMMA WalkBase ==
  ASSUME Base, Stop \/ ReadFails \/ Read \/ ProcessHeader \/ ProcessBody \/ ForwardPlain
  PROVE  Base'
<1> USE DEF Base
<1>1. /\ HEADER_LENGTH \in Nat \ {0} /\ MaxConns \in Nat
      /\ \A k \in Packets : LengthOf[k] \in Nat
  BY StartFacts, StreamAssumption DEF StreamAssumption
<1>2. /\ UNCHANGED <<proxyVars, opened, inst, arrived, sock, keys, caller, loggedOut>>
      /\ SessionTypes' /\ WireTypes' /\ SocketTypes' /\ Sockets'
  BY DEF Stop, ReadFails, Read, ProcessHeader, ProcessBody, ForwardPlain, Forward, proxyVars,
         instVars, historyVars, SessionTypes, WireTypes, SocketTypes, Sockets
<1>3. PositionTypes' /\ Ordered'
  <2>1. CASE Read
    <3>1. /\ sock \in Conns /\ taken' = [taken EXCEPT ![sock] = arrived[sock]]
      BY <2>1 DEF Read, Current
    <3>2. QED
      BY <1>2, <3>1 DEF proxyVars, PositionTypes, Ordered
  <2>2. CASE UNCHANGED taken
    BY <1>2, <2>2 DEF proxyVars, PositionTypes, Ordered
  <2>3. QED
    BY <2>1, <2>2 DEF Stop, ReadFails, ProcessHeader, ProcessBody, ForwardPlain, instVars
<1>4. /\ bytes \in Chunks /\ bytes.at \in Nat /\ bytes.left \in Nat
      /\ FlagTypes /\ ThreadTypes /\ NumberTypes
  BY DEF FramingTypes, Chunks
<1>5. pc = "process" => /\ connected /\ bytes.conn = sock /\ bytes.left > 0 /\ sock = opened
                        /\ keys = opened /\ opened \in Conns /\ inst[opened] # "CONNECTING"
  BY DEF Current
<1>6. ASSUME NEW n \in Nat, n <= bytes.left, Walk(n)
      PROVE  /\ bytes' \in Chunks /\ bytes'.conn = bytes.conn
             /\ (pc' = "process" => bytes'.left > 0) /\ pc' \in {"tick", "process"}
  <2>1. bytes.at + n \in Nat /\ bytes.left - n \in Nat
    BY <1>4, <1>6
  <2>2. /\ bytes' \in Chunks /\ bytes'.conn = bytes.conn /\ bytes'.left = bytes.left - n
    <3>1. PICK x \in Nat, y \in Nat :
             bytes' = [bytes EXCEPT !.at = x, !.left = y] /\ y = bytes.left - n
      BY <1>6, <2>1, Zenon DEF Walk
    <3>2. QED
      BY <1>4, <3>1 DEF Chunks
  <2>3. pc' = IF bytes.left = n THEN "tick" ELSE "process"
    BY <1>6 DEF Walk
  <2>4. QED
    BY <1>4, <1>6, <2>2, <2>3
<1>7. ASSUME pc = "process", NumberTypes', Framed', StreamType',
             bytes' \in Chunks, bytes'.conn = bytes.conn,
             pc' = "process" => bytes'.left > 0, pc' \in {"tick", "process"},
             UNCHANGED connected, connection_changed' \in BOOLEAN, UNCHANGED inst
      PROVE  Base'
  <2>1. FlagTypes' /\ ThreadTypes'
    BY <1>2, <1>4, <1>7 DEF FlagTypes, ThreadTypes
  <2>2. Current'
    BY <1>2, <1>5, <1>7 DEF Current
  <2>3. QED
    BY <1>2, <1>3, <1>7, <2>1, <2>2 DEF FramingTypes
<1>8. CASE Stop \/ ReadFails
  <2>1. UNCHANGED <<rx, tx, header_pos, length, pos, bytes, stream, connection_changed, taken>>
    BY <1>8 DEF Stop, ReadFails, historyVars, instVars
  <2>2. NumberTypes' /\ Framed' /\ StreamType' /\ bytes' \in Chunks
    BY <1>4, <2>1 DEF NumberTypes, Framed, StreamType
  <2>3. /\ connected' \in BOOLEAN /\ ((pc' = "tick" /\ ~connected') \/ pc' = "stopped")
    BY <1>8 DEF Stop, ReadFails, FramingTypes, FlagTypes
  <2>4. Current' /\ FlagTypes' /\ ThreadTypes'
    BY <1>2, <1>4, <2>1, <2>3 DEF Current, FlagTypes, ThreadTypes
  <2>5. QED
    BY <1>2, <1>3, <2>2, <2>4 DEF FramingTypes
<1>9. CASE Read
  <2>1. /\ pc = "tick" /\ connected /\ sock = opened /\ keys = opened
        /\ opened \in Conns /\ inst[opened] # "CONNECTING" /\ sock \in 0 .. MaxConns
    BY <1>9 DEF Read, Current, SocketTypes
  <2>2. /\ taken[sock] \in Nat /\ arrived[sock] - taken[sock] \in Nat
        /\ arrived[sock] - taken[sock] > 0
    BY <1>9, <2>1 DEF Read, PositionTypes
  <2>3. /\ bytes' \in Chunks /\ bytes'.conn = sock /\ bytes'.left > 0
    BY <1>9, <2>1, <2>2 DEF Read, Chunks
  <2>4. /\ UNCHANGED <<rx, tx, header_pos, length, pos, stream, connection_changed, connected>>
        /\ pc' = "process"
    BY <1>9 DEF Read, historyVars
  <2>5. NumberTypes' /\ Framed' /\ StreamType' /\ FlagTypes' /\ ThreadTypes'
    BY <1>2, <1>4, <2>4 DEF NumberTypes, Framed, StreamType, FlagTypes, ThreadTypes
  <2>6. Current'
    BY <1>2, <2>1, <2>3, <2>4 DEF Current
  <2>7. QED
    BY <1>2, <1>3, <2>3, <2>5, <2>6 DEF FramingTypes
<1>10. CASE ProcessHeader
  <2> DEFINE n == Lesser(HEADER_LENGTH - header_pos, bytes.left)
  <2>1. /\ n \in Nat /\ n <= bytes.left /\ n <= HEADER_LENGTH - header_pos
        /\ header_pos + n \in Nat
    BY <1>1, <1>4 DEF Lesser, NumberTypes
  <2>2. /\ Walk(n) /\ pc = "process" /\ length = 0
        /\ UNCHANGED <<rx, tx, connected, connection_changed, pos, stream, inst>>
    BY <1>10 DEF ProcessHeader, historyVars, instVars
  <2>3. LengthsAt(bytes.at - header_pos) \ {0} \subseteq Nat \ {0}
    BY <1>1 DEF LengthsAt
  <2>4. /\ header_pos' \in 0 .. HEADER_LENGTH - 1
        /\ \/ length' = 0
           \/ length' \in Nat \ {0} /\ header_pos' = 0
    <3>1. CASE header_pos + n < HEADER_LENGTH
      BY <1>1, <1>10, <2>1, <3>1 DEF ProcessHeader
    <3>2. CASE ~(header_pos + n < HEADER_LENGTH)
      BY <1>1, <1>10, <2>3, <3>2 DEF ProcessHeader
    <3>3. QED
      BY <3>1, <3>2
  <2> HIDE DEF n
  <2>5. NumberTypes' /\ Framed' /\ StreamType'
    BY <1>4, <2>2, <2>4 DEF NumberTypes, Framed, StreamType
  <2>6. connection_changed' \in BOOLEAN
    BY <1>4, <2>2 DEF FlagTypes
  <2>7. QED
    BY <1>6, <1>7, <2>1, <2>2, <2>5, <2>6
<1>11. CASE ProcessBody
  <2>1. /\ Walk(bytes.left) /\ pc = "process" /\ pos' = pos + bytes.left
        /\ length # 0 /\ bytes.left < length - pos
        /\ UNCHANGED <<rx, tx, connected, connection_changed, header_pos, length, stream, inst>>
    BY <1>11 DEF ProcessBody, historyVars, instVars
  <2>2. NumberTypes' /\ Framed' /\ StreamType'
    BY <1>4, <2>1 DEF NumberTypes, Framed, StreamType
  <2>3. connection_changed' \in BOOLEAN
    BY <1>4, <2>1 DEF FlagTypes
  <2>4. bytes.left \in Nat /\ bytes.left <= bytes.left
    BY <1>4
  <2>5. QED
    BY <1>6, <1>7, <2>1, <2>2, <2>3, <2>4
<1>12. CASE ForwardPlain
  <2>1. /\ StreamType' /\ Framed' /\ pc = "process"
        /\ rx' \in Nat /\ header_pos' \in 0 .. HEADER_LENGTH - 1
        /\ length' \in Nat /\ pos' \in Nat
        /\ bytes' \in Chunks /\ bytes'.conn = bytes.conn
    BY <1>12, ForwardTypes DEF ForwardPlain
  <2>2. /\ UNCHANGED <<connected, tx, inst>> /\ connection_changed' = FALSE
        /\ pc' = IF connection_changed \/ bytes'.left = 0 THEN "tick" ELSE "process"
    BY <1>12 DEF ForwardPlain, Forward, instVars
  <2>3. pc' \in {"tick", "process"} /\ (pc' = "process" => bytes'.left # 0)
    BY <2>2
  <2>4. bytes'.left \in Nat
    BY <2>1 DEF Chunks
  <2>5. pc' = "process" => bytes'.left > 0
    BY <2>3, <2>4
  <2>6. NumberTypes' /\ connection_changed' \in BOOLEAN
    BY <1>4, <2>1, <2>2 DEF NumberTypes
  <2>7. QED
    BY <1>7, <2>1, <2>2, <2>3, <2>5, <2>6
<1>13. QED
  BY <1>8, <1>9, <1>10, <1>11, <1>12

\* A packet is written, or the connection is closed and perhaps replaced.
LEMMA ClosingBase ==
  ASSUME Base, InvalidLength \/ ForwardReconnect \/ Write \/ Logout
  PROVE  Base'
<1> USE DEF Base
<1>1. /\ HEADER_LENGTH \in Nat \ {0} /\ MaxConns \in Nat
      /\ FlagTypes /\ ThreadTypes /\ NumberTypes /\ bytes \in Chunks
  BY StartFacts DEF FramingTypes
<1>2. /\ sock = opened /\ keys = opened /\ opened \in Conns /\ inst[opened] # "CONNECTING"
      /\ keys \in Nat
  <2>1. connected /\ pc \in {"tick", "process"}
    BY DEF InvalidLength, ForwardReconnect, Forward, Write, Logout, Current
  <2>2. QED
    BY <1>1, <2>1 DEF Current, SocketTypes
<1>3. \A n \in Nat : <<Binary(keys, n)>> \in Seq(Frames)
  BY <1>2, FrameTypes
<1>4. CASE Write
  <2>1. tx \in Nat /\ <<Binary(keys, tx + 1)>> \in Seq(Frames)
    BY <1>1, <1>3 DEF NumberTypes
  <2>2. wsUp' \in [Conns -> Seq(Frames)]
    BY <1>4, <2>1, SendUpType DEF Write
  <2>3. /\ UNCHANGED <<session, wsBroken, sent, relayed, serverClosed, heard, instVars,
                       sock, keys, rx, connected, connection_changed, header_pos,
                       length, pos, bytes, pc, caller, historyVars>>
        /\ tx' = tx + 1
    BY <1>4 DEF Write
  <2>4. PositionTypes' /\ Ordered' /\ SessionTypes' /\ WireTypes' /\ SocketTypes'
    BY <2>2, <2>3 DEF PositionTypes, Ordered, SessionTypes, WireTypes, SocketTypes, instVars
  <2>5. FramingTypes' /\ Framed' /\ StreamType' /\ Current' /\ Sockets'
    BY <1>1, <2>3 DEF FramingTypes, NumberTypes, FlagTypes, ThreadTypes, Framed, StreamType,
                      Current, Sockets, instVars, historyVars
  <2>6. QED
    BY <2>4, <2>5
<1>5. ASSUME NEW frames \in Seq(Frames), CloseSocket(frames),
             UNCHANGED <<session, wsBroken, sent, relayed, serverClosed, heard, keys, sock>>,
             \/ opened' = opened
             \/ opened' = opened + 1 /\ opened < MaxConns
      PROVE  /\ PositionTypes' /\ Ordered' /\ SessionTypes' /\ WireTypes' /\ SocketTypes'
             /\ Sockets' /\ (opened' = opened + 1 =>
                               opened' \in Conns /\ taken'[opened'] = 0 /\ keys' < opened')
             /\ inst'[opened] # "CONNECTING"
  <2>1. /\ PositionTypes' /\ Ordered' /\ SessionTypes' /\ WireTypes'
        /\ inst' \in [Conns -> {"CONNECTING", "OPEN", "closed", "lost"}]
        /\ \A c \in Conns :
             /\ c <= opened => inst'[c] \in {"closed", "lost"}
             /\ c # opened => inst'[c] = inst[c] /\ arrived'[c] = arrived[c]
                                /\ taken'[c] = taken[c]
    BY <1>2, <1>5, CloseBase
  <2>2. SocketTypes'
    BY <1>1, <1>5, <2>1 DEF SocketTypes
  <2>3. opened \in Nat
    BY <1>1, <1>2 DEF Conns
  <2>4. Sockets'
    <3>1. CASE opened' = opened
      BY <1>1, <2>1, <2>3, <3>1 DEF Sockets, Conns
    <3>2. CASE opened' = opened + 1
      BY <1>1, <2>1, <2>3, <3>2 DEF Sockets, Conns
    <3>3. QED
      BY <1>5, <3>1, <3>2
  <2>5. ASSUME opened' = opened + 1
        PROVE  opened' \in Conns /\ taken'[opened'] = 0 /\ keys' < opened'
    <3>1. opened' \in Conns /\ keys' < opened'
      BY <1>1, <1>2, <1>5, <2>3, <2>5 DEF Conns
    <3>2. arrived[opened'] = 0 /\ taken[opened'] <= arrived[opened'] /\ taken[opened'] \in Nat
      BY <2>3, <2>5, <3>1 DEF Sockets, Ordered, PositionTypes
    <3>3. QED
      BY <1>2, <2>1, <2>3, <2>5, <3>1, <3>2
  <2>6. QED
    BY <1>2, <2>1, <2>2, <2>3, <2>4, <2>5 DEF Conns
<1>6. <<>> \in Seq(Frames)
  OBVIOUS
<1>7. CASE InvalidLength
  <2>1. /\ opened' = opened /\ CloseSocket(<<>>) /\ connected' = FALSE
        /\ connection_changed' = TRUE /\ ResetFraming /\ pc' = "tick"
        /\ UNCHANGED <<session, wsBroken, sent, relayed, serverClosed, heard,
                       sock, keys, rx, tx, bytes, caller, stream, loggedOut>>
    BY <1>7 DEF InvalidLength, historyVars
  <2>2. /\ PositionTypes' /\ Ordered' /\ SessionTypes' /\ WireTypes' /\ SocketTypes' /\ Sockets'
    BY <1>5, <1>6, <2>1
  <2>3. NumberTypes' /\ Framed' /\ StreamType'
    BY <1>1, <2>1 DEF NumberTypes, Framed, StreamType, ResetFraming
  <2>4. FlagTypes' /\ ThreadTypes' /\ Current'
    BY <1>1, <2>1 DEF FlagTypes, ThreadTypes, Current
  <2>5. QED
    BY <1>1, <2>1, <2>2, <2>3, <2>4 DEF FramingTypes
<1>8. CASE Logout
  <2> DEFINE frames == <<Binary(keys, tx + 1)>>
  <2>1. tx + 1 \in Nat /\ frames \in Seq(Frames)
    BY <1>1, <1>3 DEF NumberTypes
  <2>2. /\ opened' = opened + 1 /\ opened < MaxConns /\ CloseSocket(frames)
        /\ connected' = FALSE /\ tx' = tx + 1 /\ loggedOut' = TRUE
        /\ connection_changed' = TRUE /\ ResetFraming /\ pc' = "connecting" /\ caller' = "logout"
        /\ UNCHANGED <<session, wsBroken, sent, relayed, serverClosed, heard,
                       sock, keys, rx, bytes, stream>>
    BY <1>8 DEF Logout, NewSocket
  <2> HIDE DEF frames
  <2>3. /\ PositionTypes' /\ Ordered' /\ SessionTypes' /\ WireTypes' /\ SocketTypes' /\ Sockets'
        /\ opened' \in Conns /\ taken'[opened'] = 0 /\ keys' < opened'
    BY <1>5, <2>1, <2>2
  <2>4. NumberTypes' /\ Framed' /\ StreamType'
    BY <1>1, <2>1, <2>2 DEF NumberTypes, Framed, StreamType, ResetFraming
  <2>5. FlagTypes' /\ ThreadTypes' /\ Current'
    BY <1>1, <2>2, <2>3 DEF FlagTypes, ThreadTypes, Current
  <2>6. QED
    BY <1>1, <2>2, <2>3, <2>4, <2>5 DEF FramingTypes
<1>9. CASE ForwardReconnect
  <2>1. /\ StreamType' /\ Framed' /\ rx' \in Nat /\ header_pos' \in 0 .. HEADER_LENGTH - 1
        /\ length' \in Nat /\ pos' \in Nat /\ bytes' \in Chunks
    BY <1>9, ForwardTypes DEF ForwardReconnect
  <2>2. /\ opened' = opened + 1 /\ opened < MaxConns /\ CloseSocket(<<>>)
        /\ pc' = "connecting" /\ caller' = "handler"
        /\ UNCHANGED <<session, wsBroken, sent, relayed, serverClosed, heard,
                       sock, keys, tx, connected, connection_changed, loggedOut>>
    BY <1>9 DEF ForwardReconnect, Forward, NewSocket
  <2>3. /\ PositionTypes' /\ Ordered' /\ SessionTypes' /\ WireTypes' /\ SocketTypes' /\ Sockets'
        /\ opened' \in Conns /\ taken'[opened'] = 0 /\ keys' < opened'
    BY <1>5, <1>6, <2>2
  <2>4. NumberTypes'
    BY <1>1, <2>1, <2>2 DEF NumberTypes
  <2>5. FlagTypes' /\ ThreadTypes' /\ Current'
    BY <1>1, <2>2, <2>3 DEF FlagTypes, ThreadTypes, Current
  <2>6. QED
    BY <2>1, <2>3, <2>4, <2>5 DEF FramingTypes
<1>10. QED
  BY <1>4, <1>7, <1>8, <1>9

\* The page is closed.
LEMMA PageBase ==
  ASSUME Base, NEW c \in Conns, PageCloses(c)
  PROVE  Base'
<1> USE DEF Base, PageCloses
<1>1. StreamEnd \in Nat
  BY StartFacts
<1>2. WireTypes' /\ SessionTypes' /\ StreamType'
  <2>1. wsUp[c] \in Seq(Frames) => Append(wsUp[c], Close) \in Seq(Frames)
    BY FrameTypes
  <2>2. QED
    BY <2>1 DEF WireTypes, SessionTypes, StreamType, historyVars
<1>3. PositionTypes' /\ Ordered'
  BY <1>1 DEF Remove, PositionTypes, Ordered
<1>4. SocketTypes' /\ Sockets'
  BY DEF Remove, SocketTypes, Sockets, Conns
<1>5. Current'
  BY DEF Current
<1>6. FlagTypes' /\ ThreadTypes'
  BY DEF FramingTypes, FlagTypes, ThreadTypes, historyVars
<1>7. NumberTypes' /\ Framed' /\ bytes' \in Chunks
  BY DEF FramingTypes, NumberTypes, Framed
<1>8. QED
  BY <1>2, <1>3, <1>4, <1>5, <1>6, <1>7 DEF FramingTypes

\* The boot starts with no connection.
LEMMA BaseInit == Init => Base
<1> SUFFICES ASSUME Init
             PROVE  Base
  OBVIOUS
<1> USE DEF Init, ProxyInit
<1>1. HEADER_LENGTH \in Nat \ {0} /\ MaxConns \in Nat /\ StreamEnd \in Nat
  BY StartFacts
<1>2. PositionTypes /\ Ordered /\ SessionTypes
  BY <1>1 DEF PositionTypes, Ordered, SessionTypes
<1>3. WireTypes
  BY DEF WireTypes
<1>4. SocketTypes /\ Current /\ Sockets
  BY <1>1 DEF SocketTypes, Current, Sockets, Conns
<1>5. NumberTypes /\ Framed /\ ThreadTypes /\ bytes \in Chunks
  BY <1>1 DEF NumberTypes, Framed, ThreadTypes, Chunks
<1>6. FlagTypes /\ StreamType
  <2>1. stream = <<>>
    OBVIOUS
  <2>2. StreamType
    BY <2>1 DEF StreamType
  <2>3. QED
    BY <2>2 DEF FlagTypes
<1>7. QED
  BY <1>2, <1>3, <1>4, <1>5, <1>6 DEF Base, FramingTypes

\* The link's types and the current socket, in every reachable state.
LEMMA BaseHolds == Spec => []Base
<1>1. Init => Base
  BY BaseInit
<1>2. Base /\ [Next]_vars => Base'
  <2> SUFFICES ASSUME Base, [Next]_vars
               PROVE  Base'
    OBVIOUS
  <2>1. CASE ThreadStep
    BY <2>1, OpeningBase, WalkBase, ClosingBase DEF ThreadStep
  <2>2. CASE ForwardReconnect \/ Write \/ Logout
    BY <2>2, ClosingBase
  <2>3. CASE \E c \in Conns : Callback(c)
    BY <2>3, CallbackBase
  <2>4. ASSUME NEW c \in Conns, ProxyStep(c) \/ External(c),
               UNCHANGED <<instVars, sessionVars, historyVars>>
        PROVE  Base'
    BY <2>4, ProxyBase
  <2>5. CASE UNCHANGED vars
    BY <2>5 DEF vars, proxyVars, instVars, sessionVars, historyVars, Base, PositionTypes,
                Ordered, SessionTypes, WireTypes, SocketTypes, FramingTypes, NumberTypes,
                FlagTypes, ThreadTypes, Framed, StreamType, Current, Sockets
  <2>6. CASE \E c \in Conns : PageCloses(c)
    BY <2>6, PageBase
  <2>7. QED
    BY <2>1, <2>2, <2>3, <2>4, <2>5, <2>6 DEF Next
<1>3. QED
  BY <1>1, <1>2, PTL DEF Spec

\* Every variable of the client, the proxy and the wire keeps its type.
THEOREM TypeCorrect == Spec => []LinkTypeOK
<1>1. Base => LinkTypeOK
  BY DEF Base, PositionTypes, SessionTypes, WireTypes, SocketTypes, FramingTypes,
         NumberTypes, FlagTypes, ThreadTypes, StreamType, Chunks, LinkTypeOK
<1>2. QED
  BY <1>1, BaseHolds, PTL

\* A connection that was replaced is never left open behind the current one.
THEOREM OneSocket == Spec => []OneOpenSocket
<1>1. Base => OneOpenSocket
  BY DEF Base, Sockets, SocketTypes, OneOpenSocket, Conns
<1>2. QED
  BY <1>1, BaseHolds, PTL

-----------------------------------------------------------------------------
(* The packet stream *)

\* Until the logout, a walk follows the packets of one connection.
Walking == ~loggedOut /\ connected /\ pc \in {"tick", "process"}

\* What process() has of the packet after rx ends at position p.
At(p) ==
  /\ rx \in 0 .. MaxPackets
  /\ IF length = 0
     THEN p = Start[rx + 1] + header_pos
     ELSE /\ rx + 1 \in Packets
          /\ length = LengthOf[rx + 1]
          /\ p = Start[rx + 1] + HEADER_LENGTH + pos

\* The mark is not left behind for a walk that has nothing to drop.
Unmarked ==
  ~loggedOut /\ (connected \/ pc \in {"start", "connecting", "hello"})
    => ~connection_changed

Aligned ==
  /\ Walking /\ pc = "process" =>
       /\ At(bytes.at)
       /\ bytes.at + bytes.left <= StreamEnd
       /\ inst[sock] = "OPEN" => taken[sock] = bytes.at + bytes.left
  /\ Walking /\ pc = "tick" /\ inst[sock] = "OPEN" => At(taken[sock])

\* How far the record is: behind a new connection, or level with the current one.
Recorded ==
  /\ ~loggedOut /\ pc = "start" => Link!Latest.conn = 0
  /\ ~loggedOut /\ pc \in {"connecting", "hello"} => Link!Latest.conn < opened
  /\ Walking => \/ Link!Latest.conn = keys /\ Link!Latest.packet = rx
                \/ Link!Latest.conn < keys /\ rx = 0

Sound == Base /\ Unmarked /\ Aligned /\ Recorded

\* A header that process() completes in the right place is the next packet's.
LEMMA HeaderFits ==
  ASSUME NEW r \in 0 .. MaxPackets, Start[r + 1] < StreamEnd
  PROVE  r + 1 \in Packets /\ LengthsAt(Start[r + 1]) = {LengthOf[r + 1]}
<1>1. r + 1 \in Packets
  BY StartFacts DEF Packets, StreamEnd
<1>2. \A k \in Packets : Start[k] = Start[r + 1] => k = r + 1
  <2> SUFFICES ASSUME NEW k \in Packets, Start[k] = Start[r + 1], k # r + 1
               PROVE  FALSE
    OBVIOUS
  <2>1. /\ k \in 1 .. MaxPackets + 1 /\ r + 1 \in 1 .. MaxPackets + 1
        /\ Start[k] \in Nat /\ Start[r + 1] \in Nat
    BY <1>1, StartFacts
  <2>2. k < r + 1 \/ r + 1 < k
    BY <2>1, StartFacts
  <2>3. Start[k] < Start[r + 1] \/ Start[r + 1] < Start[k]
    BY <2>1, <2>2, StartsGrow
  <2>4. QED
    BY <2>1, <2>3
<1>3. QED
  BY <1>1, <1>2 DEF LengthsAt

\* Steps that leave the walk and the record where they are.
LEMMA QuietSound ==
  ASSUME Sound, Base',
         UNCHANGED <<opened, sock, keys, rx, connected, connection_changed, header_pos,
                     length, pos, bytes, pc, loggedOut, stream>>,
         \A c \in Conns : inst'[c] = "OPEN" /\ inst[c] # "CONNECTING"
                           => inst[c] = "OPEN" /\ taken'[c] = taken[c]
  PROVE  Sound'
<1> USE DEF Sound
<1>1. Unmarked'
  BY DEF Unmarked
<1>2. Recorded'
  BY DEF Recorded, Walking, Link!Latest, Link!Empty
<1>3. Walking => sock \in Conns /\ inst[sock] # "CONNECTING"
  BY DEF Walking, Base, Current
<1>4. Aligned'
  BY <1>3 DEF Aligned, Walking, At
<1>5. QED
  BY <1>1, <1>2, <1>4

\* Steps of the thread that open a connection.
LEMMA OpeningSound ==
  ASSUME Sound, Base', Boot \/ Connected \/ Hello \/ OpenFails
  PROVE  Sound'
<1> USE DEF Sound
<1>1. UNCHANGED <<loggedOut, stream>> /\ Link!Latest' = Link!Latest
  BY DEF Boot, Connected, Hello, OpenFails, InitReturns, historyVars, Link!Latest, Link!Empty
<1>2. CASE Boot
  <2>1. /\ pc = "start" /\ pc' = "connecting" /\ opened' = opened + 1 /\ opened = 0
        /\ UNCHANGED connection_changed
    BY <1>2 DEF Boot, NewSocket, Base, Current
  <2>2. QED
    BY <1>1, <2>1 DEF Unmarked, Aligned, Recorded, Walking
<1>3. CASE Connected
  <2>1. pc = "connecting" /\ pc' = "hello" /\ UNCHANGED <<opened, connection_changed>>
    BY <1>3 DEF Connected, instVars
  <2>2. QED
    BY <1>1, <2>1 DEF Unmarked, Aligned, Recorded, Walking
<1>4. CASE Hello
  <2>1. /\ pc = "hello" /\ pc' = "tick" /\ connected' = TRUE /\ keys' = sock /\ rx' = 0
        /\ header_pos' = 0 /\ length' = 0 /\ pos' = 0 /\ sock' = sock /\ opened' = opened
        /\ connection_changed' = (caller # "handler" /\ connection_changed)
        /\ taken' = [taken EXCEPT ![sock] = arrived[sock]]
        /\ arrived[sock] - taken[sock] = HANDSHAKE_LEN
    BY <1>4 DEF Hello, InitReturns, ResetFraming
  <2>2. sock = opened /\ opened \in Conns /\ taken[opened] = 0 /\ arrived[opened] \in Nat
    BY <2>1 DEF Base, Current, PositionTypes
  <2>3. taken'[sock] = HANDSHAKE_LEN
    BY <2>1, <2>2 DEF Base, PositionTypes
  <2>4. Unmarked'
    BY <1>1, <2>1 DEF Unmarked
  <2>5. Recorded'
    BY <1>1, <2>1, <2>2 DEF Recorded, Walking
  <2>6. HANDSHAKE_LEN = Start[0 + 1] + 0 /\ 0 \in 0 .. MaxPackets
    BY StartFacts
  <2>7. At(taken[sock])'
    BY <2>1, <2>3, <2>6 DEF At
  <2>8. QED
    BY <2>1, <2>4, <2>5, <2>7 DEF Aligned, Walking
<1>5. CASE OpenFails
  <2>1. connected' = FALSE /\ pc' \in {"stopped", "tick"}
    BY <1>5 DEF OpenFails, InitReturns
  <2>2. QED
    BY <2>1 DEF Unmarked, Aligned, Recorded, Walking
<1>6. QED
  BY <1>2, <1>3, <1>4, <1>5

\* The walk over headers and bodies.
LEMMA WalkSound ==
  ASSUME Sound, Base', Stop \/ ReadFails \/ Read \/ ProcessHeader \/ ProcessBody
  PROVE  Sound'
<1> USE DEF Sound
<1>1. /\ UNCHANGED <<loggedOut, stream, keys, sock, opened, inst, rx, connection_changed>>
      /\ Link!Latest' = Link!Latest
  BY DEF Stop, ReadFails, Read, ProcessHeader, ProcessBody, historyVars, instVars,
         Link!Latest, Link!Empty
<1>2. /\ connected' = connected \/ connected' = FALSE
      /\ Walking' => Walking
      /\ pc' \in {"tick", "process", "stopped"}
  BY <1>1 DEF Stop, ReadFails, Read, ProcessHeader, ProcessBody, Walk, Walking
<1>3. Unmarked' /\ Recorded'
  BY <1>1, <1>2 DEF Unmarked, Recorded, Walking
<1>4. SUFFICES ASSUME Walking', Walking
               PROVE  Aligned'
  BY <1>2, <1>3 DEF Aligned
<1>5. /\ NumberTypes /\ Framed /\ bytes.at \in Nat /\ bytes.left \in Nat
      /\ sock \in Conns
      /\ HEADER_LENGTH \in Nat \ {0} /\ MaxPackets \in Nat /\ StreamEnd \in Nat
      /\ \A k \in 1 .. MaxPackets + 1 : Start[k] \in Nat
  BY <1>4, StartFacts DEF Walking, Base, FramingTypes, Chunks, Current
<1>6. ASSUME pc = "process"
      PROVE  /\ At(bytes.at) /\ bytes.at + bytes.left <= StreamEnd /\ bytes.left > 0
             /\ inst[sock] = "OPEN" => taken[sock] = bytes.at + bytes.left
  BY <1>4, <1>6 DEF Aligned, Base, Current
<1>7. ASSUME NEW n \in Nat, n <= bytes.left, Walk(n)
      PROVE  /\ bytes'.at = bytes.at + n /\ bytes'.left = bytes.left - n
             /\ pc' = IF bytes.left = n THEN "tick" ELSE "process"
  <2>1. bytes.at + n \in Nat /\ bytes.left - n \in Nat
    BY <1>5, <1>7
  <2>2. PICK x \in Nat, y \in Nat : /\ bytes' = [bytes EXCEPT !.at = x, !.left = y]
                                    /\ x = bytes.at + n /\ y = bytes.left - n
    BY <1>7, <2>1, Zenon DEF Walk
  <2>3. bytes'.at = bytes.at + n /\ bytes'.left = bytes.left - n
    BY <1>5, <2>2 DEF Chunks
  <2>4. QED
    BY <1>7, <2>3 DEF Walk
<1>8. ASSUME NEW n \in Nat, n <= bytes.left, pc = "process", Walk(n), UNCHANGED taken,
             At(bytes.at)'
      PROVE  Aligned'
  <2>1. /\ bytes'.at = bytes.at + n /\ bytes'.left = bytes.left - n
        /\ pc' = IF bytes.left = n THEN "tick" ELSE "process"
    BY <1>7, <1>8
  <2>2. /\ inst'[sock'] = "OPEN" => taken'[sock'] = bytes.at + bytes.left
        /\ bytes.at + bytes.left <= StreamEnd
    BY <1>1, <1>6, <1>8
  <2>3. bytes'.at + bytes'.left = bytes.at + bytes.left
    BY <1>5, <2>1
  <2>4. CASE bytes.left = n
    BY <1>8, <2>1, <2>2, <2>4 DEF Aligned
  <2>5. CASE bytes.left # n
    BY <1>8, <2>1, <2>2, <2>3, <2>5 DEF Aligned
  <2>6. QED
    BY <2>4, <2>5
<1>9. CASE Stop \/ ReadFails
  BY <1>4, <1>9 DEF Stop, ReadFails, Walking
<1>10. CASE Read
  <2>1. /\ pc = "tick" /\ pc' = "process" /\ inst[sock] = "OPEN"
        /\ bytes' = [conn |-> sock, at |-> taken[sock], left |-> arrived[sock] - taken[sock]]
        /\ taken' = [taken EXCEPT ![sock] = arrived[sock]]
        /\ UNCHANGED <<header_pos, length, pos>>
    BY <1>10 DEF Read
  <2>2. /\ taken[sock] \in Nat /\ arrived[sock] \in Nat /\ taken'[sock] = arrived[sock]
        /\ arrived[sock] <= StreamEnd
    BY <1>5, <2>1 DEF Base, PositionTypes, Ordered
  <2>3. /\ bytes'.at = taken[sock] /\ bytes'.left = arrived[sock] - taken[sock]
        /\ bytes'.at + bytes'.left = arrived[sock]
    BY <2>1, <2>2
  <2>4. At(bytes.at)'
    BY <1>1, <1>4, <2>1, <2>3 DEF Aligned, At
  <2>5. QED
    BY <1>1, <2>1, <2>2, <2>3, <2>4 DEF Aligned
<1>11. CASE ProcessHeader
  <2> DEFINE n == Lesser(HEADER_LENGTH - header_pos, bytes.left)
  <2>1. /\ n \in Nat /\ n <= bytes.left
        /\ \/ n = HEADER_LENGTH - header_pos
           \/ n < HEADER_LENGTH - header_pos /\ n = bytes.left
    <3>1. HEADER_LENGTH - header_pos \in Nat /\ bytes.left \in Nat
      BY <1>5 DEF NumberTypes
    <3>2. QED
      BY <3>1 DEF Lesser
  <2>2. /\ Walk(n) /\ pc = "process" /\ length = 0 /\ pos = 0 /\ pos' = pos /\ taken' = taken
    BY <1>5, <1>11 DEF ProcessHeader, instVars, Framed
  <2>3. /\ rx \in 0 .. MaxPackets /\ bytes.at = Start[rx + 1] + header_pos
        /\ Start[rx + 1] \in Nat /\ Start[rx + 1] < StreamEnd
    BY <1>5, <1>6, <2>2 DEF At, NumberTypes
  <2>4. rx + 1 \in Packets /\ LengthsAt(Start[rx + 1]) = {LengthOf[rx + 1]}
    BY <2>3, HeaderFits
  <2>5. bytes.at - header_pos = Start[rx + 1]
    BY <1>5, <2>3 DEF NumberTypes
  <2>6. IF header_pos + n < HEADER_LENGTH
        THEN header_pos' = header_pos + n /\ UNCHANGED length
        ELSE header_pos' = 0 /\ length' \in LengthsAt(bytes.at - header_pos) \ {0}
    BY <1>11 DEF ProcessHeader
  <2> HIDE DEF n
  <2>7. At(bytes.at)'
    <3>0. bytes'.at = bytes.at + n
      BY <1>7, <2>1, <2>2
    <3>1. CASE header_pos + n < HEADER_LENGTH
      <4>1. header_pos' = header_pos + n /\ length' = 0 /\ rx' = rx
        BY <1>1, <2>2, <2>6, <3>1
      <4>2. bytes'.at = Start[rx + 1] + header_pos'
        BY <1>5, <2>1, <2>3, <3>0, <4>1 DEF NumberTypes
      <4>3. QED
        BY <2>3, <4>1, <4>2 DEF At
    <3>2. CASE ~(header_pos + n < HEADER_LENGTH)
      <4>1. header_pos' = 0 /\ length' = LengthOf[rx + 1] /\ length' # 0
        BY <2>4, <2>5, <2>6, <3>2
      <4>2. n = HEADER_LENGTH - header_pos
        BY <1>5, <2>1, <3>2 DEF NumberTypes
      <4>3. bytes'.at = Start[rx + 1] + HEADER_LENGTH + pos' /\ rx' = rx
        BY <1>1, <1>5, <2>2, <2>3, <3>0, <4>2 DEF NumberTypes
      <4>4. QED
        BY <2>3, <2>4, <4>1, <4>3 DEF At
    <3>3. QED
      BY <3>1, <3>2
  <2>8. QED
    BY <1>8, <2>1, <2>2, <2>7
<1>12. CASE ProcessBody
  <2>1. /\ Walk(bytes.left) /\ pc = "process" /\ pos' = pos + bytes.left
        /\ length # 0 /\ UNCHANGED <<header_pos, length, taken>>
    BY <1>12 DEF ProcessBody, instVars
  <2>2. bytes.left \in Nat /\ bytes.left <= bytes.left
    BY <1>5
  <2>3. /\ rx \in 0 .. MaxPackets /\ rx + 1 \in Packets /\ length = LengthOf[rx + 1]
        /\ bytes.at = Start[rx + 1] + HEADER_LENGTH + pos /\ Start[rx + 1] \in Nat
    BY <1>5, <1>6, <2>1 DEF At, Packets
  <2>4. At(bytes.at)'
    <3>1. bytes'.at = bytes.at + bytes.left
      BY <1>7, <2>1, <2>2
    <3>2. bytes'.at = Start[rx + 1] + HEADER_LENGTH + pos'
      BY <1>5, <2>1, <2>3, <3>1 DEF NumberTypes
    <3>3. QED
      BY <1>1, <2>1, <2>3, <3>2 DEF At
  <2>5. QED
    BY <1>8, <2>1, <2>2, <2>4
<1>13. QED
  BY <1>9, <1>10, <1>11, <1>12

\* Any step that logs out or disconnects ends what is promised of the walk.
LEMMA EndingSound ==
  ASSUME Sound, Base', InvalidLength \/ Logout
  PROVE  Sound'
<1>1. \/ connected' = FALSE /\ pc' = "tick"
      \/ loggedOut' = TRUE
  BY DEF InvalidLength, Logout
<1>2. QED
  BY <1>1 DEF Sound, Unmarked, Aligned, Recorded, Walking

\* Until the logout, a completed body is the next packet of the connection.
LEMMA NextPacket ==
  ASSUME Sound, Forward, ~loggedOut
  PROVE  /\ Decoded = rx + 1 /\ rx + 1 \in Packets /\ bytes.conn \in Conns
         /\ Link!Deliver(bytes.conn) /\ bytes.conn = keys
         /\ Link!Latest'.conn = keys /\ Link!Latest'.packet = rx + 1
<1> USE DEF Sound
<1>1. /\ pc = "process" /\ length \in Nat \ {0} /\ pos \in Nat /\ pos < length
      /\ bytes.conn = sock /\ sock = keys /\ keys \in Conns /\ Walking
      /\ HEADER_LENGTH \in Nat
  BY StartFacts DEF Forward, Base, FramingTypes, NumberTypes, Framed, Current, Walking
<1>2. /\ rx \in 0 .. MaxPackets /\ rx + 1 \in Packets /\ length = LengthOf[rx + 1]
      /\ bytes.at = Start[rx + 1] + HEADER_LENGTH + pos
  BY <1>1 DEF Aligned, At
<1>3. Start[rx + 1] \in Nat
  BY <1>2, StartFacts
<1>4. bytes.at + length - pos = Start[rx + 1] + HEADER_LENGTH + length
  BY <1>1, <1>2, <1>3
<1>5. Decoded = rx + 1
  BY <1>1, <1>2, <1>4 DEF Decoded
<1>6. /\ stream' = Append(stream, [conn |-> keys, packet |-> rx + 1])
      /\ stream \in Seq([conn : Conns, packet : Nat])
  BY <1>1, <1>5 DEF Forward, Base, StreamType
<1>7. /\ keys >= Link!Latest.conn
      /\ rx + 1 = IF keys = Link!Latest.conn THEN Link!Latest.packet + 1 ELSE 1
  <2>1. \/ Link!Latest.conn = keys /\ Link!Latest.packet = rx
        \/ Link!Latest.conn < keys /\ rx = 0
    BY <1>1 DEF Recorded
  <2>2. keys \in Nat /\ Link!Latest.conn \in Nat
    <3>1. stream # <<>> => stream[Len(stream)] \in [conn : Conns, packet : Nat]
      <4> DEFINE T == [conn : Conns, packet : Nat]
      <4>1. stream \in Seq(T)
        BY <1>6
      <4> HIDE DEF T
      <4>2. stream # <<>> => stream[Len(stream)] \in T
        BY <4>1
      <4>3. QED
        BY <4>2 DEF T
    <3>2. CASE stream = <<>>
      BY <1>1, <3>2 DEF Link!Latest, Link!Empty, Conns
    <3>3. CASE stream # <<>>
      <4>1. Link!Latest = stream[Len(stream)]
        BY <3>3 DEF Link!Latest
      <4>2. Link!Latest \in [conn : Conns, packet : Nat]
        BY <3>1, <3>3, <4>1
      <4>3. QED
        BY <1>1, <4>2 DEF Conns
    <3>4. QED
      BY <3>2, <3>3
  <2>3. QED
    BY <2>1, <2>2
<1>8. Link!Deliver(bytes.conn)
  BY <1>1, <1>6, <1>7 DEF Link!Deliver
<1>9. Link!Latest' = [conn |-> keys, packet |-> rx + 1]
  <2>1. /\ stream' # <<>> /\ stream'[Len(stream')] = [conn |-> keys, packet |-> rx + 1]
    BY <1>6
  <2>2. QED
    BY <2>1 DEF Link!Latest
<1>10. QED
  BY <1>1, <1>2, <1>5, <1>8, <1>9

\* A packet is forwarded.
LEMMA ForwardSound ==
  ASSUME Sound, Base', ForwardPlain \/ ForwardReconnect
  PROVE  Sound'
<1> USE DEF Sound
<1>1. /\ Forward /\ ResetFraming
      /\ bytes' = [bytes EXCEPT !.at = @ + length - pos, !.left = @ - (length - pos)]
      /\ UNCHANGED <<loggedOut, sock, keys, connected>> /\ rx' = rx + 1
  BY DEF ForwardPlain, ForwardReconnect, Forward
<1>2. CASE loggedOut
  BY <1>1, <1>2 DEF Unmarked, Aligned, Recorded, Walking
<1>3. CASE ~loggedOut
  <2>1. /\ rx + 1 \in Packets /\ bytes.conn = keys
        /\ Link!Latest'.conn = keys /\ Link!Latest'.packet = rx + 1
    BY <1>1, <1>3, NextPacket
  <2>2. /\ pc = "process" /\ connected /\ sock = opened /\ keys = opened /\ opened \in Conns
        /\ Walking /\ ~connection_changed
    BY <1>1, <1>3 DEF Forward, Base, Current, Unmarked, Walking
  <2>3. CASE ForwardReconnect
    <3>1. pc' = "connecting" /\ opened' = opened + 1 /\ UNCHANGED connection_changed
      BY <2>3 DEF ForwardReconnect, NewSocket
    <3>2. Link!Latest'.conn < opened'
      BY <2>1, <2>2, <3>1 DEF Conns
    <3>3. QED
      BY <1>1, <2>2, <3>1, <3>2 DEF Unmarked, Aligned, Recorded, Walking
  <2>4. CASE ForwardPlain
    <3>1. /\ connection_changed' = FALSE /\ UNCHANGED <<opened, inst, taken>>
          /\ pc' = IF bytes'.left = 0 THEN "tick" ELSE "process"
      BY <2>2, <2>4 DEF ForwardPlain, instVars
    <3>2. Unmarked' /\ Recorded'
      BY <1>1, <2>1, <3>1 DEF Unmarked, Recorded, Walking
    <3>3. /\ bytes'.at = bytes.at + length - pos
          /\ bytes'.left = bytes.left - (length - pos)
      BY <1>1, ForwardTypes
    <3>4. /\ length \in Nat \ {0} /\ pos \in Nat /\ bytes.at \in Nat /\ bytes.left \in Nat
          /\ HEADER_LENGTH \in Nat /\ StreamEnd \in Nat /\ rx \in Nat /\ MaxPackets \in Nat
      BY <1>1, StartFacts DEF Forward, Base, FramingTypes, NumberTypes, Chunks
    <3>5. /\ bytes.at = Start[rx + 1] + HEADER_LENGTH + pos /\ length = LengthOf[rx + 1]
          /\ bytes.at + bytes.left <= StreamEnd
          /\ inst[sock] = "OPEN" => taken[sock] = bytes.at + bytes.left
      BY <2>2, <3>4 DEF Aligned, At
    <3>6. /\ Start[rx + 1] \in Nat /\ Start[rx + 1 + 1] \in Nat
          /\ Start[rx + 1 + 1] = Start[rx + 1] + HEADER_LENGTH + LengthOf[rx + 1]
      BY <2>1, StartFacts, StreamAssumption DEF StreamAssumption
    <3>7. bytes'.at = Start[rx + 1 + 1] /\ bytes'.at + bytes'.left = bytes.at + bytes.left
      BY <3>3, <3>4, <3>5, <3>6
    <3>8. At(bytes.at)'
      <4>1. rx + 1 \in 0 .. MaxPackets
        BY <2>1 DEF Packets
      <4>2. header_pos' = 0 /\ length' = 0 /\ rx' = rx + 1
        BY <1>1 DEF ResetFraming
      <4>3. bytes'.at = Start[rx + 1 + 1] + 0
        BY <3>6, <3>7
      <4>4. QED
        BY <4>1, <4>2, <4>3 DEF At
    <3>9. Aligned'
      <4>1. CASE bytes'.left = 0
        <5>1. bytes'.at = bytes.at + bytes.left
          BY <3>3, <3>4, <3>7, <4>1
        <5>2. QED
          BY <1>1, <3>1, <3>5, <3>8, <4>1, <5>1 DEF Aligned
      <4>2. CASE bytes'.left # 0
        BY <1>1, <3>1, <3>5, <3>7, <3>8, <4>2 DEF Aligned
      <4>3. QED
        BY <4>1, <4>2
    <3>10. QED
      BY <3>2, <3>9
  <2>5. QED
    BY <2>3, <2>4
<1>4. QED
  BY <1>2, <1>3

\* The walk is in step with the stream in every reachable state.
LEMMA SoundHolds == Spec => []Sound
<1>1. Init => Sound
  <2> SUFFICES ASSUME Init
               PROVE  Sound
    OBVIOUS
  <2>1. Base
    BY BaseInit
  <2>2. QED
    BY <2>1 DEF Sound, Init, Unmarked, Aligned, Recorded, Walking, Link!Latest, Link!Empty
<1>2. Sound /\ Base' /\ [Next]_vars => Sound'
  <2> SUFFICES ASSUME Sound, Base', [Next]_vars
               PROVE  Sound'
    OBVIOUS
  <2>1. CASE ThreadStep
    BY <2>1, OpeningSound, WalkSound, ForwardSound, EndingSound DEF ThreadStep
  <2>2. CASE ForwardReconnect \/ Logout
    BY <2>2, ForwardSound, EndingSound
  <2>3. CASE Write
    BY <2>3, QuietSound DEF Write, instVars, historyVars
  <2>4. ASSUME NEW c \in Conns, Callback(c)
        PROVE  Sound'
    <3>1. /\ UNCHANGED <<sessionVars, historyVars, opened>>
          /\ \A d \in Conns : inst'[d] = "OPEN" /\ inst[d] # "CONNECTING"
                             => inst[d] = "OPEN" /\ taken'[d] = taken[d]
      BY <2>4 DEF Callback, OnOpen, OnMessage, OnClose, Remove, Sound, Base, SocketTypes,
                  PositionTypes
    <3>2. QED
      BY <3>1, QuietSound DEF sessionVars, historyVars
  <2>5. CASE UNCHANGED <<instVars, sessionVars, historyVars>>
    BY <2>5, QuietSound DEF instVars, sessionVars, historyVars
  <2>6. ASSUME NEW c \in Conns, PageCloses(c)
        PROVE  Sound'
    <3>1. /\ pc' = "stopped" /\ UNCHANGED <<connected, connection_changed, loggedOut>>
      BY <2>6 DEF PageCloses, historyVars
    <3>2. QED
      BY <3>1 DEF Sound, Unmarked, Aligned, Recorded, Walking
  <2>7. QED
    BY <2>1, <2>2, <2>3, <2>4, <2>5, <2>6 DEF Next, vars
<1>3. QED
  BY <1>1, <1>2, BaseHolds, PTL DEF Spec

\* The game link implements the unbroken packet stream: however the bytes are cut,
\* wherever a handler reconnects, no packet is skipped, repeated, misread or taken
\* from a connection that has been replaced, until the player logs out.
THEOREM Unbroken == Spec => StreamIsUnbroken
<1>1. Init => Link!Init
  BY DEF Init, Link!Init
<1>2. Sound /\ [Next]_vars => [Link!Next]_stream
  <2> SUFFICES ASSUME Sound, Next, stream' # stream
               PROVE  Link!Next
    BY DEF vars, historyVars
  <2>1. Forward /\ ~loggedOut
    BY DEF Next, ThreadStep, Boot, Connected, Hello, OpenFails, InitReturns, Stop, ReadFails,
           Read, ProcessHeader, InvalidLength, ProcessBody, ForwardPlain, ForwardReconnect,
           Forward, Write, Logout, Callback, OnOpen, OnMessage, OnClose, PageCloses, historyVars
  <2>2. QED
    BY <2>1, NextPacket DEF Link!Next
<1>3. QED
  BY <1>1, <1>2, SoundHolds, PTL DEF Spec, StreamIsUnbroken, Link!Spec

\* Bytes that process() has not walked are left over only by a handler that
\* replaced the connection they came from.
Leftover ==
  ~loggedOut =>
    /\ pc = "start" => bytes.left = 0
    /\ pc \in {"connecting", "hello"} => bytes.left = 0 \/ bytes.conn < opened
    /\ pc = "tick" /\ connected => bytes.left = 0 \/ bytes.conn < sock

LEMMA LeftoverStep ==
  ASSUME Sound, Leftover, Next
  PROVE  Leftover'
<1>1. /\ bytes \in Chunks /\ opened \in Nat /\ sock \in Nat /\ length \in Nat /\ pos \in Nat
      /\ Current
  BY StartFacts DEF Sound, Base, FramingTypes, NumberTypes, SocketTypes
<1>2. ASSUME UNCHANGED <<loggedOut, pc, bytes, opened, sock, connected>>
      PROVE  Leftover'
  BY <1>2 DEF Leftover
<1>3. CASE Boot \/ Connected \/ Hello
  BY <1>1, <1>3 DEF Boot, Connected, Hello, NewSocket, InitReturns, instVars, historyVars, Leftover,
                    Current
<1>4. CASE OpenFails \/ Stop \/ ReadFails \/ InvalidLength
  <2>1. pc' \in {"stopped", "tick"} /\ (pc' = "tick" => connected' = FALSE)
    BY <1>4 DEF OpenFails, Stop, ReadFails, InvalidLength, InitReturns
  <2>2. QED
    BY <2>1 DEF Leftover
<1>5. CASE Read
  BY <1>5 DEF Read, Leftover
<1>6. CASE ProcessHeader \/ ProcessBody
  <2>1. PICK n : Walk(n)
    BY <1>6 DEF ProcessHeader, ProcessBody
  <2>2. pc' = "tick" => bytes'.left = bytes.left - n /\ bytes.left = n /\ bytes.left \in Nat
    BY <1>1, <2>1 DEF Walk, Chunks
  <2>3. pc' \in {"tick", "process"}
    BY <2>1 DEF Walk
  <2>4. QED
    BY <2>2, <2>3 DEF Leftover
<1>7. CASE ForwardPlain
  <2>1. pc' \in {"tick", "process"} /\ UNCHANGED loggedOut
    BY <1>7 DEF ForwardPlain, Forward
  <2>2. ~loggedOut => ~connection_changed
    BY <1>1, <1>7 DEF ForwardPlain, Forward, Current, Sound, Unmarked
  <2>3. ~loggedOut /\ pc' = "tick" => bytes'.left = 0
    BY <1>7, <2>2 DEF ForwardPlain
  <2>4. QED
    BY <2>1, <2>3 DEF Leftover
<1>8. CASE ForwardReconnect
  <2>1. pc = "process" /\ bytes'.conn = bytes.conn
    BY <1>1, <1>8 DEF ForwardReconnect, Forward, Chunks
  <2>2. bytes.conn = opened
    BY <1>1, <2>1 DEF Current
  <2>3. pc' = "connecting" /\ opened' = opened + 1
    BY <1>8 DEF ForwardReconnect, NewSocket
  <2>4. QED
    BY <1>1, <2>1, <2>2, <2>3 DEF Leftover
<1>9. CASE Write
  BY <1>2, <1>9 DEF Write, instVars, historyVars
<1>10. CASE Logout
  BY <1>10 DEF Logout, Leftover
<1>11. ASSUME NEW c \in Conns,
              \/ Callback(c)
              \/ ProxyStep(c) /\ UNCHANGED <<instVars, sessionVars, historyVars>>
              \/ External(c) /\ UNCHANGED <<instVars, sessionVars, historyVars>>
       PROVE  Leftover'
  BY <1>2, <1>11 DEF Callback, OnOpen, OnMessage, OnClose, instVars, sessionVars, historyVars
<1>12. ASSUME NEW c \in Conns, PageCloses(c)
       PROVE  Leftover'
  BY <1>12 DEF PageCloses, Leftover
<1>13. QED
  BY <1>3, <1>4, <1>5, <1>6, <1>7, <1>8, <1>9, <1>10, <1>11, <1>12 DEF Next, ThreadStep

\* What the comment in process() says of the bytes it drops is true until the
\* player logs out: every way to lose bytes of the present connection goes
\* through a logout.
THEOREM OldBytesUntilLogout == Spec => [](~loggedOut => DroppedBytesAreOld)
<1>1. Init => Leftover
  BY DEF Init, Leftover
<1>2. Sound /\ Leftover /\ [Next]_vars => Leftover'
  <2>1. UNCHANGED vars /\ Leftover => Leftover'
    BY DEF vars, instVars, sessionVars, historyVars, Leftover
  <2>2. QED
    BY <2>1, LeftoverStep
<1>3. Sound /\ Leftover => (~loggedOut => DroppedBytesAreOld)
  <2>1. Sound => bytes.left \in Nat /\ sock \in Nat
    BY StartFacts DEF Sound, Base, FramingTypes, Chunks, SocketTypes
  <2>2. QED
    BY <2>1 DEF Leftover, DroppedBytesAreOld
<1>4. QED
  BY <1>1, <1>2, <1>3, SoundHolds, PTL DEF Spec

-----------------------------------------------------------------------------
(* The last words *)

\* A close frame is the last one, and comes from a socket that is gone; a session
\* that a close frame ended has read all that came before it.
Parting ==
  \A c \in Conns :
    /\ \A i \in DOMAIN wsUp[c] :
         wsUp[c][i] = Close => i = Len(wsUp[c]) /\ inst[c] \in {"closed", "lost"}
    /\ session[c] = "closing" /\ ~wsBroken[c] /\ ~serverClosed[c] => wsUp[c] = <<Close>>

\* The proxy reads from the front of what was sent.
LEMMA ProxyParting ==
  ASSUME Base, Parting, NEW c \in Conns, ProxyStep(c) \/ External(c), UNCHANGED instVars
  PROVE  Parting'
<1>1. /\ session \in [Conns -> {"none", "waiting", "bridging", "sending", "closing", "closed"}]
      /\ wsUp \in [Conns -> Seq(Frames)] /\ wsBroken \in [Conns -> BOOLEAN]
      /\ serverClosed \in [Conns -> BOOLEAN]
  BY DEF Base, SessionTypes, WireTypes
<1>2. \A d \in Conns \ {c} : /\ session'[d] = session[d] /\ wsUp'[d] = wsUp[d]
                             /\ wsBroken'[d] = wsBroken[d] /\ serverClosed'[d] = serverClosed[d]
  BY <1>1 DEF ProxyStep, External, Dial, LeaveEarly, Downstream, DownstreamEnds, Upstream,
     SendFails, UpstreamEnds, LivenessTick, Teardown, EndSession, StreamError, ServerWrites,
     ServerCloses, PathBreaks
<1>3. SUFFICES
        /\ \A i \in DOMAIN wsUp'[c] :
             wsUp'[c][i] = Close => i = Len(wsUp'[c]) /\ inst[c] \in {"closed", "lost"}
        /\ session'[c] = "closing" /\ ~wsBroken'[c] /\ ~serverClosed'[c] => wsUp'[c] = <<Close>>
  BY <1>2 DEF Parting, instVars
<1>4. CASE wsUp'[c] = <<>> /\ session'[c] = "closed"
  BY <1>4
<1>5. CASE /\ wsUp[c] # <<>> /\ wsUp'[c] = Tail(wsUp[c])
           /\ session'[c] = "bridging" \/ serverClosed'[c]
  BY <1>1, <1>5 DEF Parting
<1>6. CASE /\ wsUp'[c] = wsUp[c]
           /\ session'[c] # "closing" \/ serverClosed'[c] \/ wsBroken'[c]
  BY <1>6 DEF Parting
<1>7. CASE DownstreamEnds(c)
  <2>1. wsUp' = wsUp /\ wsUp[c] # <<>> /\ Head(wsUp[c]).type = "close"
    BY <1>7 DEF DownstreamEnds, Reads
  <2>2. wsUp[c] \in Seq(Frames) /\ Head(wsUp[c]) = wsUp[c][1] /\ 1 \in DOMAIN wsUp[c]
    BY <1>1, <2>1
  <2>3. wsUp[c][1] = Close
    BY <2>1, <2>2 DEF Frames, Target, Close
  <2>4. Len(wsUp[c]) = 1
    BY <2>2, <2>3 DEF Parting
  <2>5. wsUp[c] = <<Close>>
    BY <2>2, <2>3, <2>4
  <2>6. QED
    BY <2>1, <2>5 DEF Parting
<1>8. CASE UNCHANGED <<wsUp, session>> /\ (wsBroken'[c] \/ ~wsBroken[c])
           /\ (serverClosed'[c] \/ ~serverClosed[c])
  BY <1>8 DEF Parting
<1>9. ASSUME EndSession(c)
      PROVE  wsUp'[c] = <<>> /\ session'[c] = "closed"
  BY <1>1, <1>9 DEF EndSession
<1>10. CASE LeaveEarly(c) \/ SendFails(c) \/ LivenessTick(c) \/ Teardown(c)
  BY <1>4, <1>9, <1>10 DEF LeaveEarly, SendFails, LivenessTick, Teardown
<1>11. CASE Dial(c)
  BY <1>1, <1>4, <1>5, <1>9, <1>11 DEF Dial, Reads
<1>12. CASE Downstream(c)
  BY <1>1, <1>5, <1>12 DEF Downstream, Reads
<1>13. CASE Upstream(c) \/ UpstreamEnds(c)
  BY <1>1, <1>6, <1>13 DEF Upstream, UpstreamEnds
<1>14. CASE StreamError(c)
  BY <1>1, <1>4, <1>6, <1>9, <1>14 DEF StreamError
<1>15. CASE ServerWrites(c) \/ ServerCloses(c) \/ PathBreaks(c)
  BY <1>1, <1>8, <1>15 DEF ServerWrites, ServerCloses, PathBreaks
<1>16. QED
  BY <1>7, <1>10, <1>11, <1>12, <1>13, <1>14, <1>15 DEF ProxyStep, External

\* Frames go up on a socket that is open, a close frame when it is closed.
LEMMA SendParting ==
  ASSUME Base, Parting, NEW c \in Conns, inst[c] = "OPEN", NEW frames \in Seq(Frames),
         wsUp' = [wsUp EXCEPT ![c] = @ \o frames],
         \A i \in DOMAIN frames :
           frames[i] = Close => i = Len(frames) /\ inst'[c] \in {"closed", "lost"},
         \A d \in Conns \ {c} : inst'[d] = inst[d],
         UNCHANGED <<session, wsBroken, serverClosed>>
  PROVE  Parting'
<1>1. /\ wsUp \in [Conns -> Seq(Frames)] /\ wsUp[c] \in Seq(Frames)
  BY DEF Base, WireTypes
<1>2. \A i \in DOMAIN wsUp[c] : wsUp[c][i] # Close
  BY DEF Parting
<1>3. ~(session[c] = "closing" /\ ~wsBroken[c] /\ ~serverClosed[c])
  <2>1. SUFFICES ASSUME wsUp[c] = <<Close>>
                 PROVE  FALSE
    BY DEF Parting
  <2>2. 1 \in DOMAIN wsUp[c] /\ wsUp[c][1] = Close
    BY <2>1
  <2>3. QED
    BY <1>2, <2>2
<1>4. wsUp'[c] = wsUp[c] \o frames
  BY <1>1
<1>5. ASSUME NEW i \in DOMAIN wsUp'[c], wsUp'[c][i] = Close
      PROVE  i = Len(wsUp'[c]) /\ inst'[c] \in {"closed", "lost"}
  <2> DEFINE n == Len(wsUp[c])
  <2>1. /\ n \in Nat /\ Len(frames) \in Nat /\ Len(wsUp'[c]) = n + Len(frames)
        /\ i \in 1 .. n + Len(frames)
    BY <1>1, <1>4, <1>5
  <2>2. i > n
    <3>1. SUFFICES ASSUME i <= n
                   PROVE  FALSE
      BY <2>1
    <3>2. i \in DOMAIN wsUp[c] /\ wsUp'[c][i] = wsUp[c][i]
      BY <1>1, <1>4, <2>1, <3>1
    <3>3. QED
      BY <1>2, <1>5, <3>2
  <2>3. i - n \in DOMAIN frames /\ wsUp'[c][i] = frames[i - n]
    BY <1>1, <1>4, <2>1, <2>2
  <2>4. i - n = Len(frames) /\ inst'[c] \in {"closed", "lost"}
    BY <1>5, <2>3
  <2>5. QED
    BY <2>1, <2>4
<1>6. ASSUME NEW d \in Conns \ {c}
      PROVE  /\ \A i \in DOMAIN wsUp'[d] :
                  wsUp'[d][i] = Close => i = Len(wsUp'[d]) /\ inst'[d] \in {"closed", "lost"}
             /\ session'[d] = "closing" /\ ~wsBroken'[d] /\ ~serverClosed'[d]
                  => wsUp'[d] = <<Close>>
  BY <1>1 DEF Parting
<1>7. QED
  BY <1>3, <1>5, <1>6 DEF Parting

\* Nothing goes up, and no socket comes back.
LEMMA QuietParting ==
  ASSUME Parting, UNCHANGED <<wsUp, wsBroken, serverClosed>>,
         \A c \in Conns : /\ inst[c] \in {"closed", "lost"} => inst'[c] \in {"closed", "lost"}
                          /\ session'[c] = "closing" => session[c] = "closing"
  PROVE  Parting'
BY DEF Parting

\* Frames on the current socket, which is left as it is or closed.
LEMMA SendUpParting ==
  ASSUME Base, Parting, NEW frames \in Seq(Frames), SendUp(frames),
         \A i \in DOMAIN frames : frames[i] = Close =>
           i = Len(frames) /\ (Alive(sock) => inst'[sock] \in {"closed", "lost"}),
         \A d \in Conns : d # sock \/ ~Alive(sock) => inst'[d] = inst[d],
         inst'[sock] = inst[sock] \/ inst'[sock] \in {"closed", "lost"},
         UNCHANGED <<session, wsBroken, serverClosed>>
  PROVE  Parting'
<1>1. CASE Alive(sock) /\ session[sock] # "closed"
  <2>1. /\ sock \in Conns /\ inst[sock] = "OPEN"
        /\ wsUp' = [wsUp EXCEPT ![sock] = @ \o frames]
    BY <1>1 DEF SendUp, Alive
  <2>2. QED
    BY <1>1, <2>1, SendParting
<1>2. CASE ~(Alive(sock) /\ session[sock] # "closed")
  <2>1. wsUp' = wsUp
    BY <1>2 DEF SendUp
  <2>2. \A c \in Conns : inst[c] \in {"closed", "lost"} => inst'[c] \in {"closed", "lost"}
    OBVIOUS
  <2>3. QED
    BY <2>1, <2>2, QuietParting
<1>3. QED
  BY <1>1, <1>2

\* The client closes its socket.
LEMMA CloseParting ==
  ASSUME Base, Parting, NEW frames \in Seq(Frames), CloseSocket(frames),
         \A i \in DOMAIN frames : frames[i] # Close,
         UNCHANGED <<session, wsBroken, serverClosed>>
  PROVE  Parting'
<1> DEFINE words == Append(frames, Close)
<1>1. words \in Seq(Frames) /\ SendUp(words)
  BY FrameTypes DEF CloseSocket
<1>2. \A i \in DOMAIN words : words[i] = Close => i = Len(words)
  <2>1. /\ Len(words) = Len(frames) + 1 /\ Len(frames) \in Nat
        /\ DOMAIN words = 1 .. Len(frames) + 1 /\ DOMAIN frames = 1 .. Len(frames)
        /\ \A i \in 1 .. Len(frames) : words[i] = frames[i]
    BY FrameTypes
  <2> HIDE DEF words
  <2>2. QED
    BY <2>1
<1> HIDE DEF words
<1>3. CASE Alive(sock)
  <2>1. sock \in Conns /\ inst' = [inst EXCEPT ![sock] = "closed"]
    BY <1>3 DEF CloseSocket, Remove, Alive
  <2>2. inst'[sock] = "closed" /\ \A d \in Conns : d # sock => inst'[d] = inst[d]
    BY <2>1 DEF Base, SocketTypes
  <2>3. QED
    BY <1>1, <1>2, <1>3, <2>2, SendUpParting
<1>4. CASE ~Alive(sock)
  <2>1. inst' = inst
    BY <1>4 DEF CloseSocket
  <2>2. QED
    BY <1>1, <1>2, <1>4, <2>1, SendUpParting
<1>5. QED
  BY <1>3, <1>4

\* Steps of the client.
LEMMA ClientParting ==
  ASSUME Base, Parting,
         \/ ThreadStep \/ ForwardReconnect \/ Write \/ Logout
         \/ \E c \in Conns : Callback(c) \/ PageCloses(c)
  PROVE  Parting'
<1>1. /\ inst \in [Conns -> {"CONNECTING", "OPEN", "closed", "lost"}]
      /\ wsUp \in [Conns -> Seq(Frames)] /\ keys \in Nat /\ tx \in Nat
      /\ session \in [Conns -> {"none", "waiting", "bridging", "sending", "closing", "closed"}]
  BY StartFacts DEF Base, SocketTypes, WireTypes, FramingTypes, NumberTypes, SessionTypes
<1>2. /\ <<>> \in Seq(Frames) /\ \A i \in DOMAIN <<>> : <<>>[i] # Close
      /\ \A k, n \in Nat : /\ <<Binary(k, n)>> \in Seq(Frames)
                            /\ \A i \in DOMAIN <<Binary(k, n)>> : <<Binary(k, n)>>[i] # Close
  BY FrameTypes
<1>3. CASE Boot \/ OpenFails \/ Stop \/ ReadFails \/ Read \/ ProcessHeader \/ ProcessBody
           \/ ForwardPlain
  <2>1. UNCHANGED <<wsUp, wsBroken, serverClosed, session, inst>>
    BY <1>3 DEF Boot, OpenFails, InitReturns, Stop, ReadFails, Read, ProcessHeader, ProcessBody,
                ForwardPlain, proxyVars, instVars
  <2>2. QED
    BY <2>1, QuietParting
<1>4. CASE Connected
  <2>1. /\ opened \in Conns /\ inst[opened] = "OPEN" /\ inst' = inst
        /\ UNCHANGED <<session, wsBroken, serverClosed>>
        /\ wsUp' = [wsUp EXCEPT ![opened] = Append(@, Target)]
    BY <1>4 DEF Connected, instVars, Base, Current
  <2>2. /\ Append(wsUp[opened], Target) = wsUp[opened] \o <<Target>>
        /\ \A i \in DOMAIN <<Target>> : <<Target>>[i] # Close
    <3>1. \A u \in Seq(Frames), f \in Frames : Append(u, f) = u \o <<f>>
      OBVIOUS
    <3>2. wsUp[opened] \in Seq(Frames)
      BY <1>1, <2>1
    <3>3. Append(wsUp[opened], Target) = wsUp[opened] \o <<Target>>
      BY <3>1, <3>2, FrameTypes
    <3>4. \A i \in DOMAIN <<Target>> : <<Target>>[i] # Close
      BY FrameTypes
    <3>5. QED
      BY <3>3, <3>4
  <2> DEFINE frames == <<Target>>
  <2>3. /\ frames \in Seq(Frames) /\ \A i \in DOMAIN frames : frames[i] # Close
        /\ wsUp' = [wsUp EXCEPT ![opened] = @ \o frames]
    <3>1. frames \in Seq(Frames) /\ \A i \in DOMAIN frames : frames[i] # Close
      BY <2>2, FrameTypes
    <3>2. wsUp' = [wsUp EXCEPT ![opened] = @ \o frames]
      BY <2>1, <2>2, Zenon
    <3>3. QED
      BY <3>1, <3>2
  <2> HIDE DEF frames
  <2>4. \A d \in Conns \ {opened} : inst'[d] = inst[d]
    BY <2>1
  <2>5. ASSUME NEW c \in Conns, c = opened
        PROVE  Parting'
    <3>1. /\ inst[c] = "OPEN" /\ wsUp' = [wsUp EXCEPT ![c] = @ \o frames]
          /\ \A d \in Conns \ {c} : inst'[d] = inst[d]
      BY <2>1, <2>3, <2>4, <2>5
    <3>2. \A i \in DOMAIN frames : frames[i] = Close =>
                                   i = Len(frames) /\ inst'[c] \in {"closed", "lost"}
      BY <2>3
    <3>3. QED
      BY <2>1, <2>3, <3>1, <3>2, SendParting
  <2>6. QED
    BY <2>1, <2>5
<1>5. CASE Hello
  <2> DEFINE frames == IF caller = "handler" THEN <<Binary(sock, 1)>> ELSE <<>>
  <2>1. sock \in Nat
    BY <1>5 DEF Hello, Base, Current, Conns
  <2>2. frames \in Seq(Frames) /\ \A i \in DOMAIN frames : frames[i] # Close
    <3>1. CASE caller = "handler"
      BY <1>2, <2>1, <3>1
    <3>2. CASE caller # "handler"
      BY <1>2, <3>2
    <3>3. QED
      BY <3>1, <3>2
  <2>3. SendUp(frames) /\ UNCHANGED <<inst, session, wsBroken, serverClosed>>
    BY <1>5 DEF Hello, InitReturns
  <2> HIDE DEF frames
  <2>4. QED
    BY <2>2, <2>3, SendUpParting
<1>6. CASE Write
  <2> DEFINE frames == <<Binary(keys, tx + 1)>>
  <2>1. frames \in Seq(Frames) /\ \A i \in DOMAIN frames : frames[i] # Close
    BY <1>1, <1>2
  <2>2. SendUp(frames) /\ UNCHANGED <<inst, session, wsBroken, serverClosed>>
    BY <1>6 DEF Write, instVars
  <2> HIDE DEF frames
  <2>3. QED
    BY <2>1, <2>2, SendUpParting
<1>7. CASE Logout
  <2> DEFINE frames == <<Binary(keys, tx + 1)>>
  <2>1. frames \in Seq(Frames) /\ \A i \in DOMAIN frames : frames[i] # Close
    BY <1>1, <1>2
  <2>2. CloseSocket(frames) /\ UNCHANGED <<session, wsBroken, serverClosed>>
    BY <1>7 DEF Logout
  <2> HIDE DEF frames
  <2>3. QED
    BY <2>1, <2>2, CloseParting
<1>8. CASE InvalidLength \/ ForwardReconnect
  <2>1. CloseSocket(<<>>) /\ UNCHANGED <<session, wsBroken, serverClosed>>
    BY <1>8 DEF InvalidLength, ForwardReconnect
  <2>2. QED
    BY <1>2, <2>1, CloseParting
<1>9. ASSUME NEW c \in Conns, Callback(c)
      PROVE  Parting'
  <2>1. UNCHANGED <<wsUp, wsBroken, serverClosed>>
    BY <1>9 DEF Callback, OnOpen, OnMessage, OnClose, Accept, proxyVars
  <2>2. \A d \in Conns : /\ inst[d] \in {"closed", "lost"} => inst'[d] \in {"closed", "lost"}
                         /\ session'[d] = "closing" => session[d] = "closing"
    BY <1>1, <1>9 DEF Callback, OnOpen, OnMessage, OnClose, Accept, Remove, proxyVars
  <2>3. QED
    BY <2>1, <2>2, QuietParting
<1>10. ASSUME NEW c \in Conns, PageCloses(c)
       PROVE  Parting'
  <2>1. /\ inst[c] = "OPEN" /\ inst'[c] = "closed" /\ \A d \in Conns \ {c} : inst'[d] = inst[d]
        /\ UNCHANGED <<session, wsBroken, serverClosed>>
    BY <1>1, <1>10 DEF PageCloses, Remove
  <2>2. CASE session[c] = "closed"
    <3>1. wsUp' = wsUp
      BY <1>10, <2>2 DEF PageCloses
    <3>2. \A d \in Conns : inst[d] \in {"closed", "lost"} => inst'[d] \in {"closed", "lost"}
      BY <2>1
    <3>3. QED
      BY <2>1, <3>1, <3>2, QuietParting
  <2>3. CASE session[c] # "closed"
    <3>1. wsUp' = [wsUp EXCEPT ![c] = Append(@, Close)]
      BY <1>10, <2>3 DEF PageCloses
    <3>2. <<Close>> \in Seq(Frames) /\ Append(wsUp[c], Close) = wsUp[c] \o <<Close>>
      BY <1>1, FrameTypes
    <3>3. wsUp' = [wsUp EXCEPT ![c] = @ \o <<Close>>]
      BY <3>1, <3>2
    <3>4. \A i \in DOMAIN <<Close>> : i = Len(<<Close>>)
      OBVIOUS
    <3>5. QED
      BY <2>1, <3>2, <3>3, <3>4, SendParting
  <2>4. QED
    BY <2>2, <2>3
<1>11. QED
  BY <1>3, <1>4, <1>5, <1>6, <1>7, <1>8, <1>9, <1>10 DEF ThreadStep

\* The last words of a connection that the client closes reach the server before
\* the proxy shuts it down, unless the path broke or the server had closed.
THEOREM LastWordsHeard == Spec => []GoodbyeIsHeard
<1>1. Init => Parting
  BY DEF Init, ProxyInit, Parting
<1>2. Parting /\ Base /\ [Next]_vars => Parting'
  <2> SUFFICES ASSUME Parting, Base, [Next]_vars
               PROVE  Parting'
    OBVIOUS
  <2>1. ASSUME NEW c \in Conns, ProxyStep(c) \/ External(c),
               UNCHANGED <<instVars, sessionVars, historyVars>>
        PROVE  Parting'
    BY <2>1, ProxyParting
  <2>2. CASE UNCHANGED vars
    BY <2>2, QuietParting DEF vars, proxyVars, instVars
  <2>3. QED
    BY <2>1, <2>2, ClientParting DEF Next
<1>3. Parting => GoodbyeIsHeard
  BY FrameTypes DEF Parting, GoodbyeIsHeard
<1>4. QED
  BY <1>1, <1>2, <1>3, BaseHolds, PTL DEF Spec

-----------------------------------------------------------------------------
(* What the server reads *)

\* The target address is on the wire, or will be, until the proxy has dialled.
Off(c) == IF session[c] \in {"none", "waiting"} THEN 1 ELSE 0

\* Packets the client has written on c, as far as they are heard or on the wire.
Total(c) == Len(heard[c]) + Len(wsUp[c]) - Off(c)

HeardInOrder(c) == \A i \in DOMAIN heard[c] : heard[c][i] = Binary(c, i)

\* What is on the wire continues what the server has read.
Continues(c) ==
  ~serverClosed[c] => \A i \in DOMAIN wsUp[c] :
    wsUp[c][i].type = "binary" => wsUp[c][i] = Binary(c, Len(heard[c]) + i - Off(c))

\* Nothing was written on a socket before it is open.
Begun(c) == c < opened \/ (c = opened /\ pc \notin {"start", "connecting"})

Fresh(c) ==
  ~Begun(c) => wsUp[c] = <<>> /\ heard[c] = <<>> /\ session[c] \in {"none", "waiting", "closed"}

\* The server will have read as many packets as the client has encrypted.
Writing == pc = "hello" \/ (connected /\ pc \in {"tick", "process"})

Expected == IF pc = "hello" THEN 0 ELSE tx

Counted(c) ==
  Writing /\ c = sock /\ inst[c] = "OPEN" /\ session[c] # "closed" /\ ~serverClosed[c]
    => Total(c) = Expected

Understood == \A c \in Conns : HeardInOrder(c) /\ Continues(c) /\ Fresh(c) /\ Counted(c)

\* The proxy hands over what is next.
LEMMA ProxyUnderstood ==
  ASSUME Base, Understood, NEW c \in Conns, ProxyStep(c) \/ External(c),
         UNCHANGED <<instVars, sessionVars>>
  PROVE  Understood'
<1>1. /\ session \in [Conns -> {"none", "waiting", "bridging", "sending", "closing", "closed"}]
      /\ wsUp \in [Conns -> Seq(Frames)] /\ heard \in [Conns -> Seq(Frames)]
      /\ serverClosed \in [Conns -> BOOLEAN]
  BY DEF Base, SessionTypes, WireTypes
<1>2. \A d \in Conns \ {c} : /\ session'[d] = session[d] /\ wsUp'[d] = wsUp[d]
                             /\ heard'[d] = heard[d] /\ serverClosed'[d] = serverClosed[d]
  BY <1>1 DEF ProxyStep, External, Dial, LeaveEarly, Downstream, DownstreamEnds, Upstream,
     SendFails, UpstreamEnds, LivenessTick, Teardown, EndSession, StreamError, ServerWrites,
     ServerCloses, PathBreaks
<1>3. UNCHANGED <<opened, inst, sock, connected, pc, tx>>
  BY DEF instVars, sessionVars
<1>4. ASSUME NEW d \in Conns \ {c}
      PROVE  (HeardInOrder(d) /\ Continues(d) /\ Fresh(d) /\ Counted(d))'
  <2>1. HeardInOrder(d) /\ Continues(d) /\ Fresh(d) /\ Counted(d)
    BY DEF Understood
  <2>2. /\ session'[d] = session[d] /\ wsUp'[d] = wsUp[d]
        /\ heard'[d] = heard[d] /\ serverClosed'[d] = serverClosed[d]
    BY <1>2
  <2>3. Off(d)' = Off(d)
    BY <2>2 DEF Off
  <2>4. Total(d)' = Total(d)
    BY <2>2, <2>3 DEF Total
  <2>5. HeardInOrder(d)' /\ Continues(d)'
    BY <2>1, <2>2, <2>3 DEF HeardInOrder, Continues
  <2>6. Fresh(d)'
    BY <1>3, <2>1, <2>2 DEF Fresh, Begun
  <2>7. Counted(d)'
    BY <1>3, <2>1, <2>2, <2>4 DEF Counted, Writing, Expected
  <2>8. QED
    BY <2>5, <2>6, <2>7
<1>5. SUFFICES (HeardInOrder(c) /\ Continues(c) /\ Fresh(c) /\ Counted(c))'
  BY <1>4 DEF Understood
<1>6. HeardInOrder(c) /\ Continues(c) /\ Fresh(c) /\ Counted(c)
  BY DEF Understood
<1>7. /\ wsUp[c] \in Seq(Frames) /\ heard[c] \in Seq(Frames)
      /\ Len(wsUp[c]) \in Nat /\ Len(heard[c]) \in Nat
  BY <1>1
<1>8. wsUp[c] # <<>> => Begun(c)
  BY <1>6 DEF Fresh
<1>9. ASSUME EndSession(c), UNCHANGED <<heard, serverClosed>>
      PROVE  (HeardInOrder(c) /\ Continues(c) /\ Fresh(c) /\ Counted(c))'
  <2>1. wsUp'[c] = <<>> /\ session'[c] = "closed"
    BY <1>1, <1>9 DEF EndSession
  <2>2. QED
    BY <1>3, <1>6, <1>9, <2>1 DEF HeardInOrder, Continues, Fresh, Counted, Begun
<1>10. CASE LeaveEarly(c) \/ SendFails(c) \/ LivenessTick(c) \/ Teardown(c)
  BY <1>9, <1>10 DEF LeaveEarly, SendFails, LivenessTick, Teardown
<1>11. ASSUME wsUp[c] # <<>>
       PROVE  /\ Tail(wsUp[c]) \in Seq(Frames) /\ Len(Tail(wsUp[c])) = Len(wsUp[c]) - 1
              /\ DOMAIN Tail(wsUp[c]) = 1 .. Len(wsUp[c]) - 1
              /\ \A i \in 1 .. Len(wsUp[c]) - 1 : /\ Tail(wsUp[c])[i] = wsUp[c][i + 1]
                                                 /\ i + 1 \in DOMAIN wsUp[c]
              /\ Head(wsUp[c]) = wsUp[c][1] /\ 1 \in DOMAIN wsUp[c]
  BY <1>7, <1>11
<1>12. CASE Dial(c) /\ session'[c] = "bridging"
  <2>1. /\ wsUp[c] # <<>> /\ wsUp'[c] = Tail(wsUp[c]) /\ session[c] = "waiting"
        /\ UNCHANGED <<heard, serverClosed>>
    BY <1>1, <1>12 DEF Dial, Reads, EndSession
  <2>2. Off(c) = 1 /\ Off(c)' = 0
    BY <1>12, <2>1 DEF Off
  <2>3. Fresh(c)' /\ HeardInOrder(c)'
    BY <1>3, <1>6, <1>8, <2>1 DEF Fresh, Begun, HeardInOrder
  <2>4. Continues(c)'
    BY <1>6, <1>7, <1>11, <2>1, <2>2 DEF Continues
  <2>5. Total(c)' = Total(c)
    <3>1. Total(c) = Len(heard[c]) + Len(wsUp[c]) - 1
      BY <2>2 DEF Total
    <3>2. Total(c)' = Len(heard'[c]) + Len(wsUp'[c]) - 0
      BY <2>2 DEF Total
    <3>3. Len(wsUp'[c]) = Len(wsUp[c]) - 1 /\ Len(heard'[c]) = Len(heard[c])
      BY <1>11, <2>1
    <3>4. QED
      BY <1>7, <3>1, <3>2, <3>3
  <2>6. Counted(c)'
    BY <1>3, <1>6, <2>1, <2>5 DEF Counted, Writing, Expected
  <2>7. QED
    BY <2>3, <2>4, <2>6
<1>13. CASE Dial(c)
  BY <1>1, <1>9, <1>12, <1>13 DEF Dial
<1>14. CASE Downstream(c)
  <2>1. /\ wsUp[c] # <<>> /\ wsUp'[c] = Tail(wsUp[c]) /\ session[c] = "bridging"
        /\ Head(wsUp[c]).type = "binary" /\ session'[c] \in {"bridging", "closing"}
        /\ serverClosed' = serverClosed
    BY <1>1, <1>14 DEF Downstream, Reads
  <2>2. Off(c) = 0 /\ Off(c)' = 0
    BY <2>1 DEF Off
  <2>3. Fresh(c)'
    BY <1>3, <1>8, <2>1 DEF Fresh, Begun
  <2>4. CASE serverClosed[c]
    <3>1. heard' = heard
      BY <1>14, <2>4 DEF Downstream
    <3>2. QED
      BY <1>6, <2>1, <2>3, <2>4, <3>1 DEF HeardInOrder, Continues, Counted
  <2>5. CASE ~serverClosed[c]
    <3>1. heard'[c] = Append(heard[c], Head(wsUp[c]))
      BY <1>1, <1>14, <2>5 DEF Downstream
    <3>2. Head(wsUp[c]) = Binary(c, Len(heard[c]) + 1)
      BY <1>6, <1>7, <1>11, <2>1, <2>2, <2>5 DEF Continues
    <3>3. /\ Len(heard'[c]) = Len(heard[c]) + 1 /\ DOMAIN heard'[c] = 1 .. Len(heard[c]) + 1
          /\ heard'[c][Len(heard[c]) + 1] = Binary(c, Len(heard[c]) + 1)
          /\ \A i \in 1 .. Len(heard[c]) : heard'[c][i] = heard[c][i] /\ i \in DOMAIN heard[c]
      <4>1. Head(wsUp[c]) \in Frames
        BY <1>7, <2>1
      <4>2. QED
        BY <1>7, <3>1, <3>2, <4>1
    <3>4. HeardInOrder(c)'
      BY <1>6, <1>7, <3>3 DEF HeardInOrder
    <3>5. Continues(c)'
      BY <1>6, <1>7, <1>11, <2>1, <2>2, <2>5, <3>3 DEF Continues
    <3>6. Total(c)' = Total(c)
      <4>1. Total(c) = Len(heard[c]) + Len(wsUp[c]) - 0
        BY <2>2 DEF Total
      <4>2. Total(c)' = Len(heard'[c]) + Len(wsUp'[c]) - 0
        BY <2>2 DEF Total
      <4>3. Len(wsUp'[c]) = Len(wsUp[c]) - 1
        BY <1>11, <2>1
      <4>4. Len(heard'[c]) = Len(heard[c]) + 1
        BY <3>3
      <4>5. \A a, b \in Nat : (a + 1) + (b - 1) - 0 = a + b - 0
        OBVIOUS
      <4>6. Total(c)' = (Len(heard[c]) + 1) + (Len(wsUp[c]) - 1) - 0
        BY <4>2, <4>3, <4>4, Zenon
      <4>7. QED
        BY <1>7, <4>1, <4>5, <4>6
    <3>7. Counted(c)'
      BY <1>3, <1>6, <2>1, <3>6 DEF Counted, Writing, Expected
    <3>8. QED
      BY <2>3, <3>4, <3>5, <3>7
  <2>6. QED
    BY <2>4, <2>5
<1>15. ASSUME UNCHANGED <<wsUp, heard>>, serverClosed'[c] \/ ~serverClosed[c],
              \/ session'[c] = session[c]
              \/ /\ session[c] \in {"bridging", "sending", "closing"}
                 /\ session'[c] \in {"bridging", "sending", "closing"}
       PROVE  (HeardInOrder(c) /\ Continues(c) /\ Fresh(c) /\ Counted(c))'
  <2>1. Off(c)' = Off(c) /\ Total(c)' = Total(c)
    BY <1>15 DEF Off, Total
  <2>2. Counted(c)'
    BY <1>3, <1>6, <1>15, <2>1 DEF Counted, Writing, Expected
  <2>3. QED
    BY <1>3, <1>6, <1>15, <2>1, <2>2 DEF HeardInOrder, Continues, Fresh, Begun
<1>16. CASE \/ DownstreamEnds(c) \/ Upstream(c) \/ UpstreamEnds(c)
            \/ ServerWrites(c) \/ ServerCloses(c) \/ PathBreaks(c)
  BY <1>1, <1>15, <1>16 DEF DownstreamEnds, Upstream, UpstreamEnds, ServerWrites,
     ServerCloses, PathBreaks
<1>17. CASE StreamError(c)
  BY <1>1, <1>9, <1>15, <1>17 DEF StreamError
<1>18. QED
  BY <1>10, <1>13, <1>14, <1>16, <1>17 DEF ProxyStep, External

\* Frames that the client appends continue what it has written.
LEMMA SendContinues ==
  ASSUME Base, NEW c \in Conns, Continues(c), NEW frames \in Seq(Frames),
         wsUp'[c] = wsUp[c] \o frames, UNCHANGED <<heard, session, serverClosed>>,
         ~serverClosed[c] => \A i \in DOMAIN frames :
           frames[i].type = "binary" => frames[i] = Binary(c, Total(c) + i)
  PROVE  Continues(c)' /\ Total(c)' = Total(c) + Len(frames)
<1>1. /\ wsUp[c] \in Seq(Frames) /\ heard[c] \in Seq(Frames)
      /\ Len(wsUp[c]) \in Nat /\ Len(heard[c]) \in Nat /\ Len(frames) \in Nat
  BY DEF Base, WireTypes
<1>2. Off(c)' = Off(c) /\ Off(c) \in {0, 1}
  BY DEF Off
<1>3. Total(c) = Len(heard[c]) + Len(wsUp[c]) - Off(c)
  BY DEF Total
<1>4. /\ Len(wsUp'[c]) = Len(wsUp[c]) + Len(frames)
      /\ DOMAIN wsUp'[c] = 1 .. Len(wsUp[c]) + Len(frames)
      /\ \A i \in 1 .. Len(wsUp[c]) : wsUp'[c][i] = wsUp[c][i]
      /\ \A i \in 1 .. Len(frames) : wsUp'[c][Len(wsUp[c]) + i] = frames[i]
      /\ DOMAIN frames = 1 .. Len(frames) /\ DOMAIN wsUp[c] = 1 .. Len(wsUp[c])
  BY <1>1
<1>5. Total(c)' = Total(c) + Len(frames)
  <2>1. Total(c)' = Len(heard[c]) + Len(wsUp'[c]) - Off(c)
    BY <1>2 DEF Total
  <2>2. Len(wsUp'[c]) = Len(wsUp[c]) + Len(frames)
    BY <1>4
  <2>3. \A a, b, m \in Nat : \A o \in {0, 1} : a + (b + m) - o = (a + b - o) + m
    OBVIOUS
  <2>4. Total(c)' = Len(heard[c]) + (Len(wsUp[c]) + Len(frames)) - Off(c)
    BY <2>1, <2>2, Zenon
  <2>5. Len(heard[c]) + (Len(wsUp[c]) + Len(frames)) - Off(c)
          = (Len(heard[c]) + Len(wsUp[c]) - Off(c)) + Len(frames)
    BY <1>1, <1>2, <2>3, ZenonT(60)
  <2>6. QED
    BY <1>3, <2>4, <2>5, Zenon
<1>6. ASSUME ~serverClosed[c], NEW i \in DOMAIN wsUp'[c], wsUp'[c][i].type = "binary"
      PROVE  wsUp'[c][i] = Binary(c, Len(heard[c]) + i - Off(c))
  <2>1. CASE i <= Len(wsUp[c])
    <3>1. i \in DOMAIN wsUp[c] /\ wsUp'[c][i] = wsUp[c][i]
      BY <1>1, <1>4, <1>6, <2>1
    <3>2. QED
      BY <1>6, <3>1 DEF Continues
  <2>2. CASE Len(wsUp[c]) < i
    <3>1. PICK k \in 1 .. Len(frames) : i = Len(wsUp[c]) + k
      <4>1. i \in 1 .. Len(wsUp[c]) + Len(frames)
        BY <1>4, <1>6
      <4>2. i - Len(wsUp[c]) \in 1 .. Len(frames) /\ i = Len(wsUp[c]) + (i - Len(wsUp[c]))
        BY <1>1, <2>2, <4>1
      <4>3. QED
        BY <4>2
    <3>2. wsUp'[c][i] = frames[k] /\ k \in DOMAIN frames
      BY <1>4, <3>1
    <3>3. wsUp'[c][i] = Binary(c, Total(c) + k)
      BY <1>6, <3>2
    <3>4. Total(c) + k = Len(heard[c]) + i - Off(c)
      <4>1. \A a, b, m \in Nat : \A o \in {0, 1} : (a + b - o) + m = a + (b + m) - o
        OBVIOUS
      <4>2. k \in Nat /\ Total(c) + k = (Len(heard[c]) + Len(wsUp[c]) - Off(c)) + k
        BY <1>1, <1>3
      <4>3. QED
        BY <1>1, <1>2, <3>1, <4>1, <4>2
    <3>5. QED
      BY <3>3, <3>4
  <2>3. QED
    BY <1>1, <1>4, <1>6, <2>1, <2>2
<1>7. QED
  BY <1>2, <1>5, <1>6 DEF Continues

\* Nothing goes up on c, and the client does not start to write on it.
LEMMA QuietUnderstood ==
  ASSUME NEW c \in Conns, HeardInOrder(c), Continues(c), Fresh(c), Counted(c),
         heard'[c] = heard[c], wsUp'[c] = wsUp[c], serverClosed'[c] = serverClosed[c],
         session'[c] = session[c] \/ (session[c] = "none" /\ session'[c] = "waiting"),
         Begun(c) => Begun(c)',
         Writing' /\ c = sock' /\ inst'[c] = "OPEN" /\ session'[c] # "closed"
           => /\ Writing /\ c = sock /\ inst[c] = "OPEN" /\ session[c] # "closed"
              /\ Expected' = Expected
  PROVE  (HeardInOrder(c) /\ Continues(c) /\ Fresh(c) /\ Counted(c))'
<1>1. Off(c)' = Off(c)
  BY DEF Off
<1>2. Total(c)' = Total(c)
  BY <1>1 DEF Total
<1>3. HeardInOrder(c)' /\ Continues(c)'
  BY <1>1 DEF HeardInOrder, Continues
<1>4. Fresh(c)'
  BY DEF Fresh
<1>5. Counted(c)'
  BY <1>2 DEF Counted
<1>6. QED
  BY <1>3, <1>4, <1>5

\* Frames go up on the current socket.
LEMMA SendUnderstood ==
  ASSUME Base, Understood, NEW frames \in Seq(Frames), SendUp(frames), sock \in Conns,
         Begun(sock), \A c \in Conns : Begun(c) => Begun(c)',
         \A i \in DOMAIN frames :
           frames[i].type = "binary" => Writing /\ frames[i] = Binary(sock, Expected + i),
         UNCHANGED <<heard, session, serverClosed>>,
         \A c \in Conns : Writing' /\ c = sock' /\ inst'[c] = "OPEN" =>
           Writing /\ c = sock /\ inst[c] = "OPEN" /\ Expected' = Expected + Len(frames)
  PROVE  Understood'
<1>1. /\ wsUp \in [Conns -> Seq(Frames)] /\ Len(frames) \in Nat
  BY DEF Base, WireTypes
<1>2. ASSUME NEW c \in Conns
      PROVE  HeardInOrder(c) /\ Continues(c) /\ Fresh(c) /\ Counted(c)
  BY DEF Understood
<1>3. CASE Alive(sock) /\ session[sock] # "closed"
  <2>1. PICK s \in Conns : s = sock
    OBVIOUS
  <2>2. /\ wsUp'[s] = wsUp[s] \o frames /\ inst[s] = "OPEN" /\ session[s] # "closed"
        /\ \A c \in Conns \ {s} : wsUp'[c] = wsUp[c]
    BY <1>1, <1>3, <2>1 DEF SendUp, Alive
  <2>3. ASSUME NEW i \in DOMAIN frames, frames[i].type = "binary", ~serverClosed[s]
        PROVE  frames[i] = Binary(s, Total(s) + i)
    <3>1. Writing /\ frames[i] = Binary(s, Expected + i)
      BY <2>1, <2>3
    <3>2. Total(s) = Expected
      BY <1>2, <2>1, <2>2, <2>3, <3>1 DEF Counted
    <3>3. QED
      BY <3>1, <3>2
  <2>4. Continues(s)' /\ Total(s)' = Total(s) + Len(frames)
    BY <1>2, <2>2, <2>3, SendContinues
  <2>5. HeardInOrder(s)' /\ Fresh(s)'
    BY <1>2, <2>1 DEF HeardInOrder, Fresh
  <2>6. Counted(s)'
    <3>1. SUFFICES ASSUME Writing', s = sock', inst'[s] = "OPEN", ~serverClosed[s]
                   PROVE  Total(s)' = Expected'
      BY DEF Counted
    <3>2. Writing /\ Expected' = Expected + Len(frames)
      BY <3>1
    <3>3. Total(s) = Expected
      BY <1>2, <2>1, <2>2, <3>1, <3>2 DEF Counted
    <3>4. QED
      BY <2>4, <3>2, <3>3
  <2>7. ASSUME NEW c \in Conns \ {s}
        PROVE  (HeardInOrder(c) /\ Continues(c) /\ Fresh(c) /\ Counted(c))'
    <3>1. ~(Writing' /\ c = sock' /\ inst'[c] = "OPEN")
      BY <2>1, <2>7
    <3>2. HeardInOrder(c) /\ Continues(c) /\ Fresh(c) /\ Counted(c)
      BY <1>2
    <3>3. /\ heard'[c] = heard[c] /\ wsUp'[c] = wsUp[c] /\ serverClosed'[c] = serverClosed[c]
          /\ session'[c] = session[c] /\ (Begun(c) => Begun(c)')
      BY <2>2
    <3>4. session'[c] = session[c] \/ (session[c] = "none" /\ session'[c] = "waiting")
      BY <3>3
    <3>5. Writing' /\ c = sock' /\ inst'[c] = "OPEN" /\ session'[c] # "closed"
            => /\ Writing /\ c = sock /\ inst[c] = "OPEN" /\ session[c] # "closed"
               /\ Expected' = Expected
      BY <3>1
    <3>6. c \in Conns
      OBVIOUS
    <3>7. QED
      BY <3>2, <3>3, <3>4, <3>5, <3>6, QuietUnderstood, ZenonT(60)
  <2>8. QED
    BY <2>4, <2>5, <2>6, <2>7 DEF Understood
<1>4. CASE ~(Alive(sock) /\ session[sock] # "closed")
  <2>1. wsUp' = wsUp
    BY <1>4 DEF SendUp
  <2>2. ASSUME NEW c \in Conns
        PROVE  (HeardInOrder(c) /\ Continues(c) /\ Fresh(c) /\ Counted(c))'
    <3>1. ~(Writing' /\ c = sock' /\ inst'[c] = "OPEN" /\ session'[c] # "closed")
      BY <1>4 DEF Alive
    <3>2. HeardInOrder(c) /\ Continues(c) /\ Fresh(c) /\ Counted(c)
      BY <1>2
    <3>3. /\ heard'[c] = heard[c] /\ wsUp'[c] = wsUp[c] /\ serverClosed'[c] = serverClosed[c]
          /\ session'[c] = session[c] /\ (Begun(c) => Begun(c)')
      BY <2>1
    <3>4. session'[c] = session[c] \/ (session[c] = "none" /\ session'[c] = "waiting")
      BY <3>3
    <3>5. Writing' /\ c = sock' /\ inst'[c] = "OPEN" /\ session'[c] # "closed"
            => /\ Writing /\ c = sock /\ inst[c] = "OPEN" /\ session[c] # "closed"
               /\ Expected' = Expected
      BY <3>1
    <3>6. c \in Conns
      OBVIOUS
    <3>7. QED
      BY <3>2, <3>3, <3>4, <3>5, <3>6, QuietUnderstood, ZenonT(60)
  <2>3. QED
    BY <2>2 DEF Understood
<1>5. QED
  BY <1>3, <1>4

\* Nothing goes up at all.
LEMMA IdleUnderstood ==
  ASSUME Understood, UNCHANGED <<heard, wsUp, serverClosed>>,
         \A c \in Conns :
           session'[c] = session[c] \/ (session[c] = "none" /\ session'[c] = "waiting"),
         \A c \in Conns : Begun(c) => Begun(c)',
         \A c \in Conns : Writing' /\ c = sock' /\ inst'[c] = "OPEN"
           => Writing /\ c = sock /\ inst[c] = "OPEN" /\ Expected' = Expected
  PROVE  Understood'
<1>1. ASSUME NEW c \in Conns
      PROVE  (HeardInOrder(c) /\ Continues(c) /\ Fresh(c) /\ Counted(c))'
  <2>1. HeardInOrder(c) /\ Continues(c) /\ Fresh(c) /\ Counted(c)
    BY DEF Understood
  <2>2. heard'[c] = heard[c] /\ wsUp'[c] = wsUp[c] /\ serverClosed'[c] = serverClosed[c]
    OBVIOUS
  <2>3. session'[c] = session[c] \/ (session[c] = "none" /\ session'[c] = "waiting")
    OBVIOUS
  <2>4. Begun(c) => Begun(c)'
    OBVIOUS
  <2>5. Writing' /\ c = sock' /\ inst'[c] = "OPEN" /\ session'[c] # "closed"
          => /\ Writing /\ c = sock /\ inst[c] = "OPEN" /\ session[c] # "closed"
             /\ Expected' = Expected
    BY <2>3
  <2>6. QED
    BY <2>1, <2>2, <2>3, <2>4, <2>5, QuietUnderstood, Zenon
<1>2. QED
  BY <1>1 DEF Understood

\* The client closes its current socket, and does not write on.
LEMMA CloseUnderstood ==
  ASSUME Base, Understood, NEW frames \in Seq(Frames), CloseSocket(frames), connected,
         pc \in {"tick", "process"}, frames = <<>> \/ frames = <<Binary(keys, tx + 1)>>,
         opened' = opened \/ opened' = opened + 1, pc' \in {"tick", "connecting"},
         opened' = opened => pc' = "tick",
         ~Writing', UNCHANGED <<heard, session, serverClosed>>
  PROVE  Understood'
<1> DEFINE words == Append(frames, Close)
<1>1. words \in Seq(Frames) /\ SendUp(words)
  BY FrameTypes DEF CloseSocket
<1>2. sock \in Conns /\ sock = opened /\ keys = sock /\ opened \in Nat /\ tx \in Nat
  BY DEF Base, Current, FramingTypes, NumberTypes, Conns
<1>3. Begun(sock) /\ \A c \in Conns : Begun(c) => Begun(c)'
  BY <1>2 DEF Begun, Conns
<1>4. Writing /\ Expected = tx
  BY DEF Writing, Expected
<1>5. ASSUME NEW i \in DOMAIN words, words[i].type = "binary"
      PROVE  Writing /\ words[i] = Binary(sock, Expected + i)
  <2>1. CASE frames = <<>>
    <3>1. words[i] = Close
      BY <1>5, <2>1
    <3>2. QED
      BY <1>5, <3>1 DEF Close
  <2>2. CASE frames = <<Binary(keys, tx + 1)>>
    <3>1. i \in {1, 2} /\ words[1] = Binary(keys, tx + 1) /\ words[2] = Close
      BY <1>5, <2>2
    <3>2. i = 1
      BY <1>5, <3>1 DEF Close
    <3>3. words[i] = Binary(sock, Expected + i)
      BY <1>2, <1>4, <3>1, <3>2
    <3>4. QED
      BY <1>4, <3>3
  <2>3. QED
    BY <2>1, <2>2
<1> HIDE DEF words
<1>6. QED
  BY <1>1, <1>2, <1>3, <1>5, SendUnderstood

\* The socket is open: the target address goes up first.
LEMMA ConnectedUnderstood ==
  ASSUME Base, Understood, Connected
  PROVE  Understood'
<1>1. PICK s \in Conns : s = opened
  BY DEF Connected, Base, Current
<1>2. /\ wsUp \in [Conns -> Seq(Frames)] /\ Target \in Frames /\ opened \in Nat
      /\ session \in [Conns -> {"none", "waiting", "bridging", "sending", "closing", "closed"}]
  BY <1>1, FrameTypes DEF Base, WireTypes, Conns, SessionTypes
<1>3. /\ pc = "connecting" /\ pc' = "hello" /\ sock' = s /\ inst[s] = "OPEN"
      /\ wsUp' = [wsUp EXCEPT ![s] = Append(@, Target)]
      /\ UNCHANGED <<session, heard, serverClosed, opened, inst>>
  BY <1>1 DEF Connected, instVars
<1>4. /\ wsUp'[s] = Append(wsUp[s], Target)
      /\ \A c \in Conns \ {s} : wsUp'[c] = wsUp[c]
  BY <1>2, <1>3
<1>5. \A c \in Conns : HeardInOrder(c) /\ Continues(c) /\ Fresh(c) /\ Counted(c)
  BY DEF Understood
<1>6. ~Begun(s)
  BY <1>1, <1>2, <1>3 DEF Begun
<1>7. wsUp[s] = <<>> /\ heard[s] = <<>> /\ session[s] \in {"none", "waiting", "closed"}
  BY <1>5, <1>6 DEF Fresh
<1>8. wsUp'[s] = <<Target>>
  BY <1>4, <1>7
<1>9. HeardInOrder(s)'
  BY <1>3, <1>7 DEF HeardInOrder
<1>10. Continues(s)'
  <2>1. wsUp'[s][1] = Target /\ DOMAIN wsUp'[s] = {1}
    BY <1>8
  <2>2. \A i \in DOMAIN wsUp'[s] : wsUp'[s][i].type # "binary"
    BY <2>1 DEF Target
  <2>3. QED
    BY <2>2 DEF Continues
<1>11. Fresh(s)'
  BY <1>1, <1>3 DEF Fresh, Begun
<1>12. Counted(s)'
  <2>1. CASE session[s] = "closed"
    BY <1>3, <2>1 DEF Counted
  <2>2. CASE session[s] \in {"none", "waiting"}
    <3>1. Off(s)' = 1
      BY <1>3, <2>2 DEF Off
    <3>2. Len(heard'[s]) = 0 /\ Len(wsUp'[s]) = 1
      BY <1>3, <1>7, <1>8
    <3>3. Total(s)' = 0
      BY <3>1, <3>2 DEF Total
    <3>4. Expected' = 0
      BY <1>3 DEF Expected
    <3>5. QED
      BY <3>3, <3>4 DEF Counted
  <2>3. QED
    BY <1>7, <2>1, <2>2
<1>13. ASSUME NEW c \in Conns \ {s}
       PROVE  (HeardInOrder(c) /\ Continues(c) /\ Fresh(c) /\ Counted(c))'
  <2>1. HeardInOrder(c) /\ Continues(c) /\ Fresh(c) /\ Counted(c)
    BY <1>5
  <2>2. heard'[c] = heard[c] /\ wsUp'[c] = wsUp[c] /\ serverClosed'[c] = serverClosed[c]
    BY <1>3, <1>4
  <2>3. session'[c] = session[c] \/ (session[c] = "none" /\ session'[c] = "waiting")
    BY <1>3
  <2>4. Begun(c) => Begun(c)'
    BY <1>1, <1>3 DEF Begun
  <2>5. Writing' /\ c = sock' /\ inst'[c] = "OPEN" /\ session'[c] # "closed"
          => /\ Writing /\ c = sock /\ inst[c] = "OPEN" /\ session[c] # "closed"
             /\ Expected' = Expected
    BY <1>3
  <2>6. c \in Conns
    OBVIOUS
  <2>7. QED
    BY <2>1, <2>2, <2>3, <2>4, <2>5, <2>6, QuietUnderstood, Zenon
<1>14. QED
  BY <1>9, <1>10, <1>11, <1>12, <1>13 DEF Understood

\* The page closes its socket: a close frame goes up, and the client is gone.
LEMMA PageUnderstood ==
  ASSUME Base, Understood, NEW c \in Conns, PageCloses(c)
  PROVE  Understood'
<1>1. /\ inst[c] = "OPEN" /\ pc' = "stopped"
      /\ UNCHANGED <<session, heard, serverClosed, opened>>
      /\ wsUp \in [Conns -> Seq(Frames)] /\ opened \in Nat
  BY StartFacts DEF PageCloses, Base, WireTypes, SocketTypes
<1>2. ~Writing'
  BY <1>1 DEF Writing
<1>3. \A d \in Conns : HeardInOrder(d) /\ Continues(d) /\ Fresh(d) /\ Counted(d)
  BY DEF Understood
<1>4. Begun(c)' /\ \A d \in Conns : Begun(d) => Begun(d)'
  BY <1>1 DEF Begun, Base, Sockets, Conns
<1>5. \A d \in Conns \ {c} : wsUp'[d] = wsUp[d]
  BY <1>1 DEF PageCloses
<1>6. HeardInOrder(c)' /\ Fresh(c)' /\ Counted(c)'
  BY <1>1, <1>2, <1>3, <1>4 DEF HeardInOrder, Fresh, Counted
<1>7. Continues(c)'
  <2>1. CASE session[c] = "closed"
    <3>1. wsUp' = wsUp
      BY <2>1 DEF PageCloses
    <3>2. QED
      BY <1>1, <1>3, <3>1 DEF Continues, Off
  <2>2. CASE session[c] # "closed"
    <3>1. wsUp'[c] = Append(wsUp[c], Close)
      BY <1>1, <2>2 DEF PageCloses
    <3>2. wsUp'[c] = wsUp[c] \o <<Close>> /\ <<Close>> \in Seq(Frames)
      <4>1. \A u \in Seq(Frames), f \in Frames : Append(u, f) = u \o <<f>> /\ <<f>> \in Seq(Frames)
        OBVIOUS
      <4>2. wsUp[c] \in Seq(Frames) /\ Close \in Frames
        BY <1>1, FrameTypes
      <4>3. QED
        BY <3>1, <4>1, <4>2, Zenon
    <3>3. \A i \in DOMAIN <<Close>> : <<Close>>[i].type # "binary"
      BY DEF Close
    <3>4. QED
      BY <1>1, <1>3, <3>2, <3>3, SendContinues
  <2>3. QED
    BY <2>1, <2>2
<1>8. ASSUME NEW d \in Conns \ {c}
      PROVE  (HeardInOrder(d) /\ Continues(d) /\ Fresh(d) /\ Counted(d))'
  <2>1. HeardInOrder(d) /\ Continues(d) /\ Fresh(d) /\ Counted(d)
    BY <1>3
  <2>2. heard'[d] = heard[d] /\ wsUp'[d] = wsUp[d] /\ serverClosed'[d] = serverClosed[d]
    BY <1>1, <1>5
  <2>3. session'[d] = session[d] \/ (session[d] = "none" /\ session'[d] = "waiting")
    BY <1>1
  <2>4. Begun(d) => Begun(d)'
    BY <1>4
  <2>5. Writing' /\ d = sock' /\ inst'[d] = "OPEN" /\ session'[d] # "closed"
          => /\ Writing /\ d = sock /\ inst[d] = "OPEN" /\ session[d] # "closed"
             /\ Expected' = Expected
    BY <1>2
  <2>6. d \in Conns
    OBVIOUS
  <2>7. QED
    BY <2>1, <2>2, <2>3, <2>4, <2>5, <2>6, QuietUnderstood, Zenon
<1>9. QED
  BY <1>6, <1>7, <1>8 DEF Understood

\* Steps of the client.
LEMMA ClientUnderstood ==
  ASSUME Base, Understood,
         \/ ThreadStep \/ ForwardReconnect \/ Write \/ Logout
         \/ \E c \in Conns : Callback(c) \/ PageCloses(c)
  PROVE  Understood'
<1>1. /\ inst \in [Conns -> {"CONNECTING", "OPEN", "closed", "lost"}]
      /\ session \in [Conns -> {"none", "waiting", "bridging", "sending", "closing", "closed"}]
      /\ keys \in Nat /\ tx \in Nat /\ opened \in Nat
  BY StartFacts DEF Base, SocketTypes, FramingTypes, NumberTypes, SessionTypes
<1>2. /\ <<>> \in Seq(Frames)
      /\ \A k, n \in Nat : <<Binary(k, n)>> \in Seq(Frames)
  BY FrameTypes
<1>3. CASE Boot \/ OpenFails \/ Stop \/ ReadFails
  <2>1. UNCHANGED <<heard, wsUp, serverClosed, session>> /\ ~Writing'
    BY <1>3 DEF Boot, NewSocket, OpenFails, InitReturns, Stop, ReadFails, proxyVars, instVars,
                Writing
  <2>2. \A c \in Conns : Begun(c) => Begun(c)'
    BY <1>1, <1>3 DEF Boot, NewSocket, OpenFails, InitReturns, Stop, ReadFails, instVars, Begun,
                      Conns
  <2>3. QED
    BY <2>1, <2>2, IdleUnderstood
<1>4. CASE Read \/ ProcessHeader \/ ProcessBody \/ ForwardPlain
  <2>1. /\ UNCHANGED <<heard, wsUp, serverClosed, session, opened, inst, sock, tx, connected>>
        /\ pc \in {"tick", "process"} /\ pc' \in {"tick", "process"}
    BY <1>4 DEF Read, ProcessHeader, ProcessBody, ForwardPlain, Forward, Walk, proxyVars, instVars
  <2>2. \A c \in Conns : Begun(c) => Begun(c)'
    BY <2>1 DEF Begun
  <2>3. (Writing' => Writing) /\ Expected' = Expected
    BY <2>1 DEF Writing, Expected
  <2>4. QED
    BY <2>1, <2>2, <2>3, IdleUnderstood
<1>5. CASE Connected
  BY <1>5, ConnectedUnderstood
<1>6. CASE Hello
  <2> DEFINE frames == IF caller = "handler" THEN <<Binary(sock, 1)>> ELSE <<>>
  <2>1. /\ sock \in Conns /\ sock \in Nat /\ sock = opened /\ inst[sock] = "OPEN" /\ pc = "hello"
    BY <1>6 DEF Hello, Base, Current, Conns
  <2>2. /\ frames \in Seq(Frames) /\ Len(frames) = tx' /\ tx' \in {0, 1}
        /\ \A i \in DOMAIN frames : i = 1 /\ frames[i] = Binary(sock, 1)
    <3>1. CASE caller = "handler"
      <4>1. tx' = 1
        BY <1>6, <3>1 DEF Hello
      <4>2. QED
        BY <1>2, <2>1, <3>1, <4>1
    <3>2. CASE caller # "handler"
      <4>1. tx' = 0
        BY <1>6, <3>2 DEF Hello
      <4>2. QED
        BY <1>2, <3>2, <4>1
    <3>3. QED
      BY <3>1, <3>2
  <2>3. /\ SendUp(frames) /\ UNCHANGED <<inst, sock, opened, heard, session, serverClosed>>
        /\ pc' = "tick"
    BY <1>6 DEF Hello, InitReturns
  <2> HIDE DEF frames
  <2>4. Writing /\ Expected = 0 /\ Expected' = Expected + Len(frames)
    <3>1. Writing /\ Expected = 0 /\ Expected' = tx'
      BY <2>1, <2>3 DEF Writing, Expected
    <3>2. tx' = 0 + Len(frames)
      <4>1. \A n \in {0, 1} : n = 0 + n
        OBVIOUS
      <4>2. Len(frames) = tx' /\ tx' \in {0, 1}
        BY <2>2
      <4>3. QED
        BY <4>1, <4>2, Zenon
    <3>3. QED
      BY <3>1, <3>2
  <2>5. Begun(sock) /\ \A c \in Conns : Begun(c) => Begun(c)'
    BY <2>1, <2>3 DEF Begun
  <2>6. \A i \in DOMAIN frames : frames[i].type = "binary" =>
          Writing /\ frames[i] = Binary(sock, Expected + i)
    BY <2>2, <2>4
  <2>7. QED
    BY <2>1, <2>2, <2>3, <2>4, <2>5, <2>6, SendUnderstood
<1>7. CASE Write
  <2> DEFINE frames == <<Binary(keys, tx + 1)>>
  <2>1. /\ sock \in Conns /\ sock = opened /\ keys = sock /\ tx' = tx + 1
        /\ connected /\ pc \in {"tick", "process"}
    BY <1>7 DEF Write, Base, Current
  <2>2. /\ frames \in Seq(Frames) /\ Len(frames) = 1
        /\ \A i \in DOMAIN frames : i = 1 /\ frames[i] = Binary(keys, tx + 1)
    BY <1>1, <1>2
  <2>3. /\ SendUp(frames)
        /\ UNCHANGED <<inst, sock, opened, heard, session, serverClosed, pc, connected>>
    BY <1>7 DEF Write, instVars
  <2> HIDE DEF frames
  <2>4. Writing /\ Expected = tx /\ Expected' = Expected + Len(frames)
    BY <2>1, <2>2, <2>3 DEF Writing, Expected
  <2>5. Begun(sock) /\ \A c \in Conns : Begun(c) => Begun(c)'
    BY <2>1, <2>3 DEF Begun
  <2>6. \A i \in DOMAIN frames : frames[i].type = "binary" =>
          Writing /\ frames[i] = Binary(sock, Expected + i)
    BY <2>1, <2>2, <2>4
  <2>7. QED
    BY <2>1, <2>2, <2>3, <2>4, <2>5, <2>6, SendUnderstood
<1>8. CASE Logout
  <2> DEFINE frames == <<Binary(keys, tx + 1)>>
  <2>1. frames \in Seq(Frames) /\ frames = <<Binary(keys, tx + 1)>>
    BY <1>1, <1>2
  <2>2. /\ CloseSocket(frames) /\ connected /\ pc = "tick" /\ pc' = "connecting"
        /\ opened' = opened + 1 /\ ~connected' /\ UNCHANGED <<heard, session, serverClosed>>
    BY <1>8 DEF Logout, NewSocket
  <2> HIDE DEF frames
  <2>3. ~Writing' /\ opened' # opened
    BY <1>1, <2>2 DEF Writing
  <2>4. QED
    BY <2>1, <2>2, <2>3, CloseUnderstood
<1>9. CASE InvalidLength
  <2>1. /\ CloseSocket(<<>>) /\ connected /\ pc = "process" /\ pc' = "tick"
        /\ opened' = opened /\ ~connected' /\ UNCHANGED <<heard, session, serverClosed>>
    BY <1>9 DEF InvalidLength, Base, Current
  <2>2. ~Writing'
    BY <2>1 DEF Writing
  <2>3. QED
    BY <1>2, <2>1, <2>2, CloseUnderstood
<1>10. CASE ForwardReconnect
  <2>1. /\ CloseSocket(<<>>) /\ connected /\ pc = "process" /\ pc' = "connecting"
        /\ opened' = opened + 1 /\ UNCHANGED <<heard, session, serverClosed>>
    BY <1>10 DEF ForwardReconnect, Forward, NewSocket, Base, Current
  <2>2. ~Writing' /\ opened' # opened
    BY <1>1, <2>1 DEF Writing
  <2>3. QED
    BY <1>2, <2>1, <2>2, CloseUnderstood
<1>11. ASSUME NEW c \in Conns, Callback(c)
       PROVE  Understood'
  <2>1. /\ UNCHANGED <<heard, wsUp, serverClosed, sock, tx, connected, pc, opened>>
        /\ \A d \in Conns :
             session'[d] = session[d] \/ (session[d] = "none" /\ session'[d] = "waiting")
    BY <1>1, <1>11 DEF Callback, OnOpen, OnMessage, OnClose, Accept, proxyVars, sessionVars
  <2>2. \A d \in Conns : Begun(d) => Begun(d)'
    BY <2>1 DEF Begun
  <2>3. Writing' = Writing /\ Expected' = Expected
    BY <2>1 DEF Writing, Expected
  <2>4. Writing => inst[sock] # "CONNECTING"
    BY DEF Writing, Base, Current
  <2>5. \A d \in Conns : inst'[d] = "OPEN" => inst[d] \in {"OPEN", "CONNECTING"}
    BY <1>1, <1>11 DEF Callback, OnOpen, OnMessage, OnClose, Remove
  <2>6. \A d \in Conns : Writing' /\ d = sock' /\ inst'[d] = "OPEN"
          => Writing /\ d = sock /\ inst[d] = "OPEN" /\ Expected' = Expected
    BY <2>1, <2>3, <2>4, <2>5
  <2>7. QED
    BY <2>1, <2>2, <2>6, IdleUnderstood
<1>12. QED
  BY <1>3, <1>4, <1>5, <1>6, <1>7, <1>8, <1>9, <1>10, <1>11, PageUnderstood DEF ThreadStep

\* What a server reads was encrypted with the keys of its own hello, from the
\* first packet on and without a gap.
THEOREM CipherInStep == Spec => []ServerUnderstands
<1>1. Init => Understood
  <2> SUFFICES ASSUME Init, NEW c \in Conns
               PROVE  HeardInOrder(c) /\ Continues(c) /\ Fresh(c) /\ Counted(c)
    BY DEF Understood
  <2>1. wsUp[c] = <<>> /\ heard[c] = <<>> /\ session[c] = "none" /\ ~Writing
    BY DEF Init, ProxyInit, Writing
  <2>2. QED
    BY <2>1 DEF HeardInOrder, Continues, Fresh, Counted
<1>2. Understood /\ Base /\ [Next]_vars => Understood'
  <2> SUFFICES ASSUME Understood, Base, [Next]_vars
               PROVE  Understood'
    OBVIOUS
  <2>1. ASSUME NEW c \in Conns, ProxyStep(c) \/ External(c),
               UNCHANGED <<instVars, sessionVars, historyVars>>
        PROVE  Understood'
    BY <2>1, ProxyUnderstood
  <2>2. CASE UNCHANGED vars
    <3>1. UNCHANGED <<heard, wsUp, serverClosed, session, sock, tx, connected, pc, opened, inst>>
      BY <2>2 DEF vars, proxyVars, instVars, sessionVars
    <3>2. /\ \A c \in Conns : Begun(c) => Begun(c)'
          /\ Writing' = Writing /\ Expected' = Expected
      BY <3>1 DEF Begun, Writing, Expected
    <3>3. QED
      BY <3>1, <3>2, IdleUnderstood
  <2>3. QED
    BY <2>1, <2>2, ClientUnderstood DEF Next
<1>3. Understood => ServerUnderstands
  BY DEF Understood, HeardInOrder, ServerUnderstands
<1>4. QED
  BY <1>1, <1>2, <1>3, BaseHolds, PTL DEF Spec

=============================================================================
