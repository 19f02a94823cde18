----------------------------- MODULE RingProofs -----------------------------
(***************************************************************************)
(* Type correctness of the ring and ElectionHasBothPeers, for every        *)
(* network size, any number of crashes and clients, with and without       *)
(* coalescing. Neither is inductive by itself: a thread blocked on a guest *)
(* must have one, and the second half of an IDLE pass may carry a state    *)
(* that the first half has already changed (Coherent, below).              *)
(*                                                                         *)
(* Then, what each step of the ring does to the streams, to the listeners  *)
(* and to the node that takes it. The parts of the inductive invariant of  *)
(* RingFormationProofs that speak of one node (NodeOK), of the packets in  *)
(* flight (StreamsTrue) and of the listeners (Listeners) are defined here. *)
(* The lemmas named ...Orderly show that a step keeps NodeOK of the node   *)
(* that takes it and does not move the others; ...Writes say what it       *)
(* appends to which stream; and ...Truthful, that StreamsTrue and          *)
(* Listeners hold afterwards.                                              *)
(***************************************************************************)
EXTENDS Ring, TLAPS

Links == [Dialer -> [Node -> Stream]]

\* What the fields of one node must look like together.  A thread in the second
\* half of an IDLE pass may carry a state its first half has already changed; a
\* thread in an accept branch has a guest; the forward stream is dialled once and
\* for all while CONNECTING; election states have both peers.
Coherent(st, p, f, b, g) ==
    /\ p \in {"poll", "receive"} => st \in {"IDLE", "WAITING_NEW_PEER", "BEGIN_OPERATION"}
    /\ p = "identify" => st \in {"IDLE", "WAITING_NEW_PEER", "BEGIN_OPERATION",
                                 "INDEX_WAITING_PEERS_KNOWLEDGE"}
    /\ p = "session" => st = "INDEX_WAITING_PEERS_KNOWLEDGE"
    /\ p \in {"identify", "session", "receive"} => g # None
    /\ st \notin {"BOOTING", "CONNECTING"} => f # None
    /\ st \in ElectionStates => b # None

\* The inductive invariant.
IInv ==
    /\ TypeOK
    /\ \A n \in Node : Coherent(state[n], pc[n], peer_f[n], peer_b[n], guest[n])

-----------------------------------------------------------------------------
(* Constants and packets *)

LEMMA IdFacts ==
    /\ N \in Nat \ {0, 1} /\ MaxClients \in Nat /\ WORD \in Nat /\ WORD > N
    /\ Node \subseteq Dialer /\ Client \subseteq Dialer /\ Reporter \subseteq Dialer
    /\ None \notin Dialer /\ None \notin Node /\ None \notin Client
    /\ \A n \in Node : ReportOf(n) \in Reporter /\ Succ(n) \in Node /\ Pred(n) \in Node
    /\ \A a \in Reporter : NodeOf(a) \in Node
  <1>1. N \in Nat \ {0, 1} /\ MaxClients \in Nat /\ WORD \in Nat /\ WORD > N
    BY RingConstants
  <1>2. \A n \in Node : Succ(n) \in Node /\ Pred(n) \in Node
    BY <1>1 DEF Node, Succ, Pred
  <1> QED BY <1>1, <1>2 DEF Node, Client, Reporter, Dialer, None, ReportOf, NodeOf

LEMMA MinusType ==
    ASSUME NEW x \in Int, NEW k \in Int
    PROVE  Minus(x, k) \in 0 .. WORD - 1
  BY IdFacts DEF Minus

LEMMA PacketTypes ==
    /\ \A i \in Node : Gossip(i) \in Packet
    /\ \A d, w \in Node : Died(d, w) \in Packet
    /\ \A t \in {"PRESENT_ITSELF", "REPORT_SELF", "OK", "REQUEST"} : Simple(t) \in Packet
  BY DEF Gossip, Died, Simple, Packet

LEMMA PacketFields ==
    ASSUME NEW p \in Packet
    PROVE  /\ p.type = "GOSSIP" => p.index_id \in Node
           /\ p.type = "PEER_DIED" => p.peer_id \in Node /\ p.widow \in Node
  BY DEF Packet

LEMMA SeqTypes ==
    ASSUME NEW S, NEW s \in Seq(S)
    PROVE  /\ s # <<>> => Head(s) \in S /\ Tail(s) \in Seq(S)
           /\ \A e \in S : Append(s, e) \in Seq(S) /\ <<e>> \in Seq(S)
           /\ \A t \in Seq(S) : s \o t \in Seq(S)
           /\ <<>> \in Seq(S)
  OBVIOUS

LEMMA EmptySeq == \A S : <<>> \in Seq(S)
  OBVIOUS

-----------------------------------------------------------------------------
(* Streams *)

LEMMA StreamTypes ==
    /\ NoLink \in Stream
    /\ \A q \in Seq(Packet) : Opened(q) \in Stream
    /\ \A l \in Stream, u \in BOOLEAN : Closed(l, u) \in Stream
  BY SeqTypes DEF NoLink, Opened, Closed, Stream

LEMMA LinkUpdate ==
    ASSUME NEW L \in Links, NEW a, NEW b, NEW e,
           a \in Dialer /\ b \in Node => e \in Stream
    PROVE  [L EXCEPT ![a][b] = e] \in Links
  BY DEF Links

LEMMA SentType ==
    ASSUME NEW L \in Links, NEW a, NEW b, NEW pkts \in Seq(Packet)
    PROVE  Sent(L, a, b, pkts) \in Links
  <1> DEFINE e == IF L[a][b].st = "up" THEN Opened(L[a][b].q \o pkts)
                                      ELSE [st |-> "broken", q |-> <<>>]
  <1>1. a \in Dialer /\ b \in Node => e \in Stream
    <2> SUFFICES ASSUME a \in Dialer, b \in Node PROVE e \in Stream
      OBVIOUS
    <2>1. L[a][b] \in Stream
      BY DEF Links
    <2>2. L[a][b].q \in Seq(Packet)
      BY <2>1 DEF Stream
    <2>3. L[a][b].q \o pkts \in Seq(Packet)
      BY <2>2, SeqTypes
    <2> QED BY <2>3, StreamTypes, SeqTypes DEF Stream
  <1> HIDE DEF e
  <1>2. [L EXCEPT ![a][b] = e] \in Links
    BY <1>1, LinkUpdate
  <1> QED BY <1>2 DEF Sent, e

LEMMA ReadTypes ==
    ASSUME NEW q \in Seq(Packet), q # <<>>
    PROVE  Taken(q) \in Seq(Packet) /\ Left(q) \in Seq(Packet) /\ Head(q) \in Packet
  BY SeqTypes DEF Taken, Left

LEMMA AfterType ==
    ASSUME link \in Links, NEW a \in Dialer, NEW n \in Node, HasData(a, n)
    PROVE  /\ After(a, n) \in Links
           /\ First(a, n) \in Packet
           /\ Taken(link[a][n].q) \in Seq(Packet)
  <1>1. link[a][n] \in Stream
    BY DEF Links
  <1>2. link[a][n].q \in Seq(Packet) /\ link[a][n].q # <<>>
    BY <1>1 DEF Stream, HasData
  <1>3. Left(link[a][n].q) \in Seq(Packet) /\ Taken(link[a][n].q) \in Seq(Packet)
        /\ Head(link[a][n].q) \in Packet
    BY <1>2, ReadTypes
  <1> DEFINE e == [link[a][n] EXCEPT !.q = Left(link[a][n].q)]
  <1>4. e \in Stream
    BY <1>1, <1>3 DEF Stream
  <1>5. After(a, n) = [link EXCEPT ![a][n] = e]
    BY DEF After
  <1> HIDE DEF e
  <1>6. [link EXCEPT ![a][n] = e] \in Links
    BY <1>4 DEF Links
  <1> QED BY <1>3, <1>5, <1>6 DEF First

LEMMA SeveredType ==
    ASSUME NEW L \in Links, NEW n \in Node
    PROVE  Severed(L, n) \in Links
  <1>1. \A a \in Dialer : L[a] \in [Node -> Stream] /\ L[a][n] \in Stream
    BY DEF Links
  <1>2. \A a \in Dialer :
          [L[a] EXCEPT ![n] = Closed(L[a][n], L[a][n].q # <<>> \/ a \in Pending(n))]
            \in [Node -> Stream]
    BY <1>1, StreamTypes
  <1> QED BY <1>2 DEF Severed, Links

\* A node that ends leaves the invariant intact.
LEMMA ExitKeeps ==
    ASSUME IInv, NEW n \in Node, NEW L \in Links, Exit(n, L), crashes' \in 0 .. MaxCrashes
    PROVE  IInv'
  <1>1. link' \in Links
    BY SeveredType DEF Exit
  <1>2. alive' \in [Node -> BOOLEAN]
    BY DEF Exit, IInv, TypeOK
  <1>3. backlog' \in [Node -> Seq(Dialer)]
    BY SeqTypes DEF Exit, IInv, TypeOK
  <1>4. TypeOK'
    BY <1>1, <1>2, <1>3 DEF Exit, IInv, TypeOK, Links
  <1> QED BY <1>4 DEF Exit, IInv

-----------------------------------------------------------------------------
(* Initial states and steps *)

\* A step of node n leaves the other nodes' fields alone.
LEMMA Frame ==
    ASSUME IInv, NEW n \in Node, TypeOK',
           Coherent(state'[n], pc'[n], peer_f'[n], peer_b'[n], guest'[n]),
           \A m \in Node \ {n} : /\ state'[m] = state[m] /\ pc'[m] = pc[m]
                                /\ peer_f'[m] = peer_f[m] /\ peer_b'[m] = peer_b[m]
                                /\ guest'[m] = guest[m]
    PROVE  IInv'
  BY DEF IInv

LEMMA GotoTypes ==
    ASSUME TypeOK, NEW n \in Node, NEW st \in State, NEW p \in Position, Goto(n, st, p)
    PROVE  /\ state' \in [Node -> State] /\ pc' \in [Node -> Position]
           /\ state'[n] = st /\ pc'[n] = p
           /\ \A m \in Node \ {n} : state'[m] = state[m] /\ pc'[m] = pc[m]
  BY DEF Goto, TypeOK

LEMMA InitIInv == Init => IInv
  <1> SUFFICES ASSUME Init PROVE IInv
    OBVIOUS
  <1>1. link \in Links
    BY StreamTypes DEF Init, Links
  <1>2. /\ peer_f_id \in [Node -> 0 .. WORD - 1]
        /\ net_size \in [Node -> 0 .. WORD - 1]
    <2>1. \A n \in Node : Succ(n) \in 0 .. WORD - 1
      BY IdFacts DEF Node
    <2>2. N \in 0 .. WORD - 1
      BY IdFacts
    <2> QED BY <2>1, <2>2 DEF Init
  <1>3. backlog \in [Node -> Seq(Dialer)]
    BY EmptySeq DEF Init
  <1>4. /\ peers \in [Node -> SUBSET Int]
        /\ state \in [Node -> State] /\ pc \in [Node -> Position]
        /\ phase \in [Client -> {"off", "presented", "ready", "busy", "closed"}]
    BY DEF Init, State, Position
  <1>5. crashes \in 0 .. MaxCrashes
    BY RingConstants DEF Init
  <1>6. TypeOK
    BY <1>1, <1>2, <1>3, <1>4, <1>5 DEF Init, TypeOK, Links
  <1> QED BY <1>6 DEF Init, IInv, Coherent, ElectionStates

\* Boot and election steps.
LEMMA BootKeeps ==
    ASSUME IInv, NEW n \in Node,
           Boot(n) \/ Connecting(n) \/ BeginOperation(n)
    PROVE  IInv'
  <1>0. /\ TypeOK /\ link \in Links
        /\ Coherent(state[n], pc[n], peer_f[n], peer_b[n], guest[n])
    BY DEF IInv, TypeOK, Links
  <1>1. CASE Boot(n)
    <2>1. TypeOK'
      BY <1>0, <1>1 DEF Boot, At, Goto, TypeOK, State, Position
    <2> QED BY <1>0, <1>1, <2>1, Frame, ZenonT(40) DEF Boot, At, Goto, TypeOK, Coherent, ElectionStates
  <1>2. CASE Connecting(n)
    <2>1. Succ(n) \in Node /\ n \in Dialer /\ None \notin Node
      BY IdFacts
    <2>2. backlog[n] # <<>> => Head(backlog[n]) \in Dialer /\ Tail(backlog[n]) \in Seq(Dialer)
      BY <1>0, SeqTypes DEF TypeOK
    <2>3. link' \in Links
      <3>1. Opened(<<>>) \in Stream
        BY StreamTypes, EmptySeq
      <3>2. [link EXCEPT ![n][Succ(n)] = Opened(<<>>)] \in Links
        BY <1>0, <3>1, LinkUpdate
      <3> QED BY <1>0, <1>2, <3>2 DEF Connecting
    <2>4. backlog' \in [Node -> Seq(Dialer)]
      <3> DEFINE popped == IF peer_b[n] = None /\ backlog[n] # <<>>
                             THEN [backlog EXCEPT ![n] = Tail(@)] ELSE backlog
      <3>1. popped \in [Node -> Seq(Dialer)]
        BY <1>0, <2>2 DEF TypeOK
      <3>2. Append(popped[Succ(n)], n) \in Seq(Dialer)
        BY <2>1, <3>1, SeqTypes
      <3>3. [popped EXCEPT ![Succ(n)] = Append(@, n)] \in [Node -> Seq(Dialer)]
        BY <3>1, <3>2
      <3> QED BY <1>2, <3>1, <3>3 DEF Connecting
    <2>5. peer_b' \in [Node -> Dialer \cup {None}] /\ peer_f' \in [Node -> Node \cup {None}]
      BY <1>0, <1>2, <2>1, <2>2 DEF Connecting, TypeOK
    <2>6. state' \in [Node -> State]
      BY <1>0, <1>2 DEF Connecting, TypeOK, State
    <2>7. TypeOK'
      BY <1>0, <1>2, <2>3, <2>4, <2>5, <2>6 DEF Connecting, TypeOK, Links
    <2>8. pc[n] = "top" /\ pc' = pc /\ guest' = guest /\ state[n] = "CONNECTING"
      BY <1>2 DEF Connecting, At
    <2>9. /\ state'[n] = IF peer_f'[n] # None /\ peer_b'[n] # None
                           THEN "BEGIN_OPERATION" ELSE "CONNECTING"
          /\ \A m \in Node \ {n} : state'[m] = state[m]
      BY <1>0, <1>2, <2>8 DEF Connecting, BothConnected, TypeOK
    <2>10. \A m \in Node \ {n} : peer_f'[m] = peer_f[m] /\ peer_b'[m] = peer_b[m]
      BY <1>0, <1>2 DEF Connecting, TypeOK
    <2>11. Coherent(state'[n], pc'[n], peer_f'[n], peer_b'[n], guest'[n])
      BY <2>8, <2>9 DEF Coherent, ElectionStates
    <2> QED BY <2>7, <2>8, <2>9, <2>10, <2>11, Frame
  <1>3. CASE BeginOperation(n)
    <2>1. peers' \in [Node -> SUBSET Int]
      BY <1>0, <1>3 DEF BeginOperation, TypeOK
    <2>2. state' \in [Node -> State] /\ pc' \in [Node -> Position]
      BY <1>0, <1>3, ZenonT(40) DEF BeginOperation, Goto, TypeOK, State, Position
    <2>3. TypeOK'
      BY <1>0, <1>3, <2>1, <2>2 DEF BeginOperation, TypeOK
    <2>4. Coherent(state'[n], pc'[n], peer_f'[n], peer_b'[n], guest'[n])
      BY <1>0, <1>3 DEF BeginOperation, At, Goto, TypeOK, Coherent, ElectionStates
    <2> QED BY <1>0, <1>3, <2>3, <2>4, Frame, ZenonT(40) DEF BeginOperation, Goto, TypeOK
  <1> QED BY <1>1, <1>2, <1>3

\* Announcing and hearing of an index.
LEMMA GossipKeeps ==
    ASSUME IInv, NEW n \in Node,
           PresentItself(n) \/ WaitIndexGossip(n) \/ GossipExit(n)
    PROVE  IInv'
  <1>0. /\ TypeOK /\ link \in Links
        /\ Coherent(state[n], pc[n], peer_f[n], peer_b[n], guest[n])
    BY DEF IInv, TypeOK, Links
  <1>1. CASE PresentItself(n)
    <2>1. <<Gossip(n)>> \in Seq(Packet)
      BY PacketTypes
    <2>2. link' \in Links
      BY <1>0, <1>1, <2>1, SentType DEF PresentItself
    <2>3. TypeOK'
      BY <1>0, <1>1, <2>2 DEF PresentItself, Goto, TypeOK, State, Position, Links
    <2>4. Coherent(state'[n], pc'[n], peer_f'[n], peer_b'[n], guest'[n])
      BY <1>0, <1>1 DEF PresentItself, At, Goto, TypeOK, Coherent, ElectionStates
    <2> QED BY <1>0, <1>1, <2>3, <2>4, Frame DEF PresentItself, Goto, TypeOK
  <1>2. CASE WaitIndexGossip(n)
    <2> DEFINE b == peer_b[n]
               L == IF HasData(b, n) THEN After(b, n) ELSE link
    <2>1. b \in Dialer
      BY <1>0, <1>2 DEF WaitIndexGossip, At, Coherent, ElectionStates, TypeOK
    <2>2. L \in Links /\ (HasData(b, n) => Taken(link[b][n].q) \in Seq(Packet)
                                            /\ First(b, n) \in Packet)
      BY <1>0, <2>1, AfterType
    <2>3. GossipForwarded(n) => HasData(b, n)
      BY <1>2 DEF WaitIndexGossip
    <2>4. GossipForwarded(n) => Sent(L, n, peer_f[n], Taken(link[b][n].q)) \in Links
      BY <2>2, <2>3, SentType
    <2>5. link' \in Links
      <3>1. link' = IF GossipForwarded(n) THEN Sent(L, n, peer_f[n], Taken(link[b][n].q)) ELSE L
        BY <1>2 DEF WaitIndexGossip
      <3> QED BY <2>2, <2>4, <3>1
    <2>6. GossipRead(n) \in Node \cup {None, Bogus}
      BY <2>2, PacketFields DEF GossipRead
    <2>7. index' \in [Node -> Node \cup {None, Bogus}]
      BY <1>0, <1>2, <2>6 DEF WaitIndexGossip, TypeOK
    <2>8. state' \in [Node -> State] /\ pc' \in [Node -> Position]
      BY <1>0, <1>2 DEF WaitIndexGossip, Goto, TypeOK, State, Position
    <2>9. TypeOK'
      BY <1>0, <1>2, <2>5, <2>7, <2>8 DEF WaitIndexGossip, TypeOK, Links
    <2>10. Coherent(state'[n], pc'[n], peer_f'[n], peer_b'[n], guest'[n])
      BY <1>0, <1>2 DEF WaitIndexGossip, At, Goto, TypeOK, Coherent, ElectionStates
    <2> QED BY <1>0, <1>2, <2>9, <2>10, Frame DEF WaitIndexGossip, Goto, TypeOK
  <1>3. CASE GossipExit(n)
    BY <1>0, <1>3, ExitKeeps DEF GossipExit, TypeOK
  <1> QED BY <1>1, <1>2, <1>3

\* The reporter's side of a session.
LEMMA ReportKeeps ==
    ASSUME IInv, NEW n \in Node,
           ReportDial(n) \/ ReportSelf(n) \/ ReportEnd(n)
    PROVE  IInv'
  <1>0. /\ TypeOK /\ link \in Links
        /\ Coherent(state[n], pc[n], peer_f[n], peer_b[n], guest[n])
    BY DEF IInv, TypeOK, Links
  <1>p. /\ <<Simple("PRESENT_ITSELF")>> \in Seq(Packet)
        /\ <<Simple("REPORT_SELF")>> \in Seq(Packet)
        /\ <<Simple("OK")>> \in Seq(Packet)
    BY PacketTypes
  <1>1. CASE ReportDial(n)
    <2> DEFINE i == index[n]
    <2>1. i \in Node /\ ReportOf(n) \in Dialer
      BY <1>1, IdFacts DEF ReportDial, Listening
    <2>2. Opened(<<Simple("PRESENT_ITSELF")>>) \in Stream
      BY <1>p, StreamTypes
    <2>3. link' \in Links
      BY <1>0, <1>1, <2>2, LinkUpdate DEF ReportDial
    <2>4. Append(backlog[i], ReportOf(n)) \in Seq(Dialer)
      BY <1>0, <2>1, SeqTypes DEF TypeOK
    <2>5. backlog' \in [Node -> Seq(Dialer)]
      BY <1>0, <1>1, <2>4 DEF ReportDial, TypeOK
    <2>6. TypeOK'
      BY <1>0, <1>1, <2>3, <2>5 DEF ReportDial, TypeOK, Links, Position
    <2>7. Coherent(state'[n], pc'[n], peer_f'[n], peer_b'[n], guest'[n])
      BY <1>0, <1>1 DEF ReportDial, At, TypeOK, Coherent, ElectionStates
    <2> QED BY <1>0, <1>1, <2>6, <2>7, Frame DEF ReportDial, TypeOK
  <1>2. CASE ReportSelf(n)
    <2>1. link' \in Links
      BY <1>0, <1>2, <1>p, SentType DEF ReportSelf
    <2>2. pc' \in [Node -> Position] /\ pc'[n] \in {"reported", "top"}
          /\ \A m \in Node \ {n} : pc'[m] = pc[m]
      BY <1>0, <1>2 DEF ReportSelf, TypeOK, Position
    <2>3. TypeOK'
      BY <1>0, <1>2, <2>1, <2>2 DEF ReportSelf, TypeOK, Links
    <2>4. Coherent(state'[n], pc'[n], peer_f'[n], peer_b'[n], guest'[n])
      BY <1>0, <1>2, <2>2 DEF ReportSelf, At, TypeOK, Coherent, ElectionStates
    <2> QED BY <1>0, <1>2, <2>2, <2>3, <2>4, Frame DEF ReportSelf
  <1>3. CASE ReportEnd(n)
    <2>1. CASE SendKill(ReportOf(n), index[n])
      BY <1>0, <1>3, <2>1, ExitKeeps DEF ReportEnd, TypeOK
    <2>2. CASE ~SendKill(ReportOf(n), index[n])
      <3>1. link' \in Links
        BY <1>0, <1>3, <1>p, <2>2, SentType DEF ReportEnd
      <3>2. state' \in [Node -> State] /\ pc' \in [Node -> Position]
        BY <1>0, <1>3, <2>2, ZenonT(40) DEF ReportEnd, Goto, TypeOK, State, Position
      <3>3. TypeOK'
        BY <1>0, <1>3, <2>2, <3>1, <3>2 DEF ReportEnd, TypeOK, Links
      <3>4. Coherent(state'[n], pc'[n], peer_f'[n], peer_b'[n], guest'[n])
        BY <1>0, <1>3, <2>2 DEF ReportEnd, At, Goto, TypeOK, Coherent, ElectionStates
      <3> QED BY <1>0, <1>3, <2>2, <3>3, <3>4, Frame DEF ReportEnd, Goto, TypeOK
    <2> QED BY <2>1, <2>2
  <1> QED BY <1>1, <1>2, <1>3

\* The accept branches.
LEMMA AcceptKeeps ==
    ASSUME IInv, NEW n \in Node,
           Accept(n) \/ Identify(n) \/ RejectGuest(n)
    PROVE  IInv'
  <1>0. /\ TypeOK /\ link \in Links
        /\ Coherent(state[n], pc[n], peer_f[n], peer_b[n], guest[n])
    BY DEF IInv, TypeOK, Links
  <1>1. CASE Accept(n)
    <2>1. Head(backlog[n]) \in Dialer /\ Tail(backlog[n]) \in Seq(Dialer)
      BY <1>0, <1>1, SeqTypes DEF Accept, TypeOK
    <2>2. TypeOK'
      BY <1>0, <1>1, <2>1 DEF Accept, TypeOK, Position
    <2>3. Coherent(state'[n], pc'[n], peer_f'[n], peer_b'[n], guest'[n])
      BY <1>0, <1>1, <2>1, IdFacts DEF Accept, At, Polling, TypeOK, Coherent
    <2> QED BY <1>0, <1>1, <2>2, <2>3, Frame DEF Accept, TypeOK
  <1>2. CASE Identify(n)
    <2> DEFINE a == guest[n]
    <2>1. a \in Dialer
      BY <1>0, <1>2 DEF Identify, Coherent, TypeOK
    <2>2. link' \in Links
      BY <1>0, <1>2, <2>1, AfterType DEF Identify, Presented
    <2>3. ok' \in [Node -> BOOLEAN]
      BY <1>0, <1>2, IdFacts DEF Identify, TypeOK
    <2>4. phase' \in [Client -> {"off", "presented", "ready", "busy", "closed"}]
      BY <1>0, <1>2 DEF Identify, TypeOK
    <2>5. client_fd' \in [Node -> Client \cup {None}] /\ guest' \in [Node -> Dialer \cup {None}]
      BY <1>0, <1>2 DEF Identify, TypeOK
    <2>6. pc' \in [Node -> Position]
      BY <1>0, <1>2 DEF Identify, TypeOK, Position
    <2>7. TypeOK'
      BY <1>0, <1>2, <2>2, <2>3, <2>4, <2>5, <2>6 DEF Identify, TypeOK, Links
    <2>8. Coherent(state'[n], pc'[n], peer_f'[n], peer_b'[n], guest'[n])
      BY <1>0, <1>2 DEF Identify, TypeOK, Coherent
    <2> QED BY <1>0, <1>2, <2>7, <2>8, Frame DEF Identify, TypeOK
  <1>3. CASE RejectGuest(n)
    <2> DEFINE a == guest[n]
               e == Closed(link[a][n], link[a][n].q # <<>> /\ Left(link[a][n].q) # <<>>)
    <2>1. a \in Dialer
      BY <1>0, <1>3 DEF RejectGuest, Coherent, TypeOK
    <2>2. e \in Stream
      BY <1>0, <2>1, StreamTypes DEF Links
    <2>3. link' = [link EXCEPT ![a][n] = e]
      BY <1>3 DEF RejectGuest
    <2>4. link' \in Links
      <3> HIDE DEF e
      <3> QED BY <1>0, <2>1, <2>2, <2>3 DEF Links
    <2>5. TypeOK'
      BY <1>0, <1>3, <2>4 DEF RejectGuest, TypeOK, Links, Position
    <2>6. Coherent(state'[n], pc'[n], peer_f'[n], peer_b'[n], guest'[n])
      BY <1>0, <1>3 DEF RejectGuest, TypeOK, Coherent
    <2> QED BY <1>0, <1>3, <2>5, <2>6, Frame DEF RejectGuest, TypeOK
  <1> QED BY <1>1, <1>2, <1>3

\* The index's side of a session, and the packet an IDLE node waits for.
LEMMA SessionKeeps ==
    ASSUME IInv, NEW n \in Node, Session(n) \/ Receive(n)
    PROVE  IInv'
  <1>0. /\ TypeOK /\ link \in Links
        /\ Coherent(state[n], pc[n], peer_f[n], peer_b[n], guest[n])
    BY DEF IInv, TypeOK, Links
  <1> DEFINE a == guest[n]
  <1>1. CASE Session(n)
    <2> DEFINE e == Closed(link[a][n], Left(link[a][n].q) # <<>>)
    <2>1. a \in Dialer
      BY <1>0, <1>1 DEF Session, At, Coherent, TypeOK
    <2>2. e \in Stream
      BY <1>0, <2>1, StreamTypes DEF Links
    <2>3. After(a, n) \in Links
      BY <1>0, <1>1, <2>1, AfterType DEF Session
    <2>4. link' = After(a, n) \/ link' = [link EXCEPT ![a][n] = e]
      BY <1>1 DEF Session
    <2>5. link' \in Links
      <3> HIDE DEF e
      <3>1. [link EXCEPT ![a][n] = e] \in Links
        BY <1>0, <2>2, LinkUpdate
      <3> QED BY <2>3, <2>4, <3>1
    <2>6. peers' \in [Node -> SUBSET Int] /\ connected' \in [Node -> Nat]
      <3>1. NodeOf(a) \in Int
        BY <2>1, IdFacts DEF NodeOf, Dialer
      <3>2. peers[n] \cup {NodeOf(a)} \in SUBSET Int /\ connected[n] + 1 \in Nat
        BY <1>0, <3>1 DEF TypeOK
      <3>3. /\ peers' = peers \/ peers' = [peers EXCEPT ![n] = peers[n] \cup {NodeOf(a)}]
            /\ connected' = connected \/ connected' = [connected EXCEPT ![n] = connected[n] + 1]
        BY <1>1 DEF Session
      <3>4. peers \in [Node -> SUBSET Int] /\ connected \in [Node -> Nat]
        BY <1>0 DEF TypeOK
      <3> QED BY <3>2, <3>3, <3>4
    <2>7. /\ state' \in [Node -> State] /\ pc' \in [Node -> Position]
          /\ guest' \in [Node -> Dialer \cup {None}]
      <3>1. state[n] \in State /\ "IDLE" \in State /\ "top" \in Position
        BY <1>0 DEF TypeOK, State, Position
      <3>2. \/ state' = state /\ pc' = pc /\ guest' = guest
            \/ /\ \E st \in {"IDLE", state[n]} : Goto(n, st, "top")
               /\ guest' = [guest EXCEPT ![n] = None]
        BY <1>1 DEF Session
      <3>3. guest' \in [Node -> Dialer \cup {None}]
        BY <1>0, <3>2 DEF TypeOK
      <3>4. state' \in [Node -> State] /\ pc' \in [Node -> Position]
        BY <1>0, <3>1, <3>2, GotoTypes, ZenonT(40) DEF TypeOK
      <3> QED BY <3>3, <3>4
    <2>8. TypeOK'
      BY <1>0, <1>1, <2>5, <2>6, <2>7 DEF Session, TypeOK, Links
    <2>9. Coherent(state'[n], pc'[n], peer_f'[n], peer_b'[n], guest'[n])
      <3>1. /\ state[n] = "INDEX_WAITING_PEERS_KNOWLEDGE" /\ peer_f' = peer_f /\ peer_b' = peer_b
            /\ \/ state' = state /\ pc' = pc /\ guest' = guest
               \/ state'[n] \in {"IDLE", state[n]} /\ pc'[n] = "top"
        BY <1>0, <1>1 DEF Session, At, Goto, TypeOK
      <3> QED BY <1>0, <3>1 DEF Coherent, ElectionStates
    <2>10. \A m \in Node \ {n} : state'[m] = state[m] /\ pc'[m] = pc[m] /\ guest'[m] = guest[m]
      BY <1>0, <1>1 DEF Session, Goto, TypeOK
    <2> QED BY <1>1, <2>8, <2>9, <2>10, Frame DEF Session
  <1>2. CASE Receive(n)
    <2>1. a \in Dialer
      BY <1>0, <1>2 DEF Receive, Coherent, TypeOK
    <2>2. link' \in Links
      BY <1>0, <1>2, <2>1, AfterType DEF Receive
    <2>3. state' \in [Node -> State] /\ pc' \in [Node -> Position]
      <3>1. /\ state[n] \in State /\ "RECEIVED_PACKET" \in State /\ "top" \in Position
        BY <1>0 DEF TypeOK, State, Position
      <3>2. \E st \in {"RECEIVED_PACKET", state[n]} : Goto(n, st, "top")
        BY <1>2 DEF Receive
      <3> QED BY <1>0, <3>1, <3>2, GotoTypes
    <2>4. TypeOK'
      BY <1>0, <1>2, <2>2, <2>3 DEF Receive, TypeOK, Links
    <2>5. Coherent(state'[n], pc'[n], peer_f'[n], peer_b'[n], guest'[n])
      BY <1>0, <1>2 DEF Receive, Goto, TypeOK, Coherent, ElectionStates
    <2> QED BY <1>0, <1>2, <2>4, <2>5, Frame DEF Receive, Goto, TypeOK
  <1> QED BY <1>1, <1>2

\* The second half of the IDLE pass, and the handlers.
LEMMA PollKeeps ==
    ASSUME IInv, NEW n \in Node, PollClient(n) \/ PollNothing(n) \/ Serve(n)
    PROVE  IInv'
  <1>0. /\ TypeOK /\ link \in Links
        /\ Coherent(state[n], pc[n], peer_f[n], peer_b[n], guest[n])
    BY DEF IInv, TypeOK, Links
  <1>1. CASE PollClient(n)
    <2>1. client_fd[n] \in Dialer
      BY <1>0, <1>1, IdFacts DEF PollClient, ClientReady, TypeOK
    <2>2. link' \in Links
      BY <1>0, <1>1, <2>1, AfterType DEF PollClient
    <2>3. state' \in [Node -> State] /\ pc' \in [Node -> Position]
      <3>1. /\ state[n] \in State /\ "RECEIVED_PACKET" \in State /\ "top" \in Position
        BY <1>0 DEF TypeOK, State, Position
      <3>2. \E st \in {"RECEIVED_PACKET", state[n]} : Goto(n, st, "top")
        BY <1>1 DEF PollClient
      <3> QED BY <1>0, <3>1, <3>2, GotoTypes
    <2>4. TypeOK'
      BY <1>0, <1>1, <2>2, <2>3 DEF PollClient, TypeOK, Links
    <2>5. Coherent(state'[n], pc'[n], peer_f'[n], peer_b'[n], guest'[n])
      BY <1>0, <1>1, SMTT(30) DEF PollClient, Polling, Goto, TypeOK, Coherent, ElectionStates
    <2> QED BY <1>0, <1>1, <2>4, <2>5, Frame, ZenonT(40) DEF PollClient, Goto, TypeOK
  <1>2. CASE PollNothing(n)
    <2>1. TypeOK'
      BY <1>0, <1>2 DEF PollNothing, TypeOK, Position
    <2>2. Coherent(state'[n], pc'[n], peer_f'[n], peer_b'[n], guest'[n])
      BY <1>0, <1>2 DEF PollNothing, TypeOK, Coherent
    <2> QED BY <1>0, <1>2, <2>1, <2>2, Frame DEF PollNothing, TypeOK
  <1>3. CASE Serve(n)
    <2>1. phase' \in [Client -> {"off", "presented", "ready", "busy", "closed"}]
      BY <1>0, <1>3 DEF Serve, TypeOK
    <2>2. TypeOK'
      BY <1>0, <1>3, <2>1 DEF Serve, Goto, TypeOK, State, Position
    <2>3. Coherent(state'[n], pc'[n], peer_f'[n], peer_b'[n], guest'[n])
      BY <1>0, <1>3 DEF Serve, At, Goto, TypeOK, Coherent, ElectionStates
    <2> QED BY <1>0, <1>3, <2>2, <2>3, Frame DEF Serve, Goto, TypeOK
  <1> QED BY <1>1, <1>2, <1>3

\* What burying d does to a node's books.
LEMMA BuryTypes ==
    ASSUME IInv, NEW n \in Node, NEW d \in Node, Bury(n, d), state[n] = "IDLE"
    PROVE  /\ net_size' \in [Node -> 0 .. WORD - 1] /\ death_count' \in [Node -> Nat]
           /\ peers' \in [Node -> SUBSET Int]
           /\ state' \in [Node -> State] /\ pc' \in [Node -> Position]
           /\ state'[n] \in {"IDLE", "BEGIN_OPERATION"} /\ pc'[n] = "poll"
           /\ \A m \in Node \ {n} : state'[m] = state[m] /\ pc'[m] = pc[m]
  <1>0. TypeOK
    BY DEF IInv
  <1>1. net_size' \in [Node -> 0 .. WORD - 1]
    <2>1. Minus(net_size[n], 1) \in 0 .. WORD - 1
      BY <1>0, MinusType DEF TypeOK
    <2> QED BY <1>0, <2>1 DEF Bury, TypeOK
  <1>2. death_count' \in [Node -> Nat] /\ peers' \in [Node -> SUBSET Int]
    BY <1>0 DEF Bury, TypeOK
  <1>3. "IDLE" \in State /\ "BEGIN_OPERATION" \in State /\ "poll" \in Position
    BY DEF State, Position
  <1>4. \E st \in {"IDLE", "BEGIN_OPERATION"} : Goto(n, st, "poll")
    BY DEF Bury
  <1>5. /\ state' \in [Node -> State] /\ pc' \in [Node -> Position]
        /\ state'[n] \in {"IDLE", "BEGIN_OPERATION"} /\ pc'[n] = "poll"
        /\ \A m \in Node \ {n} : state'[m] = state[m] /\ pc'[m] = pc[m]
    BY <1>0, <1>3, <1>4, GotoTypes
  <1> QED BY <1>1, <1>2, <1>5

\* Detecting a death.
LEMMA HealthCheckKeeps ==
    ASSUME IInv, NEW n \in Node, HealthCheck(n)
    PROVE  IInv'
  <1>0. /\ TypeOK /\ link \in Links /\ state[n] = "IDLE"
        /\ Coherent(state[n], pc[n], peer_f[n], peer_b[n], guest[n])
    BY DEF IInv, TypeOK, Links, HealthCheck, At
  <1>1. CASE SendKill(n, peer_f[n])
    BY <1>0, <1>1, ExitKeeps DEF HealthCheck, TypeOK
  <1>2. CASE ~SendKill(n, peer_f[n])
    <2>1. <<Died(Pred(n), n)>> \in Seq(Packet)
      BY PacketTypes, IdFacts
    <2>2. link' \in Links
      <3>1. link' = Sent(link, n, peer_f[n], <<Died(Pred(n), n)>>)
        BY <1>2 DEF HealthCheck
      <3> QED BY <1>0, <2>1, <3>1, SentType
    <2>3. net_size' \in [Node -> 0 .. WORD - 1]
      <3>0. net_size[n] \in Int
        BY <1>0, IdFacts DEF TypeOK
      <3>1. Minus(net_size[n], 2) \in 0 .. WORD - 1
        BY <3>0, IdFacts DEF Minus
      <3> QED BY <1>0, <1>2, <3>1 DEF HealthCheck, TypeOK
    <2>4. death_count' \in [Node -> Nat] /\ peers' \in [Node -> SUBSET Int]
      BY <1>0, <1>2, SMTT(40) DEF HealthCheck, TypeOK
    <2>5. /\ state' \in [Node -> State] /\ pc' \in [Node -> Position]
          /\ state'[n] = "WAITING_NEW_PEER" /\ pc'[n] = "poll"
          /\ \A m \in Node \ {n} : state'[m] = state[m] /\ pc'[m] = pc[m]
      <3>1. "WAITING_NEW_PEER" \in State /\ "poll" \in Position
        BY DEF State, Position
      <3> QED BY <1>0, <1>2, <3>1, GotoTypes DEF HealthCheck
    <2>6. TypeOK'
      BY <1>0, <1>2, <2>2, <2>3, <2>4, <2>5 DEF HealthCheck, TypeOK, Links
    <2>7. Coherent(state'[n], pc'[n], peer_f'[n], peer_b'[n], guest'[n])
      BY <1>0, <1>2, <2>5 DEF HealthCheck, Coherent, ElectionStates
    <2>8. /\ peer_f' = peer_f /\ guest' = guest
          /\ \A m \in Node \ {n} : peer_b'[m] = peer_b[m]
      BY <1>0, <1>2 DEF HealthCheck, TypeOK
    <2> QED BY <2>5, <2>6, <2>7, <2>8, Frame
  <1> QED BY <1>1, <1>2

\* Hearing of a death.
LEMMA NoticeKeeps ==
    ASSUME IInv, NEW n \in Node, AdoptWidow(n) \/ ForwardDeath(n)
    PROVE  IInv'
  <1> DEFINE p == First(peer_b[n], n)
             L == After(peer_b[n], n)
  <1>0. /\ TypeOK /\ link \in Links /\ state[n] = "IDLE" /\ HearsOfDeath(n)
        /\ Coherent(state[n], pc[n], peer_f[n], peer_b[n], guest[n])
    BY DEF IInv, TypeOK, Links, AdoptWidow, ForwardDeath, HearsOfDeath, At
  <1>1. peer_b[n] \in Dialer /\ HasData(peer_b[n], n)
    BY <1>0 DEF HearsOfDeath, TypeOK
  <1>2. L \in Links /\ p \in Packet /\ Taken(link[peer_b[n]][n].q) \in Seq(Packet)
    BY <1>0, <1>1, AfterType
  <1>3. p.peer_id \in Node /\ p.widow \in Node
    BY <1>0, <1>2, PacketFields DEF HearsOfDeath
  <1> HIDE DEF L, p
  <1>4. CASE AdoptWidow(n)
    <2>1. CASE Minus(net_size[n], 1) = 0
      BY <1>0, <1>2, <1>4, <2>1, ExitKeeps DEF AdoptWidow, TypeOK, L
    <2>2. CASE Minus(net_size[n], 1) # 0
      <3> DEFINE k == Minus(net_size[n], 1)
      <3>1. Bury(n, p.peer_id)
        BY <1>4, <2>2 DEF AdoptWidow, p
      <3>2. /\ net_size' \in [Node -> 0 .. WORD - 1] /\ death_count' \in [Node -> Nat]
            /\ peers' \in [Node -> SUBSET Int]
            /\ state' \in [Node -> State] /\ pc' \in [Node -> Position]
            /\ state'[n] \in {"IDLE", "BEGIN_OPERATION"} /\ pc'[n] = "poll"
            /\ \A m \in Node \ {n} : state'[m] = state[m] /\ pc'[m] = pc[m]
        BY <1>0, <1>3, <3>1, BuryTypes
      <3>3. peer_f_id' \in [Node -> 0 .. WORD - 1]
        <4>1. k \in 0 .. WORD - 1 /\ k # 0 /\ n + 1 \in Nat /\ WORD \in Nat
          <5>1. net_size[n] \in Int
            BY <1>0, IdFacts DEF TypeOK
          <5>2. k \in 0 .. WORD - 1
            BY <5>1, IdFacts DEF Minus
          <5> QED BY <2>2, <5>2, IdFacts DEF Node
        <4> HIDE DEF k
        <4>2. (n + 1) % k \in 0 .. WORD - 1
          BY <4>1
        <4>3. peer_f_id' = [peer_f_id EXCEPT ![n] = (n + 1) % k]
          BY <1>4, <2>2 DEF AdoptWidow, k
        <4> QED BY <1>0, <4>2, <4>3 DEF TypeOK
      <3>4. link' \in Links
        <4>1. Opened(<<>>) \in Stream
          BY StreamTypes, EmptySeq
        <4>2. [L EXCEPT ![n][p.widow] = Opened(<<>>)] \in Links
          BY <1>2, <4>1, LinkUpdate
        <4>3. link' = L \/ link' = [L EXCEPT ![n][p.widow] = Opened(<<>>)]
          BY <1>4, <2>2 DEF AdoptWidow, L, p
        <4> QED BY <1>2, <4>2, <4>3
      <3>5. backlog' \in [Node -> Seq(Dialer)]
        <4>1. Append(backlog[p.widow], n) \in Seq(Dialer)
          BY <1>0, <1>3, IdFacts, SeqTypes DEF TypeOK
        <4>2. backlog' = backlog \/ backlog' = [backlog EXCEPT ![p.widow] = Append(backlog[p.widow], n)]
          BY <1>4, <2>2 DEF AdoptWidow, p
        <4> QED BY <1>0, <4>1, <4>2 DEF TypeOK
      <3>6. /\ peer_f' \in [Node -> Node \cup {None}]
            /\ peer_f'[n] \in {p.widow, peer_f[n]}
            /\ \A m \in Node \ {n} : peer_f'[m] = peer_f[m]
        BY <1>0, <1>3, <1>4, <2>2 DEF AdoptWidow, TypeOK, p
      <3>7. UNCHANGED <<alive, peer_b, guest, index, connected, ok, client_fd, phase, crashes>>
        BY <1>4, <2>2 DEF AdoptWidow
      <3>8. TypeOK'
        BY <1>0, <3>2, <3>3, <3>4, <3>5, <3>6, <3>7 DEF TypeOK, Links
      <3>9. peer_b[n] # None
        BY <1>0 DEF HearsOfDeath
      <3>10. Coherent(state'[n], pc'[n], peer_f'[n], peer_b'[n], guest'[n])
        BY <1>0, <1>3, <3>2, <3>6, <3>7, <3>9, IdFacts DEF Coherent, ElectionStates
      <3> QED BY <3>2, <3>6, <3>7, <3>8, <3>10, Frame
    <2> QED BY <2>1, <2>2
  <1>5. CASE ForwardDeath(n)
    <2>1. CASE SendKill(n, peer_f[n])
      BY <1>0, <1>2, <1>5, <2>1, ExitKeeps DEF ForwardDeath, TypeOK, L
    <2>2. CASE ~SendKill(n, peer_f[n])
      <3>1. Bury(n, p.peer_id)
        BY <1>5, <2>2 DEF ForwardDeath, p
      <3>2. /\ net_size' \in [Node -> 0 .. WORD - 1] /\ death_count' \in [Node -> Nat]
            /\ peers' \in [Node -> SUBSET Int]
            /\ state' \in [Node -> State] /\ pc' \in [Node -> Position]
            /\ state'[n] \in {"IDLE", "BEGIN_OPERATION"} /\ pc'[n] = "poll"
            /\ \A m \in Node \ {n} : state'[m] = state[m] /\ pc'[m] = pc[m]
        BY <1>0, <1>3, <3>1, BuryTypes
      <3>3. link' \in Links
        BY <1>2, <1>5, <2>2, SentType DEF ForwardDeath, L
      <3>4. UNCHANGED <<alive, peer_f_id, peer_f, peer_b, backlog, guest, index,
                        connected, ok, client_fd, phase, crashes>>
        BY <1>5, <2>2 DEF ForwardDeath
      <3>5. TypeOK'
        BY <1>0, <3>2, <3>3, <3>4 DEF TypeOK, Links
      <3>6. peer_b[n] # None
        BY <1>0 DEF HearsOfDeath
      <3>7. Coherent(state'[n], pc'[n], peer_f'[n], peer_b'[n], guest'[n])
        BY <1>0, <3>2, <3>4, <3>6 DEF Coherent, ElectionStates
      <3> QED BY <3>2, <3>4, <3>5, <3>7, Frame
    <2> QED BY <2>1, <2>2
  <1> QED BY <1>4, <1>5

\* Other packets of peer_b, and the widow's new peer.
LEMMA PeerBKeeps ==
    ASSUME IInv, NEW n \in Node, DropFromPeerB(n) \/ WaitingNewPeer(n)
    PROVE  IInv'
  <1>0. /\ TypeOK /\ link \in Links
        /\ Coherent(state[n], pc[n], peer_f[n], peer_b[n], guest[n])
    BY DEF IInv, TypeOK, Links
  <1>1. CASE DropFromPeerB(n)
    <2>1. link' \in Links
      BY <1>0, <1>1, AfterType DEF DropFromPeerB, TypeOK
    <2>2. TypeOK'
      BY <1>0, <1>1, <2>1 DEF DropFromPeerB, TypeOK, Links, Position
    <2>3. Coherent(state'[n], pc'[n], peer_f'[n], peer_b'[n], guest'[n])
      BY <1>0, <1>1 DEF DropFromPeerB, At, TypeOK, Coherent
    <2> QED BY <1>0, <1>1, <2>2, <2>3, Frame DEF DropFromPeerB, TypeOK
  <1>2. CASE WaitingNewPeer(n)
    <2>1. Head(backlog[n]) \in Dialer /\ Tail(backlog[n]) \in Seq(Dialer)
      BY <1>0, <1>2, SeqTypes DEF WaitingNewPeer, TypeOK
    <2>2. /\ backlog' \in [Node -> Seq(Dialer)] /\ peer_b' \in [Node -> Dialer \cup {None}]
          /\ peer_b'[n] = Head(backlog[n]) /\ \A m \in Node \ {n} : peer_b'[m] = peer_b[m]
      BY <1>0, <1>2, <2>1 DEF WaitingNewPeer, TypeOK
    <2>3. /\ state' \in [Node -> State] /\ pc' \in [Node -> Position]
          /\ state'[n] \in {"IDLE", "BEGIN_OPERATION"} /\ pc'[n] = "top"
          /\ \A m \in Node \ {n} : state'[m] = state[m] /\ pc'[m] = pc[m]
      <3>1. "IDLE" \in State /\ "BEGIN_OPERATION" \in State /\ "top" \in Position
        BY DEF State, Position
      <3>2. \E st \in {"IDLE", "BEGIN_OPERATION"} : Goto(n, st, "top")
        BY <1>2 DEF WaitingNewPeer
      <3> QED BY <1>0, <3>1, <3>2, GotoTypes
    <2>4. TypeOK'
      BY <1>0, <1>2, <2>2, <2>3 DEF WaitingNewPeer, TypeOK
    <2>5. Coherent(state'[n], pc'[n], peer_f'[n], peer_b'[n], guest'[n])
      BY <1>0, <1>2, <2>1, <2>2, <2>3, IdFacts DEF WaitingNewPeer, At, Coherent, ElectionStates
    <2> QED BY <1>2, <2>2, <2>3, <2>4, <2>5, Frame DEF WaitingNewPeer
  <1> QED BY <1>1, <1>2

\* Clients only write to their streams.
LEMMA ClientKeeps ==
    ASSUME IInv, NEW c \in Client,
           ClientRequest(c) \/ ClientClose(c) \/ \E n \in Node : ClientConnect(c, n)
    PROVE  IInv'
  <1>0. TypeOK /\ link \in Links /\ c \in Dialer
    BY IdFacts DEF IInv, TypeOK, Links
  <1>1. CASE ClientRequest(c)
    <2>1. <<Simple("REQUEST")>> \in Seq(Packet)
      BY PacketTypes
    <2>2. link' \in Links
      BY <1>0, <1>1, <2>1, SentType DEF ClientRequest
    <2>3. TypeOK'
      BY <1>0, <1>1, <2>2 DEF ClientRequest, TypeOK, Links
    <2> QED BY <1>1, <2>3 DEF ClientRequest, IInv
  <1>2. CASE ClientClose(c)
    <2>1. TypeOK'
      BY <1>0, <1>2 DEF ClientClose, TypeOK
    <2> QED BY <1>2, <2>1 DEF ClientClose, IInv
  <1>3. ASSUME NEW n \in Node, ClientConnect(c, n) PROVE IInv'
    <2>0. <<Simple("PRESENT_ITSELF")>> \in Seq(Packet)
      BY PacketTypes
    <2>1. Opened(<<Simple("PRESENT_ITSELF")>>) \in Stream
      BY <2>0, StreamTypes
    <2>2. link' \in Links
      BY <1>0, <1>3, <2>1, LinkUpdate DEF ClientConnect
    <2>3. Append(backlog[n], c) \in Seq(Dialer)
      BY <1>0, SeqTypes DEF TypeOK
    <2>4. TypeOK'
      BY <1>0, <1>3, <2>2, <2>3 DEF ClientConnect, TypeOK, Links
    <2> QED BY <1>3, <2>4 DEF ClientConnect, IInv
  <1> QED BY <1>1, <1>2, <1>3

LEMMA CrashKeeps ==
    ASSUME IInv, NEW n \in Node, Crash(n)
    PROVE  IInv'
  <1>1. link \in Links /\ crashes' \in 0 .. MaxCrashes
    BY RingConstants DEF IInv, TypeOK, Links, Crash
  <1> QED BY <1>1, ExitKeeps DEF Crash

\* Every step of the system preserves the inductive invariant.
LEMMA NextIInv == IInv /\ [Next]_vars => IInv'
  <1> SUFFICES ASSUME IInv, [Next]_vars PROVE IInv'
    OBVIOUS
  <1>1. ASSUME NEW n \in Node, NodeStep(n) PROVE IInv'
    BY <1>1, BootKeeps, GossipKeeps, ReportKeeps, AcceptKeeps, SessionKeeps, PollKeeps,
       HealthCheckKeeps, NoticeKeeps, PeerBKeeps DEF NodeStep
  <1>2. ASSUME NEW n \in Node, Crash(n) PROVE IInv'
    BY <1>2, CrashKeeps
  <1>3. ASSUME NEW c \in Client,
               ClientRequest(c) \/ ClientClose(c) \/ \E n \in Node : ClientConnect(c, n)
        PROVE  IInv'
    BY <1>3, ClientKeeps
  <1>4. CASE UNCHANGED vars
    BY <1>4 DEF vars, IInv, TypeOK
  <1> QED BY <1>1, <1>2, <1>3, <1>4 DEF Next

LEMMA Invariance == Spec => []IInv
  BY InitIInv, NextIInv, PTL DEF Spec

-----------------------------------------------------------------------------
(* Theorems *)

\* The fields of every node's struct Server and every stream keep their types,
\* whatever crashes, clients and packet boundaries do (main.c, procedures.c).
THEOREM TypeCorrect == Spec => []TypeOK
  <1>1. IInv => TypeOK
    BY DEF IInv
  <1> QED BY <1>1, Invariance, PTL

\* A node that takes part in an election, the first one or a later one, has an
\* open stream to a forward peer and from a backward peer: the unguarded sends
\* and recvs of main.c's election states never use a socket that was not opened.
THEOREM ElectionPeers == Spec => []ElectionHasBothPeers
  <1>1. IInv => ElectionHasBothPeers
    BY DEF IInv, Coherent, ElectionHasBothPeers, ElectionStates
  <1> QED BY <1>1, Invariance, PTL

-----------------------------------------------------------------------------
(* Streams, as sequences of packets *)

\* What a read, a close or the end of a reader leaves of a queue.
Shrinks(r, q) == r = q \/ r = <<>> \/ (q # <<>> /\ r = Tail(q))
AllShrink(K, L) == \A a \in Dialer, n \in Node : Shrinks(K[a][n].q, L[a][n].q)

\* K is L after some reads and one write of pkts on the stream x -> y.
Grows(K, L, x, y, pkts) ==
    \A a \in Dialer, n \in Node :
        \/ Shrinks(K[a][n].q, L[a][n].q)
        \/ /\ a = x /\ n = y
           /\ \E r \in Seq(Packet) : Shrinks(r, L[x][y].q) /\ K[x][y].q = r \o pkts

\* How often REPORT_SELF stands in a queue.
SelfAt(q, i) == i \in DOMAIN q /\ q[i].type = "REPORT_SELF"
NoSelf(q)    == \A i \in DOMAIN q : ~SelfAt(q, i)
OneSelf(q)   == \A i, j \in DOMAIN q : SelfAt(q, i) /\ SelfAt(q, j) => i = j

LEMMA SeqMonotone ==
    ASSUME NEW S, NEW T, S \subseteq T, NEW s \in Seq(S)
    PROVE  s \in Seq(T)
  OBVIOUS

LEMMA TailFacts ==
    ASSUME NEW S, NEW s \in Seq(S), s # <<>>
    PROVE  /\ DOMAIN Tail(s) = 1 .. Len(s) - 1
           /\ \A i \in DOMAIN Tail(s) : i + 1 \in DOMAIN s /\ Tail(s)[i] = s[i + 1]
           /\ Head(s) = s[1] /\ 1 \in DOMAIN s /\ Tail(s) # s
  OBVIOUS

LEMMA ConcatFacts ==
    ASSUME NEW S, NEW s \in Seq(S), NEW t \in Seq(S)
    PROVE  /\ DOMAIN (s \o t) = 1 .. Len(s) + Len(t)
           /\ \A i \in DOMAIN (s \o t) :
                \/ i \in DOMAIN s /\ (s \o t)[i] = s[i]
                \/ i - Len(s) \in DOMAIN t /\ i > Len(s) /\ (s \o t)[i] = t[i - Len(s)]
  OBVIOUS

LEMMA ShrinksType ==
    ASSUME NEW S, NEW q \in Seq(S), NEW r, Shrinks(r, q)
    PROVE  r \in Seq(S)
  BY SeqTypes DEF Shrinks

LEMMA ShrinksSelf ==
    ASSUME NEW q \in Seq(Packet), NEW r, Shrinks(r, q)
    PROVE  /\ NoSelf(q) => NoSelf(r)
           /\ OneSelf(q) => OneSelf(r)
           /\ OneSelf(q) /\ q # <<>> /\ Head(q).type = "REPORT_SELF" /\ r # q => NoSelf(r)
  <1>1. CASE r = q
    BY <1>1
  <1>2. CASE r = <<>>
    BY <1>2 DEF NoSelf, OneSelf
  <1>3. CASE q # <<>> /\ r = Tail(q)
    <2>1. \A i \in DOMAIN r : i \in Nat /\ i # 0 /\ i + 1 \in DOMAIN q /\ r[i] = q[i + 1]
      BY <1>3, TailFacts
    <2>2. Head(q) = q[1] /\ 1 \in DOMAIN q
      BY <1>3, TailFacts
    <2>3. \A i \in DOMAIN r : SelfAt(r, i) => SelfAt(q, i + 1)
      BY <2>1 DEF SelfAt
    <2>4. NoSelf(q) => NoSelf(r)
      BY <2>1, <2>3 DEF NoSelf
    <2>5. ASSUME OneSelf(q), NEW i \in DOMAIN r, NEW j \in DOMAIN r, SelfAt(r, i), SelfAt(r, j)
          PROVE  i = j
      <3>1. i + 1 = j + 1
        BY <2>1, <2>3, <2>5 DEF OneSelf
      <3> QED BY <2>1, <3>1
    <2>6. ASSUME OneSelf(q), Head(q).type = "REPORT_SELF", NEW i \in DOMAIN r, SelfAt(r, i)
          PROVE  FALSE
      <3>1. SelfAt(q, 1) /\ SelfAt(q, i + 1)
        BY <2>2, <2>3, <2>6 DEF SelfAt
      <3>2. i + 1 = 1
        BY <2>1, <2>2, <2>6, <3>1 DEF OneSelf
      <3> QED BY <2>1, <3>2
    <2>7. OneSelf(q) => OneSelf(r)
      BY <2>5 DEF OneSelf
    <2>8. OneSelf(q) /\ Head(q).type = "REPORT_SELF" => NoSelf(r)
      BY <2>6 DEF NoSelf
    <2> QED BY <2>4, <2>7, <2>8
  <1> QED BY <1>1, <1>2, <1>3 DEF Shrinks

LEMMA AppendSelf ==
    ASSUME NEW q \in Seq(Packet), NEW p \in Packet
    PROVE  /\ NoSelf(q) => OneSelf(q \o <<p>>)
           /\ NoSelf(q) /\ p.type # "REPORT_SELF" => NoSelf(q \o <<p>>)
           /\ OneSelf(q) /\ p.type # "REPORT_SELF" => OneSelf(q \o <<p>>)
           /\ ~NoSelf(q \o <<p>>) => ~NoSelf(q) \/ p.type = "REPORT_SELF"
  <1> DEFINE s == q \o <<p>>
  <1>1. \A i \in DOMAIN s : \/ i \in DOMAIN q /\ s[i] = q[i]
                            \/ i = Len(q) + 1 /\ s[i] = p
    <2>1. <<p>> \in Seq(Packet) /\ DOMAIN <<p>> = {1} /\ <<p>>[1] = p
      OBVIOUS
    <2>2. \A i \in DOMAIN s :
                \/ i \in DOMAIN q /\ s[i] = q[i]
                \/ i - Len(q) \in DOMAIN <<p>> /\ i > Len(q) /\ s[i] = <<p>>[i - Len(q)]
      BY <2>1, ConcatFacts
    <2>3. DOMAIN s = 1 .. Len(q) + 1 /\ Len(q) \in Nat
      OBVIOUS
    <2> QED BY <2>1, <2>2, <2>3
  <1> HIDE DEF s
  <1>2. NoSelf(q) /\ p.type # "REPORT_SELF" => NoSelf(s)
    BY <1>1 DEF NoSelf, SelfAt
  <1>3. NoSelf(q) => OneSelf(s)
    BY <1>1 DEF NoSelf, OneSelf, SelfAt
  <1>4. OneSelf(q) /\ p.type # "REPORT_SELF" => OneSelf(s)
    BY <1>1 DEF OneSelf, SelfAt
  <1> QED BY <1>2, <1>3, <1>4 DEF s

-----------------------------------------------------------------------------
(* The streams after each kind of access *)

LEMMA LinkAt ==
    ASSUME NEW L \in Links, NEW a \in Dialer, NEW n \in Node
    PROVE  L[a][n] \in Stream /\ L[a][n].q \in Seq(Packet)
  <1>1. L[a][n] \in Stream
    BY DEF Links
  <1> QED BY <1>1 DEF Stream

LEMMA AfterShrinks ==
    ASSUME link \in Links, NEW x \in Dialer, NEW y \in Node, HasData(x, y)
    PROVE  /\ AllShrink(After(x, y), link)
           /\ After(x, y)[x][y].q # link[x][y].q
           /\ \A a \in Dialer, n \in Node :
                a # x \/ n # y => After(x, y)[a][n] = link[a][n]
  <1> DEFINE e == [link[x][y] EXCEPT !.q = Left(link[x][y].q)]
  <1>1. link[x][y] \in Stream /\ link[x][y].q \in Seq(Packet) /\ link[x][y].q # <<>>
    BY LinkAt DEF HasData
  <1>2. e.q = Left(link[x][y].q)
    BY <1>1 DEF Stream
  <1>3. After(x, y) = [link EXCEPT ![x][y] = e]
    BY DEF After
  <1>4. Left(link[x][y].q) \in {<<>>, Tail(link[x][y].q)}
    BY DEF Left
  <1>5. Tail(link[x][y].q) # link[x][y].q
    BY <1>1, TailFacts
  <1> HIDE DEF e
  <1>6. \A a \in Dialer, n \in Node :
          After(x, y)[a][n] = IF a = x /\ n = y THEN e ELSE link[a][n]
    BY <1>3 DEF Links
  <1> QED BY <1>1, <1>2, <1>4, <1>5, <1>6 DEF AllShrink, Shrinks

LEMMA SentGrows ==
    ASSUME NEW L \in Links, NEW x \in Dialer, NEW y, NEW pkts \in Seq(Packet),
           NEW a \in Dialer, NEW n \in Node
    PROVE  \/ Sent(L, x, y, pkts)[a][n].q = L[a][n].q
           \/ Sent(L, x, y, pkts)[a][n].q = <<>>
           \/ a = x /\ n = y /\ Sent(L, x, y, pkts)[a][n].q = L[x][y].q \o pkts
  <1> DEFINE e == IF L[x][y].st = "up" THEN Opened(L[x][y].q \o pkts)
                                      ELSE [st |-> "broken", q |-> <<>>]
  <1>1. e.q \in {<<>>, L[x][y].q \o pkts}
    BY DEF Opened
  <1>2. Sent(L, x, y, pkts) = [L EXCEPT ![x][y] = e]
    BY DEF Sent
  <1> HIDE DEF e
  <1>3. Sent(L, x, y, pkts)[a][n] = IF a = x /\ n = y THEN e ELSE L[a][n]
    BY <1>2 DEF Links
  <1> QED BY <1>1, <1>3

\* A write on a stream whose other changes are reads.
LEMMA ReadThenSent ==
    ASSUME NEW L \in Links, NEW K \in Links, AllShrink(K, L),
           NEW x \in Dialer, NEW y, NEW pkts \in Seq(Packet)
    PROVE  Grows(Sent(K, x, y, pkts), L, x, y, pkts)
  <1> SUFFICES ASSUME NEW a \in Dialer, NEW n \in Node
               PROVE  \/ Shrinks(Sent(K, x, y, pkts)[a][n].q, L[a][n].q)
                      \/ /\ a = x /\ n = y
                         /\ \E r \in Seq(Packet) : /\ Shrinks(r, L[x][y].q)
                                                   /\ Sent(K, x, y, pkts)[x][y].q = r \o pkts
    BY DEF Grows
  <1>1. Shrinks(K[a][n].q, L[a][n].q) /\ K[a][n].q \in Seq(Packet)
    BY LinkAt DEF AllShrink
  <1>2. \/ Sent(K, x, y, pkts)[a][n].q = K[a][n].q
        \/ Sent(K, x, y, pkts)[a][n].q = <<>>
        \/ a = x /\ n = y /\ Sent(K, x, y, pkts)[a][n].q = K[x][y].q \o pkts
    BY SentGrows
  <1> QED BY <1>1, <1>2 DEF Shrinks

LEMMA SameShrinks == \A L : AllShrink(L, L)
  BY DEF AllShrink, Shrinks

LEMMA DialGrows ==
    ASSUME NEW L \in Links, NEW K \in Links, AllShrink(K, L),
           NEW x \in Dialer, NEW y \in Node, NEW pkts \in Seq(Packet)
    PROVE  Grows([K EXCEPT ![x][y] = Opened(pkts)], L, x, y, pkts)
  <1> DEFINE e == Opened(pkts)
             J == [K EXCEPT ![x][y] = e]
  <1>2. e.q = <<>> \o pkts /\ <<>> \in Seq(Packet)
    BY DEF Opened
  <1> HIDE DEF e
  <1>1. \A a \in Dialer, n \in Node : J[a][n] = IF a = x /\ n = y THEN e ELSE K[a][n]
    BY DEF Links
  <1> HIDE DEF J
  <1>3. J[x][y].q = <<>> \o pkts /\ Shrinks(<<>>, L[x][y].q)
    BY <1>1, <1>2 DEF Shrinks
  <1>4. ASSUME NEW a \in Dialer, NEW n \in Node, a # x \/ n # y
        PROVE  Shrinks(J[a][n].q, L[a][n].q)
    BY <1>1, <1>4 DEF AllShrink
  <1>5. Grows(J, L, x, y, pkts)
    BY <1>2, <1>3, <1>4, Zenon DEF Grows
  <1> QED BY <1>5 DEF J, e

LEMMA ClosedShrinks ==
    ASSUME NEW L \in Links, NEW x \in Dialer, NEW y \in Node, NEW u
    PROVE  AllShrink([L EXCEPT ![x][y] = Closed(L[x][y], u)], L)
  <1> DEFINE e == Closed(L[x][y], u)
  <1>1. e.q = L[x][y].q \/ e.q = <<>>
    BY DEF Closed
  <1> HIDE DEF e
  <1>2. \A a \in Dialer, n \in Node :
          [L EXCEPT ![x][y] = e][a][n] = IF a = x /\ n = y THEN e ELSE L[a][n]
    BY DEF Links
  <1> QED BY <1>1, <1>2 DEF AllShrink, Shrinks, e

LEMMA SeveredShrinks ==
    ASSUME NEW L \in Links, NEW K \in Links, AllShrink(K, L), NEW y \in Node
    PROVE  AllShrink(Severed(K, y), L)
  <1> SUFFICES ASSUME NEW a \in Dialer, NEW n \in Node
               PROVE  Shrinks(Severed(K, y)[a][n].q, L[a][n].q)
    BY DEF AllShrink
  <1> DEFINE e == Closed(K[a][y], K[a][y].q # <<>> \/ a \in Pending(y))
  <1>1. e.q = K[a][y].q \/ e.q = <<>>
    BY DEF Closed
  <1>2. Severed(K, y)[a] = [K[a] EXCEPT ![y] = e]
    BY DEF Severed
  <1> HIDE DEF e
  <1>3. Severed(K, y)[a][n] = IF n = y THEN e ELSE K[a][n]
    BY <1>2 DEF Links
  <1>4. Shrinks(K[a][n].q, L[a][n].q)
    BY DEF AllShrink
  <1> QED BY <1>1, <1>3, <1>4 DEF Shrinks

-----------------------------------------------------------------------------
(* The inductive invariant *)

Fresh(n)   == state[n] \in {"BOOTING", "CONNECTING"}
Working(n) == state[n] \in {"IDLE", "RECEIVED_PACKET", "WAITING_NEW_PEER"}

\* n has not yet left the first election: it still has its command-line view of
\* the ring.  As long as node N lives nobody takes part in another one.
Novice(n) ==
    \/ Fresh(n)
    \/ state[n] \in ElectionStates /\ alive[N]
    \/ /\ state[n] \in {"BEGIN_OPERATION", "INDEX_PRESENT_ITSELF", "WAIT_INDEX_GOSSIP"}
       /\ index[n] = None

\* What dialer a may put into a stream.
Sayable(a, p) ==
    /\ p.type = "GOSSIP" => a \in Node /\ ~Fresh(p.index_id) /\ (alive[N] => p.index_id = N)
    /\ p.type = "PEER_DIED" => a \in Node /\ ~alive[p.peer_id] /\ ~Fresh(p.widow)
    /\ p.type = "REPORT_SELF" /\ alive[N] => a \in Reporter
Said(a) == {p \in Packet : Sayable(a, p)}
StreamsTrue == \A a \in Dialer, n \in Node : link[a][n].q \in Seq(Said(a))

\* Nobody but the backward neighbour and clients dials a node that is not up yet.
Listeners == \A n \in Node : Fresh(n) => backlog[n] \in Seq({Pred(n)} \cup Client)

WidowOK(n) == state[n] = "WAITING_NEW_PEER" => ~alive[Pred(n)]

IndexOK(n) ==
    /\ Fresh(n) => index[n] = None
    /\ index[n] \in Node => ~Fresh(index[n]) /\ (alive[N] => index[n] = N)
    /\ Working(n) => index[n] \in Node
    /\ state[n] = "REPORT_KNOWLEDGE_TO_INDEX" /\ index[n] \notin Node => pc[n] = "top"
    /\ state[n] = "BEGIN_OPERATION" /\ pc[n] # "top" => index[n] \in Node
    /\ index[n] = Bogus => state[n] = "REPORT_KNOWLEDGE_TO_INDEX"
    /\ state[n] = "INDEX_WAITING_PEERS_KNOWLEDGE" => index[n] = n
    /\ alive[N] =>
         /\ state[n] \in {"BEGIN_OPERATION", "INDEX_PRESENT_ITSELF", "WAIT_INDEX_GOSSIP"}
              => index[n] = None
         /\ state[n] = "REPORT_KNOWLEDGE_TO_INDEX" => n # N /\ index[n] # None
         /\ state[n] = "WAIT_INDEX_GOSSIP" => n # N

NoviceOK(n) ==
    Novice(n) =>
        /\ net_size[n] = N /\ peer_f_id[n] = Succ(n) /\ peer_f[n] \in {None, Succ(n)}
        /\ peer_b[n] \in {None, Pred(n)} \cup Client
        /\ state[n] \in {"INDEX_PRESENT_ITSELF", "INDEX_WAITING_PEERS_KNOWLEDGE"} => n = N

\* A live node whose backward peer is somebody else than its live neighbour took a
\* client for it at boot, and never comes into operation.
IntruderOK(n) ==
    alive[n] /\ alive[Pred(n)] /\ peer_b[n] \notin {None, Pred(n)} =>
        /\ peer_b[n] \in Client /\ ~Working(n)
        /\ n # N => index[n] \notin Node

NodeOK(n) == WidowOK(n) /\ IndexOK(n) /\ NoviceOK(n) /\ IntruderOK(n)

\* The fields of node m that these speak of.
Same(m) ==
    /\ state'[m] = state[m] /\ pc'[m] = pc[m] /\ index'[m] = index[m]
    /\ net_size'[m] = net_size[m] /\ peer_f_id'[m] = peer_f_id[m]
    /\ peer_f'[m] = peer_f[m] /\ peer_b'[m] = peer_b[m]
Ages == \A m \in Node : (alive'[m] => alive[m]) /\ (Fresh(m)' => Fresh(m))

-----------------------------------------------------------------------------
(* Ids *)

LEMMA IdsApart ==
    /\ N \in Node /\ Pred(1) = N /\ Pred(N) \in Node \ {N} /\ Succ(Pred(N)) = N
    /\ \A n \in Node : Pred(Succ(n)) = n /\ Succ(Pred(n)) = n
    /\ \A n \in Node : Pred(n) # n
    /\ Bogus \notin Node /\ None \notin Node /\ None # Bogus
    /\ Node \cap Client = {} /\ Node \cap Reporter = {} /\ Client \cap Reporter = {}
    /\ Dialer = Node \cup Client \cup Reporter
    /\ \A n \in Node : ReportOf(n) \in Reporter /\ NodeOf(ReportOf(n)) = n
    /\ \A a \in Reporter : NodeOf(a) \in Node /\ ReportOf(NodeOf(a)) = a
  <1>1. N \in Nat /\ N >= 2 /\ MaxClients \in Nat
    BY IdFacts
  <1>2. ASSUME NEW n \in Node
        PROVE  /\ Pred(n) = IF n = 1 THEN N ELSE n - 1
               /\ Succ(n) = IF n = N THEN 1 ELSE n + 1
    <2>1. n = 1 => (n - 2 + N) % N = N - 1
      BY <1>1
    <2>2. n # 1 => (n - 2 + N) % N = n - 2
      BY <1>1 DEF Node
    <2>3. n = N => n % N = 0
      BY <1>1
    <2>4. n # N => n % N = n
      BY <1>1 DEF Node
    <2> QED BY <1>1, <2>1, <2>2, <2>3, <2>4 DEF Node, Pred, Succ
  <1>3. 1 \in Node /\ N \in Node
    BY <1>1 DEF Node
  <1>4. Pred(1) = N /\ Pred(N) = N - 1 /\ N - 1 \in Node /\ N - 1 # N
    BY <1>1, <1>2, <1>3 DEF Node
  <1>5. \A n \in Node : Succ(n) \in Node /\ Pred(n) \in Node
    BY IdFacts
  <1>6. \A n \in Node : Pred(Succ(n)) = n /\ Succ(Pred(n)) = n /\ Pred(n) # n
    <2> SUFFICES ASSUME NEW n \in Node
                 PROVE  Pred(Succ(n)) = n /\ Succ(Pred(n)) = n /\ Pred(n) # n
      OBVIOUS
    <2>1. Pred(n) \in Node /\ Succ(n) \in Node
      BY <1>5
    <2>2. Pred(n) = (IF n = 1 THEN N ELSE n - 1) /\ Succ(n) = (IF n = N THEN 1 ELSE n + 1)
      BY <1>2
    <2>3. /\ Pred(Succ(n)) = (IF Succ(n) = 1 THEN N ELSE Succ(n) - 1)
          /\ Succ(Pred(n)) = (IF Pred(n) = N THEN 1 ELSE Pred(n) + 1)
      BY <1>2, <2>1
    <2> QED BY <1>1, <2>2, <2>3 DEF Node
  <1>7. Dialer = Node \cup Client \cup Reporter
    BY <1>1 DEF Dialer, Node, Client, Reporter
  <1>8. /\ Node \cap Client = {} /\ Node \cap Reporter = {} /\ Client \cap Reporter = {}
        /\ Bogus \notin Node /\ None \notin Node /\ None # Bogus
    BY <1>1 DEF Node, Client, Reporter, Bogus, None
  <1>9. /\ \A n \in Node : ReportOf(n) \in Reporter /\ NodeOf(ReportOf(n)) = n
        /\ \A a \in Reporter : NodeOf(a) \in Node /\ ReportOf(NodeOf(a)) = a
    BY <1>1 DEF Node, Reporter, ReportOf, NodeOf
  <1> QED BY <1>3, <1>4, <1>6, <1>7, <1>8, <1>9

LEMMA ReportApart ==
    ASSUME NEW m \in Node, NEW n \in Node
    PROVE  /\ m \in Dialer /\ ReportOf(n) \in Dialer /\ m # ReportOf(n)
           /\ ReportOf(m) = ReportOf(n) => m = n
  BY RingConstants DEF Node, ReportOf, Dialer

LEMMA GoneNode ==
    ASSUME NEW a \in Node PROVE Gone(a) <=> ~alive[a]
  BY IdsApart DEF Gone

\* The first packet of a stream.
LEMMA FirstSaid ==
    ASSUME StreamsTrue, NEW a \in Dialer, NEW n \in Node, HasData(a, n)
    PROVE  First(a, n) \in Packet /\ Sayable(a, First(a, n))
  <1>1. link[a][n].q \in Seq(Said(a)) /\ link[a][n].q # <<>>
    BY DEF StreamsTrue, HasData
  <1>2. Head(link[a][n].q) \in Said(a)
    BY <1>1, SeqTypes
  <1> QED BY <1>2 DEF First, Said

\* A node that does not move stays in order.
LEMMA NodeFrame ==
    ASSUME IInv, Ages, NEW m \in Node, Same(m), NodeOK(m)
    PROVE  NodeOK(m)'
  <1>1. index[m] \in Node \cup {None, Bogus}
    BY DEF IInv, TypeOK
  <1>2. N \in Node /\ Pred(m) \in Node
    BY IdFacts, IdsApart
  <1>3. WidowOK(m)'
    BY <1>2 DEF NodeOK, WidowOK, Same, Ages
  <1>4. IndexOK(m)'
    BY <1>1, <1>2 DEF NodeOK, IndexOK, Same, Ages, Fresh, Working
  <1>5. NoviceOK(m)'
    BY <1>2 DEF NodeOK, NoviceOK, Novice, Fresh, Same, Ages
  <1>6. IntruderOK(m)'
    BY <1>2 DEF NodeOK, IntruderOK, Working, Same, Ages
  <1> QED BY <1>3, <1>4, <1>5, <1>6 DEF NodeOK

-----------------------------------------------------------------------------
(* Every step leaves the node that takes it in order *)

\* What a step of n is shown to do to the nodes.
Orderly(n) == Ages /\ NodeOK(n)' /\ \A m \in Node \ {n} : Same(m)

\* Steps that do not touch the fields, or only where in its pass the node stands.
PcOnly(n) ==
    /\ \A m \in Node \ {n} : Same(m)
    /\ UNCHANGED <<alive, state, index, net_size, peer_f_id, peer_f, peer_b>>
    /\ pc'[n] # "top" => state[n] \notin {"BEGIN_OPERATION", "REPORT_KNOWLEDGE_TO_INDEX"}
                          \/ pc[n] # "top" \/ index[n] \in Node

LEMMA PcOnlyOrderly ==
    ASSUME IInv, NEW n \in Node, NodeOK(n), PcOnly(n)
    PROVE  Orderly(n)
  <1>1. Ages
    BY DEF PcOnly, Ages, Fresh
  <1>2. index[n] \in Node \cup {None, Bogus}
    BY DEF IInv, TypeOK
  <1>3. WidowOK(n)' /\ NoviceOK(n)' /\ IntruderOK(n)'
    BY DEF NodeOK, PcOnly, WidowOK, NoviceOK, Novice, Fresh, IntruderOK, Working
  <1>4. IndexOK(n)'
    BY <1>2 DEF NodeOK, PcOnly, IndexOK, Fresh, Working
  <1> QED BY <1>1, <1>3, <1>4 DEF Orderly, NodeOK, PcOnly

LEMMA BootOrderly ==
    ASSUME IInv, Listeners, NEW n \in Node, NodeOK(n),
           Boot(n) \/ Connecting(n) \/ BeginOperation(n)
    PROVE  Orderly(n)
  <1>0. TypeOK
    BY DEF IInv
  <1>1. N \in Node /\ Pred(n) \in Node /\ Succ(n) \in Node
    BY IdFacts, IdsApart
  <1>2. CASE Boot(n)
    <2>1. /\ state[n] = "BOOTING" /\ state'[n] = "CONNECTING"
          /\ UNCHANGED <<alive, index, net_size, peer_f_id, peer_f, peer_b>>
          /\ \A m \in Node \ {n} : Same(m)
      BY <1>0, <1>2 DEF Boot, At, Goto, TypeOK, Same
    <2>2. Ages
      BY <2>1 DEF Ages, Fresh, Same
    <2>3. NodeOK(n)'
      BY <2>1, IdsApart
         DEF NodeOK, WidowOK, IndexOK, NoviceOK, Novice, IntruderOK, Fresh, Working, ElectionStates
    <2> QED BY <2>1, <2>2, <2>3 DEF Orderly
  <1>3. CASE Connecting(n)
    <2>1. /\ state[n] = "CONNECTING" /\ state'[n] \in {"CONNECTING", "BEGIN_OPERATION"}
          /\ pc[n] = "top" /\ pc' = pc
          /\ UNCHANGED <<alive, index, net_size, peer_f_id>>
          /\ peer_f'[n] \in {peer_f[n], Succ(n)}
          /\ peer_b'[n] = peer_b[n] \/ (peer_b[n] = None /\ backlog[n] # <<>> /\ peer_b'[n] = Head(backlog[n]))
          /\ \A m \in Node \ {n} : Same(m)
      BY <1>0, <1>3 DEF Connecting, At, TypeOK, Same
    <2>2. Ages
      BY <2>1 DEF Ages, Fresh, Same
    <2>3. backlog[n] # <<>> => Head(backlog[n]) \in {Pred(n)} \cup Client
      <3>1. backlog[n] \in Seq({Pred(n)} \cup Client)
        BY <2>1 DEF Listeners, Fresh
      <3> QED BY <3>1, SeqTypes
    <2>4. WidowOK(n)' /\ IndexOK(n)'
      BY <2>1, IdsApart DEF NodeOK, WidowOK, IndexOK, Fresh, Working
    <2>5. NoviceOK(n)'
      BY <2>1, <2>3 DEF NodeOK, NoviceOK, Novice, Fresh
    <2>6. IntruderOK(n)'
      BY <2>1, <2>3, IdsApart DEF NodeOK, IndexOK, NoviceOK, Novice, IntruderOK, Fresh, Working
    <2> QED BY <2>1, <2>2, <2>4, <2>5, <2>6 DEF Orderly, NodeOK
  <1>4. CASE BeginOperation(n)
    <2>1. /\ state[n] = "BEGIN_OPERATION" /\ pc[n] = "top"
          /\ state'[n] = (IF net_size[n] = n THEN "INDEX_PRESENT_ITSELF" ELSE "WAIT_INDEX_GOSSIP")
          /\ UNCHANGED <<alive, index, net_size, peer_f_id, peer_f, peer_b>>
          /\ \A m \in Node \ {n} : Same(m)
      BY <1>0, <1>4 DEF BeginOperation, At, Goto, TypeOK, Same
    <2>2. Ages
      BY <2>1 DEF Ages, Fresh, Same
    <2>3. WidowOK(n)' /\ IntruderOK(n)'
      BY <2>1 DEF NodeOK, WidowOK, IntruderOK, Working
    <2>4. NoviceOK(n)'
      BY <2>1 DEF NodeOK, NoviceOK, Novice, Fresh, ElectionStates
    <2>5. IndexOK(n)'
      BY <2>1, <2>2 DEF NodeOK, IndexOK, NoviceOK, Novice, Fresh, Working, ElectionStates, Ages
    <2> QED BY <2>1, <2>2, <2>3, <2>4, <2>5 DEF Orderly, NodeOK
  <1> QED BY <1>2, <1>3, <1>4

LEMMA GossipOrderly ==
    ASSUME IInv, StreamsTrue, NEW n \in Node, NodeOK(n),
           PresentItself(n) \/ WaitIndexGossip(n)
    PROVE  Orderly(n)
  <1>0. TypeOK /\ Coherent(state[n], pc[n], peer_f[n], peer_b[n], guest[n])
    BY DEF IInv
  <1>1. N \in Node /\ Pred(n) \in Node /\ Succ(n) \in Node
    BY IdFacts, IdsApart
  <1>2. CASE PresentItself(n)
    <2>1. /\ state[n] = "INDEX_PRESENT_ITSELF" /\ state'[n] = "INDEX_WAITING_PEERS_KNOWLEDGE"
          /\ index'[n] = n
          /\ UNCHANGED <<alive, net_size, peer_f_id, peer_f, peer_b>>
          /\ \A m \in Node \ {n} : Same(m)
      BY <1>0, <1>2 DEF PresentItself, At, Goto, TypeOK, Same
    <2>2. Ages
      BY <2>1 DEF Ages, Fresh, Same
    <2>3. index[n] \in Node \cup {None, Bogus}
      BY <1>0 DEF TypeOK
    <2>4. WidowOK(n)' /\ NoviceOK(n)'
      BY <2>1, IdsApart DEF NodeOK, WidowOK, NoviceOK, Novice, Fresh, ElectionStates
    <2>5. IndexOK(n)'
      BY <2>1, IdsApart DEF NodeOK, IndexOK, NoviceOK, Novice, Fresh, Working, ElectionStates
    <2>6. IntruderOK(n)'
      BY <2>1, <2>3 DEF NodeOK, IndexOK, NoviceOK, Novice, IntruderOK, Working
    <2> QED BY <2>1, <2>2, <2>4, <2>5, <2>6 DEF Orderly, NodeOK
  <1>3. CASE WaitIndexGossip(n)
    <2> DEFINE b == peer_b[n]
    <2>1. /\ state[n] = "WAIT_INDEX_GOSSIP" /\ state'[n] = "REPORT_KNOWLEDGE_TO_INDEX"
          /\ pc'[n] = "top" /\ index'[n] = GossipRead(n)
          /\ UNCHANGED <<alive, net_size, peer_f_id, peer_f, peer_b>>
          /\ \A m \in Node \ {n} : Same(m)
          /\ HasData(b, n) \/ ~GossipForwarded(n)
      BY <1>0, <1>3 DEF WaitIndexGossip, At, Goto, TypeOK, Same
    <2>2. Ages
      BY <2>1 DEF Ages, Fresh, Same
    <2>3. b \in Dialer
      BY <1>0, <2>1 DEF Coherent, ElectionStates, TypeOK
    <2>4. HasData(b, n) => First(b, n) \in Packet /\ Sayable(b, First(b, n))
      BY <2>3, FirstSaid
    <2>5. GossipRead(n) \in Node =>
            b \in Node /\ ~Fresh(GossipRead(n)) /\ (alive[N] => GossipRead(n) = N)
      BY <2>4, IdsApart DEF GossipRead, Sayable
    <2>6. GossipRead(n) = None => peer_f_id[n] = None
      <3>1. HasData(b, n) => GossipRead(n) # None
        BY <2>4, PacketFields, IdsApart DEF GossipRead
      <3> QED BY <2>1, <3>1 DEF GossipForwarded
    <2>7. GossipRead(n) \in Node \cup {None, Bogus}
      BY <2>4, PacketFields DEF GossipRead
    <2>8. WidowOK(n)' /\ NoviceOK(n)'
      BY <2>1 DEF NodeOK, WidowOK, NoviceOK, Novice, Fresh, ElectionStates
    <2>9. IndexOK(n)'
      <3>1. alive[N] => GossipRead(n) # None /\ n # N
        BY <1>1, <2>1, <2>6, IdsApart DEF NodeOK, NoviceOK, Novice, IndexOK, ElectionStates
      <3> QED BY <2>1, <2>2, <2>5, <2>7, <3>1, IdsApart DEF IndexOK, Fresh, Working, Ages
    <2>10. IntruderOK(n)'
      BY <2>1, <2>5, IdsApart DEF NodeOK, IntruderOK, Working
    <2> QED BY <2>1, <2>2, <2>8, <2>9, <2>10 DEF Orderly, NodeOK
  <1> QED BY <1>2, <1>3

LEMMA ReportOrderly ==
    ASSUME IInv, NEW n \in Node, NodeOK(n), alive' = alive,
           ReportDial(n) \/ ReportSelf(n) \/ ReportEnd(n)
    PROVE  Orderly(n)
  <1>0. TypeOK
    BY DEF IInv
  <1>1. CASE ReportDial(n)
    <2>1. index[n] \in Node
      BY <1>1 DEF ReportDial, Listening
    <2>2. PcOnly(n)
      BY <1>0, <1>1, <2>1 DEF ReportDial, PcOnly, Same, TypeOK
    <2> QED BY <2>2, PcOnlyOrderly
  <1>2. CASE ReportSelf(n)
    <2>1. pc[n] # "top"
      BY <1>2 DEF ReportSelf, At
    <2>2. PcOnly(n)
      BY <1>0, <1>2, <2>1 DEF ReportSelf, PcOnly, Same, TypeOK
    <2> QED BY <2>2, PcOnlyOrderly
  <1>3. CASE ReportEnd(n)
    <2>0. alive[n] /\ state[n] = "REPORT_KNOWLEDGE_TO_INDEX" /\ pc[n] = "reported"
      BY <1>3 DEF ReportEnd, At
    <2>e. ~SendKill(ReportOf(n), index[n])
      BY <1>0, <1>3, <2>0 DEF ReportEnd, Exit, TypeOK
    <2>1. /\ state'[n] = "IDLE" /\ pc'[n] = "top"
          /\ UNCHANGED <<alive, index, net_size, peer_f_id, peer_f, peer_b>>
          /\ \A m \in Node \ {n} : Same(m)
      BY <1>0, <1>3, <2>e DEF ReportEnd, Goto, TypeOK, Same
    <2>2. Ages
      BY <2>1 DEF Ages, Fresh, Same
    <2>3. index[n] \in Node
      BY <2>0 DEF NodeOK, IndexOK
    <2>4. WidowOK(n)' /\ NoviceOK(n)'
      BY <2>1, <2>3, IdsApart DEF NodeOK, WidowOK, NoviceOK, Novice, Fresh, ElectionStates
    <2>5. IndexOK(n)'
      BY <2>0, <2>1, <2>2, <2>3, IdsApart DEF NodeOK, IndexOK, Fresh, Working, Ages
    <2>6. IntruderOK(n)'
      BY <2>0, <2>1, <2>3 DEF NodeOK, IndexOK, IntruderOK
    <2> QED BY <2>1, <2>2, <2>4, <2>5, <2>6 DEF Orderly, NodeOK
  <1> QED BY <1>1, <1>2, <1>3

LEMMA AcceptOrderly ==
    ASSUME IInv, NEW n \in Node, NodeOK(n),
           \/ Accept(n) \/ Identify(n) \/ RejectGuest(n) \/ PollNothing(n) \/ DropFromPeerB(n)
    PROVE  Orderly(n)
  <1>0. TypeOK /\ Coherent(state[n], pc[n], peer_f[n], peer_b[n], guest[n])
    BY DEF IInv
  <1>1. CASE Accept(n)
    <2>1. state[n] \in {"INDEX_WAITING_PEERS_KNOWLEDGE", "IDLE"} \/ pc[n] = "poll"
      BY <1>1 DEF Accept, At, Polling
    <2>2. PcOnly(n)
      BY <1>0, <1>1, <2>1 DEF Accept, PcOnly, Same, TypeOK
    <2> QED BY <2>2, PcOnlyOrderly
  <1>2. CASE Identify(n)
    <2>1. pc[n] = "identify"
      BY <1>2 DEF Identify
    <2>2. PcOnly(n)
      BY <1>0, <1>2, <2>1 DEF Identify, PcOnly, Same, TypeOK
    <2> QED BY <2>2, PcOnlyOrderly
  <1>3. CASE RejectGuest(n)
    <2>2. PcOnly(n)
      BY <1>0, <1>3 DEF RejectGuest, PcOnly, Same, TypeOK
    <2> QED BY <2>2, PcOnlyOrderly
  <1>4. CASE PollNothing(n)
    <2>2. PcOnly(n)
      BY <1>0, <1>4 DEF PollNothing, PcOnly, Same, TypeOK
    <2> QED BY <2>2, PcOnlyOrderly
  <1>5. CASE DropFromPeerB(n)
    <2>1. state[n] = "IDLE"
      BY <1>5 DEF DropFromPeerB, At
    <2>2. PcOnly(n)
      BY <1>0, <1>5, <2>1 DEF DropFromPeerB, PcOnly, Same, TypeOK
    <2> QED BY <2>2, PcOnlyOrderly
  <1> QED BY <1>1, <1>2, <1>3, <1>4, <1>5

\* The packet that ends a session of the last reporter puts the index into
\* operation: then every other node has reported (SessionCounts of
\* RingFormationProofs).
LEMMA SessionOrderly ==
    ASSUME IInv, NEW n \in Node, NodeOK(n), Session(n),
           n = N /\ AllReported(n) => peer_b[N] = Pred(N) \/ ~alive[Pred(N)]
    PROVE  Orderly(n)
  <1>0. TypeOK /\ Coherent(state[n], pc[n], peer_f[n], peer_b[n], guest[n])
    BY DEF IInv
  <1>1. /\ state[n] = "INDEX_WAITING_PEERS_KNOWLEDGE" /\ alive[n]
        /\ UNCHANGED <<alive, index, net_size, peer_f_id, peer_f, peer_b>>
        /\ \A m \in Node \ {n} : Same(m)
        /\ \/ state'[n] = state[n]
           \/ state'[n] = "IDLE" /\ pc'[n] = "top" /\ AllReported(n)
    BY <1>0 DEF Session, At, Goto, TypeOK, Same
  <1>2. Ages
    BY <1>1 DEF Ages, Fresh, Same
  <1>3. index[n] = n
    BY <1>1 DEF NodeOK, IndexOK
  <1>4. WidowOK(n)' /\ NoviceOK(n)'
    BY <1>1, <1>3, IdsApart DEF NodeOK, WidowOK, NoviceOK, Novice, Fresh, ElectionStates
  <1>5. IndexOK(n)'
    BY <1>1, <1>2, <1>3, IdsApart DEF NodeOK, IndexOK, Fresh, Working, Ages
  <1>6. IntruderOK(n)'
    BY <1>1, <1>3 DEF NodeOK, IntruderOK, Working
  <1> QED BY <1>1, <1>2, <1>4, <1>5, <1>6 DEF Orderly, NodeOK

LEMMA ServeOrderly ==
    ASSUME IInv, NEW n \in Node, NodeOK(n), Receive(n) \/ PollClient(n) \/ Serve(n)
    PROVE  Orderly(n)
  <1>0. TypeOK /\ Coherent(state[n], pc[n], peer_f[n], peer_b[n], guest[n])
    BY DEF IInv
  <1>1. /\ alive[n]
        /\ \/ state[n] = "RECEIVED_PACKET" /\ pc[n] = "top"
           \/ state[n] = "IDLE"
           \/ /\ pc[n] \in {"poll", "receive"}
              /\ state[n] \in {"IDLE", "WAITING_NEW_PEER", "BEGIN_OPERATION"}
    BY <1>0 DEF Receive, PollClient, Serve, At, Polling, Coherent
  <1>2. /\ UNCHANGED <<alive, index, net_size, peer_f_id, peer_f, peer_b>>
        /\ \A m \in Node \ {n} : Same(m)
        /\ state'[n] \in {state[n], "RECEIVED_PACKET", "IDLE"} /\ pc'[n] = "top"
    <2>1. CASE Receive(n)
      BY <1>0, <2>1 DEF Receive, Goto, TypeOK, Same
    <2>2. CASE PollClient(n)
      BY <1>0, <2>2 DEF PollClient, Goto, TypeOK, Same
    <2>3. CASE Serve(n)
      BY <1>0, <2>3 DEF Serve, Goto, TypeOK, Same
    <2> QED BY <2>1, <2>2, <2>3
  <1>3. Ages
    BY <1>1, <1>2 DEF Ages, Fresh, Same
  <1>4. index[n] \in Node
    BY <1>1 DEF NodeOK, IndexOK, Working
  <1>5. n # N \/ state[n] # "BEGIN_OPERATION"
    BY <1>1, <1>4, IdsApart DEF NodeOK, IndexOK
  <1>6. WidowOK(n)' /\ NoviceOK(n)'
    BY <1>1, <1>2, <1>4, IdsApart DEF NodeOK, WidowOK, NoviceOK, Novice, Fresh, ElectionStates
  <1>7. IndexOK(n)'
    BY <1>1, <1>2, <1>3, <1>4, IdsApart DEF NodeOK, IndexOK, Fresh, Working, Ages
  <1>8. IntruderOK(n)'
    BY <1>1, <1>2, <1>4, <1>5 DEF NodeOK, IntruderOK, Working
  <1> QED BY <1>2, <1>3, <1>6, <1>7, <1>8 DEF Orderly, NodeOK

\* The node that finds its backward stream at its end is right about the death.
LEMMA DetectsADeath ==
    ASSUME IInv, NEW n \in Node, NodeOK(n), state[n] = "IDLE", alive[n],
           peer_b[n] # None, Eof(peer_b[n], n)
    PROVE  ~alive[Pred(n)]
  <1>1. Pred(n) \in Node
    BY IdFacts
  <1>2. peer_b[n] = Pred(n) \/ ~alive[Pred(n)]
    BY DEF NodeOK, IntruderOK, Working
  <1> QED BY <1>1, <1>2, GoneNode DEF Eof

LEMMA HealthCheckOrderly ==
    ASSUME IInv, NEW n \in Node, NodeOK(n), HealthCheck(n), alive' = alive
    PROVE  Orderly(n) /\ ~alive[Pred(n)]
  <1>0. TypeOK
    BY DEF IInv
  <1>1. state[n] = "IDLE" /\ alive[n] /\ peer_b[n] # None /\ Eof(peer_b[n], n)
    BY DEF HealthCheck, At
  <1>2. ~alive[Pred(n)]
    BY <1>1, DetectsADeath
  <1>3. ~SendKill(n, peer_f[n])
    BY <1>0, <1>1 DEF HealthCheck, Exit, TypeOK
  <1>4. /\ state'[n] = "WAITING_NEW_PEER"
        /\ UNCHANGED <<alive, index, peer_f_id, peer_f>>
        /\ \A m \in Node \ {n} : Same(m)
    BY <1>0, <1>3 DEF HealthCheck, Goto, TypeOK, Same
  <1>5. Ages
    BY <1>4 DEF Ages, Fresh, Same
  <1>6. WidowOK(n)' /\ NoviceOK(n)' /\ IntruderOK(n)'
    BY <1>2, <1>4 DEF NodeOK, WidowOK, NoviceOK, Novice, IntruderOK, Fresh, ElectionStates
  <1>7. IndexOK(n)'
    BY <1>1, <1>4, <1>5, IdsApart DEF NodeOK, IndexOK, Fresh, Working, Ages
  <1> QED BY <1>2, <1>4, <1>5, <1>6, <1>7 DEF Orderly, NodeOK

\* A node that hears of a death holds another election only when its index is dead.
LEMMA NoticeOrderly ==
    ASSUME IInv, StreamsTrue, NEW n \in Node, NodeOK(n),
           AdoptWidow(n) \/ ForwardDeath(n), alive' = alive
    PROVE  /\ Orderly(n) /\ alive[n] /\ state[n] = "IDLE"
           /\ Bury(n, First(peer_b[n], n).peer_id)
           /\ peer_b[n] \in Dialer /\ HasData(peer_b[n], n)
           /\ First(peer_b[n], n) \in Packet /\ First(peer_b[n], n).type = "PEER_DIED"
           /\ Sayable(peer_b[n], First(peer_b[n], n))
           /\ ~(AdoptWidow(n) /\ Minus(net_size[n], 1) = 0)
           /\ ~(ForwardDeath(n) /\ SendKill(n, peer_f[n]))
           /\ alive[N] => state'[n] = "IDLE"
  <1> DEFINE p == First(peer_b[n], n)
  <1>0. TypeOK
    BY DEF IInv
  <1>1. /\ state[n] = "IDLE" /\ alive[n] /\ peer_b[n] # None /\ HasData(peer_b[n], n)
        /\ p.type = "PEER_DIED"
    BY DEF AdoptWidow, ForwardDeath, HearsOfDeath, At
  <1>2. peer_b[n] \in Dialer
    BY <1>0, <1>1 DEF TypeOK
  <1>3. p \in Packet /\ Sayable(peer_b[n], p)
    BY <1>1, <1>2, FirstSaid
  <1>4. p.peer_id \in Node /\ ~alive[p.peer_id]
    BY <1>1, <1>3, PacketFields DEF Sayable
  <1> HIDE DEF p
  <1>5. /\ ~(AdoptWidow(n) /\ Minus(net_size[n], 1) = 0)
        /\ ~(ForwardDeath(n) /\ SendKill(n, peer_f[n]))
    BY <1>0, <1>1 DEF AdoptWidow, ForwardDeath, Exit, TypeOK
  <1>6. Bury(n, p.peer_id) /\ index' = index /\ peer_b' = peer_b
        /\ \A m \in Node \ {n} : peer_f'[m] = peer_f[m] /\ peer_f_id'[m] = peer_f_id[m]
    BY <1>0, <1>5 DEF AdoptWidow, ForwardDeath, p, TypeOK
  <1>7. /\ state'[n] = IF index[n] # n /\ index[n] = p.peer_id THEN "BEGIN_OPERATION" ELSE "IDLE"
        /\ \A m \in Node \ {n} : Same(m)
    BY <1>0, <1>1, <1>6 DEF Bury, Goto, TypeOK, Same
  <1>8. Ages
    BY <1>1, <1>7 DEF Ages, Fresh, Same
  <1>9. index[n] \in Node /\ (alive[N] => state'[n] = "IDLE")
    BY <1>1, <1>4, <1>7 DEF NodeOK, IndexOK, Working
  <1>10. WidowOK(n)' /\ NoviceOK(n)'
    BY <1>6, <1>7, <1>9, IdsApart DEF NodeOK, WidowOK, NoviceOK, Novice, Fresh, ElectionStates
  <1>11. IndexOK(n)'
    BY <1>1, <1>6, <1>7, <1>8, <1>9, IdsApart DEF NodeOK, IndexOK, Fresh, Working, Ages
  <1>12. IntruderOK(n)'
    BY <1>1, <1>6 DEF NodeOK, IntruderOK, Working
  <1> QED BY <1>1, <1>2, <1>3, <1>5, <1>6, <1>7, <1>8, <1>9, <1>10, <1>11, <1>12
          DEF Orderly, NodeOK, p

LEMMA NewPeerOrderly ==
    ASSUME IInv, NEW n \in Node, NodeOK(n), WaitingNewPeer(n)
    PROVE  Orderly(n) /\ ~alive[Pred(n)]
  <1>0. TypeOK
    BY DEF IInv
  <1>1. /\ state[n] = "WAITING_NEW_PEER" /\ alive[n]
        /\ state'[n] = IF n = 1 THEN "BEGIN_OPERATION" ELSE "IDLE"
        /\ pc'[n] = "top"
        /\ UNCHANGED <<alive, index, net_size, peer_f_id, peer_f>>
        /\ \A m \in Node \ {n} : Same(m)
    BY <1>0 DEF WaitingNewPeer, At, Goto, TypeOK, Same
  <1>2. ~alive[Pred(n)] /\ index[n] \in Node
    BY <1>1 DEF NodeOK, WidowOK, IndexOK, Working
  <1>3. Ages
    BY <1>1 DEF Ages, Fresh, Same
  <1>4. WidowOK(n)' /\ NoviceOK(n)' /\ IntruderOK(n)'
    BY <1>1, <1>2, IdsApart DEF NodeOK, WidowOK, NoviceOK, Novice, IntruderOK, Fresh, ElectionStates
  <1>5. IndexOK(n)'
    BY <1>1, <1>2, <1>3, IdsApart DEF NodeOK, IndexOK, Fresh, Working, Ages
  <1> QED BY <1>1, <1>2, <1>3, <1>4, <1>5 DEF Orderly, NodeOK

-----------------------------------------------------------------------------
(* What each step writes into the streams *)

LEMMA QuietSteps ==
    ASSUME IInv, NEW n \in Node,
           \/ Boot(n) \/ BeginOperation(n) \/ Accept(n) \/ Identify(n) \/ RejectGuest(n)
           \/ Session(n) \/ Receive(n) \/ PollClient(n) \/ PollNothing(n) \/ Serve(n)
           \/ DropFromPeerB(n) \/ WaitingNewPeer(n)
    PROVE  AllShrink(link', link)
  <1>0. TypeOK /\ link \in Links /\ Coherent(state[n], pc[n], peer_f[n], peer_b[n], guest[n])
    BY DEF IInv, TypeOK, Links
  <1>1. CASE Boot(n) \/ BeginOperation(n) \/ Accept(n) \/ PollNothing(n) \/ Serve(n) \/ WaitingNewPeer(n)
    <2>1. link' = link
      BY <1>1 DEF Boot, BeginOperation, Accept, PollNothing, Serve, WaitingNewPeer
    <2> QED BY <2>1, SameShrinks
  <1>2. CASE Identify(n)
    <2>1. guest[n] \in Dialer /\ HasData(guest[n], n) /\ link' = After(guest[n], n)
      BY <1>0, <1>2 DEF Identify, Presented, Coherent, TypeOK
    <2> QED BY <1>0, <2>1, AfterShrinks
  <1>3. CASE RejectGuest(n)
    <2>1. guest[n] \in Dialer
      BY <1>0, <1>3 DEF RejectGuest, Coherent, TypeOK
    <2>2. PICK u : link' = [link EXCEPT ![guest[n]][n] = Closed(link[guest[n]][n], u)]
      BY <1>3 DEF RejectGuest
    <2>3. AllShrink([link EXCEPT ![guest[n]][n] = Closed(link[guest[n]][n], u)], link)
      BY <1>0, <2>1, ClosedShrinks
    <2> QED BY <2>2, <2>3
  <1>4. CASE Session(n)
    <2>1. guest[n] \in Dialer /\ HasData(guest[n], n)
      BY <1>0, <1>4 DEF Session, At, Coherent, TypeOK
    <2>2. \/ link' = After(guest[n], n)
          \/ \E u : link' = [link EXCEPT ![guest[n]][n] = Closed(link[guest[n]][n], u)]
      BY <1>4 DEF Session
    <2>3. \A u : AllShrink([link EXCEPT ![guest[n]][n] = Closed(link[guest[n]][n], u)], link)
      BY <1>0, <2>1, ClosedShrinks
    <2>4. AllShrink(After(guest[n], n), link)
      BY <1>0, <2>1, AfterShrinks
    <2> QED BY <2>2, <2>3, <2>4
  <1>5. CASE Receive(n)
    <2>1. guest[n] \in Dialer
      BY <1>0, <1>5 DEF Receive, Coherent, TypeOK
    <2>2. link' = link \/ (HasData(guest[n], n) /\ link' = After(guest[n], n))
      BY <1>5 DEF Receive
    <2> QED BY <1>0, <2>1, <2>2, AfterShrinks, SameShrinks
  <1>6. CASE PollClient(n)
    <2>1. client_fd[n] \in Dialer
      BY <1>0, <1>6, IdFacts DEF PollClient, ClientReady, TypeOK
    <2>2. link' = link \/ (HasData(client_fd[n], n) /\ link' = After(client_fd[n], n))
      BY <1>6 DEF PollClient
    <2> QED BY <1>0, <2>1, <2>2, AfterShrinks, SameShrinks
  <1>7. CASE DropFromPeerB(n)
    <2>1. peer_b[n] \in Dialer /\ HasData(peer_b[n], n) /\ link' = After(peer_b[n], n)
      BY <1>0, <1>7 DEF DropFromPeerB, TypeOK
    <2> QED BY <1>0, <2>1, AfterShrinks
  <1> QED BY <1>1, <1>2, <1>3, <1>4, <1>5, <1>6, <1>7

LEMMA ExitShrinks ==
    ASSUME link \in Links, NEW n \in Node, NEW K \in Links, AllShrink(K, link), Exit(n, K)
    PROVE  AllShrink(link', link)
  BY SeveredShrinks DEF Exit

\* AllShrink is the case of Grows in which nothing is written.
LEMMA ShrinkGrows ==
    ASSUME NEW K, NEW L, AllShrink(K, L), NEW x, NEW y, NEW pkts
    PROVE  Grows(K, L, x, y, pkts)
  BY DEF Grows, AllShrink

LEMMA SingleSeq == \A S : \A p \in S : <<p>> \in Seq(S)
  OBVIOUS

LEMMA ConnectingWrites ==
    ASSUME IInv, NEW n \in Node, Connecting(n)
    PROVE  Grows(link', link, n, Succ(n), <<>>)
  <1>1. link \in Links /\ n \in Dialer /\ Succ(n) \in Node
    BY IdFacts DEF IInv, TypeOK, Links
  <1>2. link' = link \/ link' = [link EXCEPT ![n][Succ(n)] = Opened(<<>>)]
    BY DEF Connecting
  <1>3. Grows([link EXCEPT ![n][Succ(n)] = Opened(<<>>)], link, n, Succ(n), <<>>)
    BY <1>1, DialGrows, SameShrinks, EmptySeq
  <1>4. Grows(link, link, n, Succ(n), <<>>)
    BY ShrinkGrows, SameShrinks
  <1> QED BY <1>2, <1>3, <1>4

LEMMA PresentWrites ==
    ASSUME IInv, NEW n \in Node, PresentItself(n)
    PROVE  Grows(link', link, n, peer_f[n], <<Gossip(n)>>)
  <1>1. link \in Links /\ n \in Dialer
    BY IdFacts DEF IInv, TypeOK, Links
  <1>2. <<Gossip(n)>> \in Seq(Packet)
    BY PacketTypes
  <1>3. link' = Sent(link, n, peer_f[n], <<Gossip(n)>>)
    BY DEF PresentItself
  <1> QED BY <1>1, <1>2, <1>3, ReadThenSent, SameShrinks

LEMMA WaitGossipWrites ==
    ASSUME IInv, NEW n \in Node, WaitIndexGossip(n)
    PROVE  \/ AllShrink(link', link) /\ ~GossipForwarded(n)
           \/ /\ GossipForwarded(n) /\ HasData(peer_b[n], n)
              /\ Grows(link', link, n, peer_f[n], Taken(link[peer_b[n]][n].q))
  <1> DEFINE b == peer_b[n]
             L == IF HasData(b, n) THEN After(b, n) ELSE link
  <1>0. TypeOK /\ link \in Links /\ Coherent(state[n], pc[n], peer_f[n], peer_b[n], guest[n])
    BY DEF IInv, TypeOK, Links
  <1>1. b \in Dialer /\ n \in Dialer
    BY <1>0, IdFacts DEF WaitIndexGossip, At, Coherent, ElectionStates, TypeOK
  <1>2. L \in Links /\ AllShrink(L, link)
        /\ (HasData(b, n) => Taken(link[b][n].q) \in Seq(Packet))
    BY <1>0, <1>1, AfterType, AfterShrinks, SameShrinks
  <1>3. /\ HasData(b, n) \/ ~GossipForwarded(n)
        /\ link' = IF GossipForwarded(n) THEN Sent(L, n, peer_f[n], Taken(link[b][n].q)) ELSE L
    BY DEF WaitIndexGossip
  <1> HIDE DEF L
  <1>4. CASE GossipForwarded(n)
    <2>1. Grows(Sent(L, n, peer_f[n], Taken(link[b][n].q)), link, n, peer_f[n], Taken(link[b][n].q))
      BY <1>0, <1>1, <1>2, <1>3, <1>4, ReadThenSent
    <2> QED BY <1>3, <1>4, <2>1
  <1>5. CASE ~GossipForwarded(n)
    BY <1>2, <1>3, <1>5
  <1> QED BY <1>4, <1>5

LEMMA ReportWrites ==
    ASSUME IInv, NEW n \in Node, alive' = alive
    PROVE  /\ ReportDial(n) => Grows(link', link, ReportOf(n), index[n], <<Simple("PRESENT_ITSELF")>>)
           /\ ReportSelf(n) => Grows(link', link, ReportOf(n), index[n], <<Simple("REPORT_SELF")>>)
           /\ ReportEnd(n) => Grows(link', link, ReportOf(n), index[n], <<Simple("OK")>>)
  <1>0. TypeOK /\ link \in Links /\ ReportOf(n) \in Dialer
    BY IdFacts DEF IInv, TypeOK, Links
  <1>p. /\ <<Simple("PRESENT_ITSELF")>> \in Seq(Packet)
        /\ <<Simple("REPORT_SELF")>> \in Seq(Packet)
        /\ <<Simple("OK")>> \in Seq(Packet)
    BY PacketTypes
  <1>1. CASE ReportDial(n)
    <2>1. index[n] \in Node
      BY <1>1 DEF ReportDial, Listening
    <2>2. link' = [link EXCEPT ![ReportOf(n)][index[n]] = Opened(<<Simple("PRESENT_ITSELF")>>)]
      BY <1>1 DEF ReportDial
    <2>3. Grows(link', link, ReportOf(n), index[n], <<Simple("PRESENT_ITSELF")>>)
      BY <1>0, <1>p, <2>1, <2>2, DialGrows, SameShrinks
    <2> QED BY <1>1, <2>3 DEF ReportDial, ReportSelf, ReportEnd, At
  <1>2. CASE ReportSelf(n)
    <2>1. link' = link \/ link' = Sent(link, ReportOf(n), index[n], <<Simple("REPORT_SELF")>>)
      BY <1>2 DEF ReportSelf
    <2>2. Grows(link', link, ReportOf(n), index[n], <<Simple("REPORT_SELF")>>)
      BY <1>0, <1>p, <2>1, ReadThenSent, SameShrinks, ShrinkGrows
    <2> QED BY <1>2, <2>2 DEF ReportDial, ReportSelf, ReportEnd, At
  <1>3. CASE ReportEnd(n)
    <2>1. ~SendKill(ReportOf(n), index[n])
      BY <1>0, <1>3 DEF ReportEnd, At, Exit, TypeOK
    <2>2. link' = Sent(link, ReportOf(n), index[n], <<Simple("OK")>>)
      BY <1>3, <2>1 DEF ReportEnd
    <2>3. Grows(link', link, ReportOf(n), index[n], <<Simple("OK")>>)
      BY <1>0, <1>p, <2>2, ReadThenSent, SameShrinks
    <2> QED BY <1>3, <2>3 DEF ReportDial, ReportSelf, ReportEnd, At
  <1> QED BY <1>1, <1>2, <1>3

LEMMA HealthCheckWrites ==
    ASSUME IInv, NEW n \in Node, HealthCheck(n), alive' = alive
    PROVE  Grows(link', link, n, peer_f[n], <<Died(Pred(n), n)>>)
  <1>1. link \in Links /\ n \in Dialer /\ TypeOK
    BY IdFacts DEF IInv, TypeOK, Links
  <1>2. <<Died(Pred(n), n)>> \in Seq(Packet)
    BY PacketTypes, IdFacts
  <1>3. ~SendKill(n, peer_f[n])
    BY <1>1 DEF HealthCheck, At, Exit, TypeOK
  <1>4. link' = Sent(link, n, peer_f[n], <<Died(Pred(n), n)>>)
    BY <1>3 DEF HealthCheck
  <1> QED BY <1>1, <1>2, <1>4, ReadThenSent, SameShrinks

LEMMA NoticeWrites ==
    ASSUME IInv, NEW n \in Node, peer_b[n] \in Dialer, HasData(peer_b[n], n),
           First(peer_b[n], n).type = "PEER_DIED",
           ~(AdoptWidow(n) /\ Minus(net_size[n], 1) = 0),
           ~(ForwardDeath(n) /\ SendKill(n, peer_f[n]))
    PROVE  /\ AdoptWidow(n) => Grows(link', link, n, First(peer_b[n], n).widow, <<>>)
           /\ ForwardDeath(n) => Grows(link', link, n, peer_f[n], Taken(link[peer_b[n]][n].q))
  <1> DEFINE L == After(peer_b[n], n)
             p == First(peer_b[n], n)
  <1>1. link \in Links /\ n \in Dialer /\ TypeOK
    BY IdFacts DEF IInv, TypeOK, Links
  <1>2. L \in Links /\ AllShrink(L, link) /\ p \in Packet /\ Taken(link[peer_b[n]][n].q) \in Seq(Packet)
    BY <1>1, AfterType, AfterShrinks
  <1>3. p.widow \in Node
    BY <1>2, PacketFields
  <1> HIDE DEF L, p
  <1>4. ASSUME AdoptWidow(n) PROVE Grows(link', link, n, p.widow, <<>>)
    <2>1. link' = L \/ link' = [L EXCEPT ![n][p.widow] = Opened(<<>>)]
      BY <1>4 DEF AdoptWidow, L, p
    <2>2. Grows([L EXCEPT ![n][p.widow] = Opened(<<>>)], link, n, p.widow, <<>>)
      BY <1>1, <1>2, <1>3, DialGrows, EmptySeq
    <2>3. Grows(L, link, n, p.widow, <<>>)
      BY <1>2, ShrinkGrows
    <2> QED BY <2>1, <2>2, <2>3
  <1>5. ASSUME ForwardDeath(n) PROVE Grows(link', link, n, peer_f[n], Taken(link[peer_b[n]][n].q))
    <2>1. link' = Sent(L, n, peer_f[n], Taken(link[peer_b[n]][n].q))
      BY <1>5 DEF ForwardDeath, L
    <2> QED BY <1>1, <1>2, <2>1, ReadThenSent
  <1> QED BY <1>4, <1>5 DEF p

LEMMA ClientWrites ==
    ASSUME IInv, NEW c \in Client, NEW n \in Node
    PROVE  /\ ClientConnect(c, n) => Grows(link', link, c, n, <<Simple("PRESENT_ITSELF")>>)
           /\ ClientClose(c) => AllShrink(link', link)
  <1>1. link \in Links /\ c \in Dialer
    BY IdFacts DEF IInv, TypeOK, Links
  <1>2. <<Simple("PRESENT_ITSELF")>> \in Seq(Packet)
    BY PacketTypes
  <1>3. ClientConnect(c, n) => link' = [link EXCEPT ![c][n] = Opened(<<Simple("PRESENT_ITSELF")>>)]
    BY DEF ClientConnect
  <1>4. Grows([link EXCEPT ![c][n] = Opened(<<Simple("PRESENT_ITSELF")>>)], link, c, n,
              <<Simple("PRESENT_ITSELF")>>)
    BY <1>1, <1>2, DialGrows, SameShrinks
  <1>5. ClientClose(c) => link' = link
    BY DEF ClientClose
  <1> QED BY <1>3, <1>4, <1>5, SameShrinks

LEMMA RequestWrites ==
    ASSUME IInv, NEW c \in Client, ClientRequest(c)
    PROVE  \E n \in Node : Grows(link', link, c, n, <<Simple("REQUEST")>>)
  <1>1. link \in Links /\ c \in Dialer
    BY IdFacts DEF IInv, TypeOK, Links
  <1>2. <<Simple("REQUEST")>> \in Seq(Packet)
    BY PacketTypes
  <1>3. PICK n \in Node : link' = Sent(link, c, n, <<Simple("REQUEST")>>)
    BY DEF ClientRequest
  <1>4. Grows(Sent(link, c, n, <<Simple("REQUEST")>>), link, c, n, <<Simple("REQUEST")>>)
    BY <1>1, <1>2, ReadThenSent, SameShrinks
  <1> QED BY <1>3, <1>4

-----------------------------------------------------------------------------
(* Packets stay true and listeners stay closed to strangers *)

\* At most one dialer joins a listener, and the front of each may be taken.
Queues(x, y) ==
    \A m \in Node :
        \/ Shrinks(backlog'[m], backlog[m])
        \/ /\ m = y
           /\ \E r \in Seq(Dialer) : Shrinks(r, backlog[y]) /\ backlog'[y] = Append(r, x)

LEMMA SayableAges ==
    ASSUME Ages, NEW a, NEW p \in Packet, Sayable(a, p)
    PROVE  Sayable(a, p)'
  BY PacketFields, IdsApart DEF Ages, Sayable

LEMMA StreamsStep ==
    ASSUME IInv, StreamsTrue, Ages, NEW x \in Dialer, NEW y, NEW pkts,
           pkts \in Seq(Said(x)'), Grows(link', link, x, y, pkts)
    PROVE  StreamsTrue'
  <1>1. \A a : Said(a) \subseteq Said(a)'
    BY SayableAges DEF Said
  <1>2. ASSUME NEW a \in Dialer, NEW n \in Node, NEW r, Shrinks(r, link[a][n].q)
        PROVE  r \in Seq(Said(a)')
    <2>1. link[a][n].q \in Seq(Said(a))
      BY DEF StreamsTrue
    <2>2. r \in Seq(Said(a))
      BY <1>2, <2>1, ShrinksType
    <2> QED BY <1>1, <2>2, SeqMonotone
  <1>3. ASSUME NEW a \in Dialer, NEW n \in Node
        PROVE  link'[a][n].q \in Seq(Said(a)')
    <2>1. CASE Shrinks(link'[a][n].q, link[a][n].q)
      BY <1>2, <2>1
    <2>2. CASE /\ a = x /\ n = y
               /\ \E r \in Seq(Packet) : Shrinks(r, link[x][y].q) /\ link'[x][y].q = r \o pkts
      <3>1. PICK r : Shrinks(r, link[x][y].q) /\ link'[x][y].q = r \o pkts
        BY <2>2
      <3>2. r \in Seq(Said(x)')
        BY <1>2, <2>2, <3>1
      <3>3. r \o pkts \in Seq(Said(x)')
        BY <3>2, SeqTypes
      <3> QED BY <2>2, <3>1, <3>3
    <2> QED BY <2>1, <2>2 DEF Grows
  <1> QED BY <1>3 DEF StreamsTrue

LEMMA StreamsShrink ==
    ASSUME IInv, StreamsTrue, Ages, AllShrink(link', link)
    PROVE  StreamsTrue'
  <1>1. N \in Dialer
    BY IdFacts, IdsApart
  <1>2. Grows(link', link, N, N, <<>>)
    BY ShrinkGrows
  <1>3. <<>> \in Seq(Said(N)')
    BY EmptySeq
  <1> QED BY <1>1, <1>2, <1>3, StreamsStep

LEMMA ListenersStep ==
    ASSUME IInv, Listeners, Ages, NEW x \in Dialer, NEW y, Queues(x, y),
           y \in Node /\ Fresh(y)' => x \in {Pred(y)} \cup Client
    PROVE  Listeners'
  <1> SUFFICES ASSUME NEW m \in Node, Fresh(m)'
               PROVE  backlog'[m] \in Seq({Pred(m)} \cup Client)
    BY DEF Listeners
  <1>1. backlog[m] \in Seq({Pred(m)} \cup Client)
    BY DEF Listeners, Ages
  <1>2. CASE Shrinks(backlog'[m], backlog[m])
    BY <1>1, <1>2, ShrinksType
  <1>3. CASE m = y /\ \E r \in Seq(Dialer) : Shrinks(r, backlog[y]) /\ backlog'[y] = Append(r, x)
    <2>1. PICK r : Shrinks(r, backlog[m]) /\ backlog'[m] = Append(r, x)
      BY <1>3
    <2>2. r \in Seq({Pred(m)} \cup Client)
      BY <1>1, <2>1, ShrinksType
    <2>3. x \in {Pred(m)} \cup Client
      BY <1>3
    <2> QED BY <2>1, <2>2, <2>3, SeqTypes
  <1> QED BY <1>2, <1>3 DEF Queues

LEMMA ListenersShrink ==
    ASSUME IInv, Listeners, Ages, \A m \in Node : Shrinks(backlog'[m], backlog[m])
    PROVE  Listeners'
  <1>1. N \in Dialer /\ Queues(N, None)
    BY IdFacts, IdsApart DEF Queues
  <1> QED BY <1>1, IdsApart, ListenersStep

LEMMA BacklogShrinks ==
    ASSUME IInv, NEW n \in Node,
           backlog' = backlog \/ backlog' = [backlog EXCEPT ![n] = <<>>]
             \/ (backlog[n] # <<>> /\ backlog' = [backlog EXCEPT ![n] = Tail(@)])
    PROVE  \A m \in Node : Shrinks(backlog'[m], backlog[m])
  BY DEF Shrinks, IInv, TypeOK

LEMMA BacklogAppend ==
    ASSUME IInv, NEW x, NEW y \in Node,
           backlog' = [backlog EXCEPT ![y] = Append(@, x)]
    PROVE  Queues(x, y)
  <1>1. backlog \in [Node -> Seq(Dialer)]
    BY DEF IInv, TypeOK
  <1>2. Shrinks(backlog[y], backlog[y]) /\ backlog[y] \in Seq(Dialer)
        /\ backlog'[y] = Append(backlog[y], x)
    BY <1>1 DEF Shrinks
  <1>3. \A m \in Node \ {y} : Shrinks(backlog'[m], backlog[m])
    BY <1>1 DEF Shrinks
  <1> QED BY <1>2, <1>3 DEF Queues

\* The packets and the listeners after every step that ends no process.
Truthful == StreamsTrue' /\ Listeners'

LEMMA QuietTruthful ==
    ASSUME IInv, StreamsTrue, Listeners, Ages, NEW n \in Node,
           \/ Boot(n) \/ BeginOperation(n) \/ Accept(n) \/ Identify(n) \/ RejectGuest(n)
           \/ Session(n) \/ Receive(n) \/ PollClient(n) \/ PollNothing(n) \/ Serve(n)
           \/ DropFromPeerB(n) \/ WaitingNewPeer(n)
    PROVE  Truthful /\ \A m \in Node : Shrinks(backlog'[m], backlog[m])
  <1>1. StreamsTrue'
    BY QuietSteps, StreamsShrink
  <1>2. \/ backlog' = backlog
        \/ backlog[n] # <<>> /\ backlog' = [backlog EXCEPT ![n] = Tail(@)]
    BY DEF Boot, BeginOperation, Accept, Identify, RejectGuest, Session, Receive, PollClient,
           PollNothing, Serve, DropFromPeerB, WaitingNewPeer
  <1>3. \A m \in Node : Shrinks(backlog'[m], backlog[m])
    BY <1>2, BacklogShrinks
  <1> QED BY <1>1, <1>3, ListenersShrink DEF Truthful

LEMMA ConnectingQueues ==
    ASSUME IInv, NEW n \in Node, Connecting(n)
    PROVE  Queues(n, Succ(n))
  <1> DEFINE popped == IF peer_b[n] = None /\ backlog[n] # <<>>
                         THEN [backlog EXCEPT ![n] = Tail(@)] ELSE backlog
  <1>1. backlog \in [Node -> Seq(Dialer)] /\ Succ(n) \in Node
    BY IdFacts DEF IInv, TypeOK
  <1>2. /\ \A m \in Node : Shrinks(popped[m], backlog[m]) /\ popped[m] \in Seq(Dialer)
        /\ popped \in [Node -> Seq(Dialer)]
    BY <1>1, SeqTypes DEF Shrinks
  <1>3. backlog' = popped \/ backlog' = [popped EXCEPT ![Succ(n)] = Append(@, n)]
    BY DEF Connecting
  <1> HIDE DEF popped
  <1>4. \A m \in Node : \/ backlog'[m] = popped[m]
                        \/ m = Succ(n) /\ backlog'[m] = Append(popped[m], n)
    BY <1>1, <1>2, <1>3
  <1> QED BY <1>2, <1>4 DEF Queues

LEMMA ConnectingTruthful ==
    ASSUME IInv, StreamsTrue, Listeners, Ages, NEW n \in Node, Connecting(n)
    PROVE  Truthful
  <1>1. n \in Dialer /\ Succ(n) \in Node /\ Pred(Succ(n)) = n
    BY IdFacts, IdsApart
  <1>2. StreamsTrue'
    BY <1>1, ConnectingWrites, EmptySeq, StreamsStep
  <1> QED BY <1>1, <1>2, ConnectingQueues, ListenersStep DEF Truthful

LEMMA GossipTruthful ==
    ASSUME IInv, StreamsTrue, Listeners, Ages, NEW n \in Node, NodeOK(n), NodeOK(n)',
           PresentItself(n) \/ WaitIndexGossip(n)
    PROVE  Truthful
  <1>0. TypeOK /\ Coherent(state[n], pc[n], peer_f[n], peer_b[n], guest[n]) /\ n \in Dialer
    BY IdFacts DEF IInv
  <1>1. Listeners'
    <2>1. backlog' = backlog
      BY DEF PresentItself, WaitIndexGossip
    <2> QED BY <2>1, BacklogShrinks, ListenersShrink
  <1>2. CASE PresentItself(n)
    <2>1. index'[n] = n /\ state'[n] = "INDEX_WAITING_PEERS_KNOWLEDGE"
      BY <1>0, <1>2 DEF PresentItself, Goto, TypeOK
    <2>2. Gossip(n) \in Packet /\ Gossip(n).type = "GOSSIP" /\ Gossip(n).index_id = n
      BY PacketTypes DEF Gossip
    <2>3. Sayable(n, Gossip(n))'
      BY <2>1, <2>2 DEF Sayable, NodeOK, IndexOK
    <2>4. <<Gossip(n)>> \in Seq(Said(n)')
      BY <2>2, <2>3, SingleSeq DEF Said
    <2>5. StreamsTrue'
      BY <1>0, <1>2, <2>4, PresentWrites, StreamsStep
    <2> QED BY <1>1, <2>5 DEF Truthful
  <1>3. CASE WaitIndexGossip(n)
    <2> DEFINE b == peer_b[n]
    <2>1. CASE AllShrink(link', link)
      BY <1>1, <2>1, StreamsShrink DEF Truthful
    <2>2. CASE HasData(b, n) /\ Grows(link', link, n, peer_f[n], Taken(link[b][n].q))
      <3>1. state[n] = "WAIT_INDEX_GOSSIP" /\ b \in Dialer
        BY <1>0, <1>3 DEF WaitIndexGossip, At, Coherent, ElectionStates, TypeOK
      <3>2. alive[N] => b \notin Reporter
        <4>1. alive[N] => b \in {None, Pred(n)} \cup Client
          BY <3>1 DEF NodeOK, NoviceOK, Novice, ElectionStates
        <4>2. b # None /\ Pred(n) \in Node
          BY <3>1, IdFacts
        <4> QED BY <4>1, <4>2, IdsApart
      <3>3. Said(b) \subseteq Said(n)'
        <4> SUFFICES ASSUME NEW p \in Packet, Sayable(b, p) PROVE Sayable(n, p)'
          BY DEF Said
        <4>1. Sayable(n, p)
          BY <3>2 DEF Sayable
        <4> QED BY <4>1, SayableAges
      <3>4. link[b][n].q \in Seq(Said(b)) /\ link[b][n].q # <<>>
        BY <2>2, <3>1 DEF StreamsTrue, HasData
      <3>5. Taken(link[b][n].q) \in Seq(Said(b))
        BY <3>4, SeqTypes DEF Taken
      <3>6. Taken(link[b][n].q) \in Seq(Said(n)')
        BY <3>3, <3>5, SeqMonotone
      <3>7. StreamsTrue'
        BY <1>0, <2>2, <3>6, StreamsStep
      <3> QED BY <1>1, <3>7 DEF Truthful
    <2> QED BY <1>3, <2>1, <2>2, WaitGossipWrites
  <1> QED BY <1>2, <1>3

LEMMA SimpleSaid ==
    ASSUME NEW a, NEW t \in {"PRESENT_ITSELF", "OK", "REQUEST"}
    PROVE  <<Simple(t)>> \in Seq(Said(a)')
  <1>1. Simple(t) \in Packet /\ Simple(t).type = t
    BY PacketTypes DEF Simple
  <1>2. Simple(t) \in Said(a)'
    BY <1>1 DEF Said, Sayable
  <1> QED BY <1>2, SingleSeq

LEMMA ReportTruthful ==
    ASSUME IInv, StreamsTrue, Listeners, Ages, NEW n \in Node, NodeOK(n), alive' = alive,
           ReportDial(n) \/ ReportSelf(n) \/ ReportEnd(n)
    PROVE  Truthful
  <1>0. ReportOf(n) \in Dialer /\ ReportOf(n) \in Reporter /\ TypeOK
    BY IdFacts DEF IInv
  <1>1. CASE ReportDial(n)
    <2>1. StreamsTrue'
      BY <1>0, <1>1, SimpleSaid, ReportWrites, StreamsStep
    <2>2. PICK i \in Node : i = index[n]
      BY <1>1 DEF ReportDial, Listening
    <2>3. ~Fresh(i)'
      BY <2>2 DEF NodeOK, IndexOK, Ages
    <2>4. Queues(ReportOf(n), i)
      BY <1>1, <2>2, BacklogAppend DEF ReportDial
    <2> QED BY <1>0, <2>1, <2>2, <2>3, <2>4, ListenersStep DEF Truthful
  <1>2. CASE ReportSelf(n)
    <2>1. Simple("REPORT_SELF") \in Said(ReportOf(n))'
      <3>1. Simple("REPORT_SELF") \in Packet /\ Simple("REPORT_SELF").type = "REPORT_SELF"
        BY PacketTypes DEF Simple
      <3> QED BY <1>0, <3>1 DEF Said, Sayable
    <2>2. StreamsTrue'
      BY <1>0, <1>2, <2>1, SingleSeq, ReportWrites, StreamsStep
    <2>3. backlog' = backlog
      BY <1>2 DEF ReportSelf
    <2> QED BY <2>2, <2>3, BacklogShrinks, ListenersShrink DEF Truthful
  <1>3. CASE ReportEnd(n)
    <2>1. StreamsTrue'
      BY <1>0, <1>3, SimpleSaid, ReportWrites, StreamsStep
    <2>2. backlog' = backlog
      BY <1>0, <1>3 DEF ReportEnd, At, Exit, TypeOK
    <2> QED BY <2>1, <2>2, BacklogShrinks, ListenersShrink DEF Truthful
  <1> QED BY <1>1, <1>2, <1>3

LEMMA HealthCheckTruthful ==
    ASSUME IInv, StreamsTrue, Listeners, Ages, NEW n \in Node, NodeOK(n), alive' = alive,
           HealthCheck(n)
    PROVE  Truthful
  <1>0. TypeOK /\ n \in Dialer /\ Pred(n) \in Node
    BY IdFacts DEF IInv
  <1>1. /\ backlog' = backlog /\ state[n] = "IDLE"
    BY <1>0 DEF HealthCheck, At, Exit, TypeOK
  <1>2. ~alive[Pred(n)] /\ ~Fresh(n)'
    BY <1>1, HealthCheckOrderly DEF Ages, Fresh
  <1>3. /\ Died(Pred(n), n) \in Packet /\ Died(Pred(n), n).type = "PEER_DIED"
        /\ Died(Pred(n), n).peer_id = Pred(n) /\ Died(Pred(n), n).widow = n
    BY <1>0, PacketTypes DEF Died
  <1>4. Died(Pred(n), n) \in Said(n)'
    BY <1>2, <1>3 DEF Said, Sayable
  <1>5. StreamsTrue'
    BY <1>0, <1>4, SingleSeq, HealthCheckWrites, StreamsStep
  <1> QED BY <1>1, <1>5, BacklogShrinks, ListenersShrink DEF Truthful

LEMMA NoticeTruthful ==
    ASSUME IInv, StreamsTrue, Listeners, Ages, NEW n \in Node, NodeOK(n), alive' = alive,
           AdoptWidow(n) \/ ForwardDeath(n)
    PROVE  Truthful
  <1> DEFINE b == peer_b[n]
             p == First(peer_b[n], n)
  <1>0. n \in Dialer
    BY IdFacts
  <1>1. /\ b \in Dialer /\ HasData(b, n) /\ p \in Packet /\ p.type = "PEER_DIED" /\ Sayable(b, p)
        /\ ~(AdoptWidow(n) /\ Minus(net_size[n], 1) = 0)
        /\ ~(ForwardDeath(n) /\ SendKill(n, peer_f[n]))
    BY NoticeOrderly
  <1>2. b \in Node /\ p.widow \in Node /\ ~Fresh(p.widow)
    BY <1>1, PacketFields DEF Sayable
  <1>3. /\ AdoptWidow(n) => Grows(link', link, n, p.widow, <<>>)
        /\ ForwardDeath(n) => Grows(link', link, n, peer_f[n], Taken(link[b][n].q))
    BY <1>1, NoticeWrites
  <1> HIDE DEF p
  <1>4. CASE AdoptWidow(n)
    <2>1. StreamsTrue'
      BY <1>0, <1>3, <1>4, EmptySeq, StreamsStep
    <2>2. backlog' = backlog \/ backlog' = [backlog EXCEPT ![p.widow] = Append(@, n)]
      BY <1>1, <1>4 DEF AdoptWidow, p
    <2>3. CASE backlog' = backlog
      BY <2>1, <2>3, BacklogShrinks, ListenersShrink DEF Truthful
    <2>4. CASE backlog' = [backlog EXCEPT ![p.widow] = Append(@, n)]
      <3>1. PICK w \in Node : w = p.widow /\ ~Fresh(w)
        BY <1>2
      <3>2. Queues(n, w)
        BY <2>4, <3>1, BacklogAppend
      <3>3. ~Fresh(w)'
        BY <3>1 DEF Ages
      <3> QED BY <1>0, <2>1, <3>2, <3>3, ListenersStep DEF Truthful
    <2> QED BY <2>2, <2>3, <2>4
  <1>5. CASE ForwardDeath(n)
    <2>1. Said(b) \subseteq Said(n)'
      <3> SUFFICES ASSUME NEW r \in Packet, Sayable(b, r) PROVE Sayable(n, r)'
        BY DEF Said
      <3>1. Sayable(n, r)
        BY <1>2, IdsApart DEF Sayable
      <3> QED BY <3>1, SayableAges
    <2>2. link[b][n].q \in Seq(Said(b)) /\ link[b][n].q # <<>>
      BY <1>1 DEF StreamsTrue, HasData
    <2>3. Taken(link[b][n].q) \in Seq(Said(b))
      BY <2>2, SeqTypes DEF Taken
    <2>4. Taken(link[b][n].q) \in Seq(Said(n)')
      BY <2>1, <2>3, SeqMonotone
    <2>5. StreamsTrue'
      BY <1>0, <1>3, <1>5, <2>4, StreamsStep
    <2>6. backlog' = backlog
      BY <1>1, <1>5 DEF ForwardDeath
    <2> QED BY <2>5, <2>6, BacklogShrinks, ListenersShrink DEF Truthful
  <1> QED BY <1>4, <1>5

LEMMA ClientTruthful ==
    ASSUME IInv, StreamsTrue, Listeners, NEW c \in Client,
           ClientRequest(c) \/ ClientClose(c) \/ \E n \in Node : ClientConnect(c, n)
    PROVE  Truthful /\ Ages /\ \A m \in Node : Same(m)
  <1>0. c \in Dialer
    BY IdFacts
  <1>1. UNCHANGED <<alive, state, pc, net_size, peer_f_id, peer_f, peer_b, index>>
    BY DEF ClientRequest, ClientClose, ClientConnect
  <1>2. Ages /\ \A m \in Node : Same(m)
    BY <1>1 DEF Ages, Fresh, Same
  <1>3. CASE ClientRequest(c)
    <2>1. StreamsTrue'
      BY <1>0, <1>2, <1>3, RequestWrites, SimpleSaid, StreamsStep
    <2>2. backlog' = backlog
      BY <1>3 DEF ClientRequest
    <2> QED BY <1>2, <2>1, <2>2, IdsApart, BacklogShrinks, ListenersShrink DEF Truthful
  <1>4. CASE ClientClose(c)
    <2>1. link' = link /\ backlog' = backlog
      BY <1>4 DEF ClientClose
    <2>2. StreamsTrue'
      BY <1>2, <2>1, SameShrinks, StreamsShrink
    <2> QED BY <1>2, <2>1, <2>2, IdsApart, BacklogShrinks, ListenersShrink DEF Truthful
  <1>5. ASSUME NEW n \in Node, ClientConnect(c, n) PROVE Truthful
    <2>1. StreamsTrue'
      BY <1>0, <1>2, <1>5, ClientWrites, SimpleSaid, StreamsStep
    <2>2. Queues(c, n)
      BY <1>5, BacklogAppend DEF ClientConnect
    <2>3. Listeners'
      BY <1>0, <1>2, <2>2, ListenersStep
    <2> QED BY <2>1, <2>3 DEF Truthful
  <1> QED BY <1>2, <1>3, <1>4, <1>5

=============================================================================
