------------------------- MODULE RingFormationProofs -------------------------
(***************************************************************************)
(* The first ring, for every network size, any number of crashes (at any   *)
(* time) and clients, with and without coalescing: death notices are true, *)
(* a ring that comes into operation without a death is whole, and as long  *)
(* as node N lives it is the only index and knows all its followers.       *)
(*                                                                         *)
(* None of these is inductive.  A notice is true because the node that     *)
(* finds its backward stream at its end is joined to its real neighbour;   *)
(* it is, because a node whose first connection came from a client never   *)
(* comes into operation; and N does not, because it counts net_size - 1    *)
(* reports and that of its own neighbour never arrives: the neighbour's    *)
(* ring connection stands in the listener ahead of its report, and N waits *)
(* in vain for a presentation on it.  FInv says all of this at once.       *)
(*                                                                         *)
(* FirstLife adds that the announcement of N leads every queue it stands   *)
(* in, so that the node before N, which drops it by its first packet,      *)
(* never forwards it behind another one; and that N alone has a table.     *)
(*                                                                         *)
(* HInv adds that a notice is about the neighbour of its widow, so that    *)
(* the one notice a single death can cause leads to the next live node.    *)
(***************************************************************************)
EXTENDS RingProofs, FiniteSetTheorems

-----------------------------------------------------------------------------
(* The reports to node N, while it lives *)

HasReported(m) ==
    Working(m) \/ (state[m] = "REPORT_KNOWLEDGE_TO_INDEX" /\ pc[m] = "reported")

\* REPORT_SELF of m reaches node N once, after m was answered; before m knows of N
\* it has no report connection.
ReportOK(m) ==
    /\ HasReported(m) => ok[m]
    /\ ~HasReported(m) => m \notin peers[N] /\ NoSelf(link[ReportOf(m)][N].q)
    /\ m \in peers[N] => NoSelf(link[ReportOf(m)][N].q)
    /\ OneSelf(link[ReportOf(m)][N].q)
    /\ index[m] # N => /\ ~ok[m] /\ guest[N] # ReportOf(m)
                       /\ backlog[N] \in Seq(Dialer \ {ReportOf(m)})

\* Only node N is reported to.
CallersOK(n) == backlog[n] \in Seq(Node \cup Client) /\ guest[n] \notin Reporter

\* The index counts no more reports than it has addresses, and once it is in
\* operation it has the address of every live node.
TableOK ==
    /\ peers[N] \subseteq Node \ {N}
    /\ NoSelf(link[ReportOf(N)][N].q)
    /\ state[N] = "INDEX_WAITING_PEERS_KNOWLEDGE" => connected[N] <= Cardinality(peers[N])
    /\ Working(N) => \A m \in Node \ {N} : alive[m] => m \in peers[N]

ReportsOK ==
    alive[N] => /\ TableOK
                /\ \A m \in Node \ {N} : ReportOK(m) /\ CallersOK(m)

\* In the listener of N the ring connection of its neighbour is ahead of the
\* neighbour's report.
Ahead(b) == \E k \in DOMAIN b : /\ b[k] = Pred(N)
                                /\ \A j \in 1 .. k : b[j] # ReportOf(Pred(N))

\* While N has no backward peer yet, or has taken a client for it, its live
\* neighbour has not been answered: its ring connection is still to come, waits in
\* the listener ahead of its report, or is the guest that N waits for in vain.
Unanswered ==
    /\ ~ok[Pred(N)] /\ guest[N] # ReportOf(Pred(N))
    /\ \/ index[Pred(N)] = Bogus
       \/ /\ link[Pred(N)][N].q = <<>>
          /\ \/ peer_f[Pred(N)] = None
             \/ Ahead(backlog[N])
             \/ guest[N] = Pred(N) /\ pc[N] = "identify"
Intruded == peer_b[N] \in Client \/ (Fresh(N) /\ peer_b[N] = None)
QueueOK == alive[N] /\ alive[Pred(N)] /\ Intruded => Unanswered

\* Without a death every forward peer is the neighbour, and backward peers are kept.
WholeOK ==
    Dead = {} => \A n \in Node : /\ peer_f[n] \in {None, Succ(n)}
                                 /\ ~Fresh(n) => peer_b[n] # None

\* The inductive invariant.
FInv ==
    /\ IInv /\ StreamsTrue /\ Listeners /\ ReportsOK /\ QueueOK /\ WholeOK
    /\ \A n \in Node : NodeOK(n)

-----------------------------------------------------------------------------
(* What keeps the reports in order *)

\* A listener that one dialer may join.
LEMMA QueuesType ==
    ASSUME NEW x, NEW y, Queues(x, y), NEW m \in Node, NEW S, backlog[m] \in Seq(S),
           m = y => x \in S
    PROVE  backlog'[m] \in Seq(S)
  <1>1. CASE Shrinks(backlog'[m], backlog[m])
    BY <1>1, ShrinksType
  <1>2. CASE m = y /\ \E r \in Seq(Dialer) : Shrinks(r, backlog[y]) /\ backlog'[y] = Append(r, x)
    <2>1. PICK r : Shrinks(r, backlog[m]) /\ backlog'[m] = Append(r, x)
      BY <1>2
    <2>2. r \in Seq(S)
      BY <2>1, ShrinksType
    <2> QED BY <1>2, <2>1, <2>2, SeqTypes
  <1> QED BY <1>1, <1>2 DEF Queues

LEMMA AheadMoves ==
    ASSUME NEW b \in Seq(Dialer)
    PROVE  /\ Ahead(b) => \A x \in Dialer : Ahead(Append(b, x))
           /\ b \in Seq(Dialer \ {ReportOf(Pred(N))}) => Ahead(Append(b, Pred(N)))
           /\ Ahead(b) => /\ b # <<>> /\ Head(b) # ReportOf(Pred(N))
                          /\ Head(b) = Pred(N) \/ Ahead(Tail(b))
  <1> DEFINE l == Pred(N)
             r == ReportOf(Pred(N))
  <1>n. Pred(N) \in Node
    BY IdsApart
  <1>0. l \in Dialer /\ r \in Dialer /\ l # r
    BY <1>n, ReportApart
  <1>a. \A c : Ahead(c) <=> \E k \in DOMAIN c : c[k] = l /\ \A j \in 1 .. k : c[j] # r
    BY DEF Ahead
  <1> HIDE DEF l, r
  <1>1. ASSUME Ahead(b), NEW x \in Dialer PROVE Ahead(Append(b, x))
    <2>1. PICK k \in DOMAIN b : b[k] = l /\ \A j \in 1 .. k : b[j] # r
      BY <1>1, <1>a
    <2>2. k \in DOMAIN Append(b, x) /\ \A j \in 1 .. k : Append(b, x)[j] = b[j]
      OBVIOUS
    <2>3. Append(b, x)[k] = l
      BY <2>1, <2>2
    <2> QED BY <2>1, <2>2, <2>3, <1>a
  <1>2. ASSUME b \in Seq(Dialer \ {r}) PROVE Ahead(Append(b, l))
    <2> DEFINE k == Len(b) + 1
    <2>1. k \in DOMAIN Append(b, l) /\ Append(b, l)[k] = l
      BY <1>0, <1>2
    <2>2. ASSUME NEW j \in 1 .. k PROVE Append(b, l)[j] # r
      <3>1. CASE j = k
        BY <1>0, <2>1, <3>1
      <3>2. CASE j # k
        <4>1. j \in 1 .. Len(b)
          BY <3>2
        <4>2. Append(b, l)[j] = b[j] /\ b[j] \in Dialer \ {r}
          BY <1>2, <4>1
        <4> QED BY <4>2
      <3> QED BY <3>1, <3>2
    <2> QED BY <2>1, <2>2, <1>a
  <1>3. ASSUME Ahead(b) PROVE b # <<>> /\ Head(b) # r /\ (Head(b) = l \/ Ahead(Tail(b)))
    <2>1. PICK k \in DOMAIN b : b[k] = l /\ \A j \in 1 .. k : b[j] # r
      BY <1>3, <1>a
    <2>2. b # <<>> /\ k \in Nat \ {0} /\ k <= Len(b) /\ Head(b) = b[1]
      BY <2>1
    <2>3. Head(b) # r
      BY <2>1, <2>2
    <2>4. CASE k = 1
      BY <2>1, <2>2, <2>3, <2>4
    <2>5. CASE k # 1
      <3>1. k - 1 \in DOMAIN Tail(b) /\ \A j \in 1 .. k - 1 : Tail(b)[j] = b[j + 1]
        BY <2>2, <2>5
      <3>2. Tail(b)[k - 1] = l
        BY <2>1, <2>2, <2>5, <3>1
      <3>3. \A j \in 1 .. k - 1 : Tail(b)[j] # r
        BY <2>1, <2>2, <3>1
      <3>4. Ahead(Tail(b))
        BY <3>1, <3>2, <3>3, <1>a
      <3> QED BY <2>2, <2>3, <3>4
    <2> QED BY <2>4, <2>5
  <1> QED BY <1>1, <1>2, <1>3 DEF l, r

\* What a step may do to guests without a look at who they are.
Guests == \A m \in Node : \/ guest'[m] \in {guest[m], None}
                          \/ backlog[m] # <<>> /\ guest'[m] = Head(backlog[m])

\* What a step may do to the table of N.
Tabled ==
    /\ peers'[N] \subseteq peers[N]
    /\ state'[N] = "INDEX_WAITING_PEERS_KNOWLEDGE" =>
         \/ connected'[N] = 0
         \/ /\ state[N] = "INDEX_WAITING_PEERS_KNOWLEDGE"
            /\ connected'[N] = connected[N] /\ peers'[N] = peers[N]
    /\ Working(N)' => \A m \in Node \ {N} : alive'[m] => m \in peers'[N]

\* No node makes or loses its report.
Steady == \A m \in Node \ {N} : /\ HasReported(m)' <=> HasReported(m)
                                /\ index'[m] # N => index[m] # N

LEMMA CallersFrame ==
    ASSUME NEW m \in Node \ {N}, CallersOK(m), NEW x, NEW y, Queues(x, y),
           y = N \/ x \in Node \cup Client, Guests
    PROVE  CallersOK(m)'
  <1>1. backlog'[m] \in Seq(Node \cup Client)
    BY QueuesType DEF CallersOK
  <1>2. None \notin Reporter
    BY IdFacts
  <1>3. backlog[m] # <<>> => Head(backlog[m]) \notin Reporter
    <2>1. backlog[m] # <<>> => Head(backlog[m]) \in Node \cup Client
      BY SeqTypes DEF CallersOK
    <2> QED BY <2>1, IdsApart
  <1> QED BY <1>1, <1>2, <1>3 DEF CallersOK, Guests

LEMMA ReportFrame ==
    ASSUME link \in Links, NEW m \in Node \ {N}, ReportOK(m),
           Shrinks(link'[ReportOf(m)][N].q, link[ReportOf(m)][N].q),
           HasReported(m)' <=> HasReported(m), index'[m] # N => index[m] # N,
           ok[m] => ok'[m], index'[m] # N => ok'[m] = ok[m],
           m \in peers'[N] => m \in peers[N], Guests,
           NEW x, NEW y, Queues(x, y), y = N => x \in Dialer \ {ReportOf(m)}
    PROVE  ReportOK(m)'
  <1>0. ReportOf(m) \in Dialer /\ N \in Node /\ None # ReportOf(m)
    BY IdFacts, IdsApart
  <1>1. link[ReportOf(m)][N].q \in Seq(Packet)
    BY <1>0, LinkAt
  <1>2. /\ NoSelf(link[ReportOf(m)][N].q) => NoSelf(link'[ReportOf(m)][N].q)
        /\ OneSelf(link[ReportOf(m)][N].q) => OneSelf(link'[ReportOf(m)][N].q)
    BY <1>1, ShrinksSelf
  <1>3. backlog[N] \in Seq(Dialer \ {ReportOf(m)}) => backlog'[N] \in Seq(Dialer \ {ReportOf(m)})
    BY <1>0, QueuesType
  <1>4. index'[m] # N => guest'[N] # ReportOf(m)
    <2>1. index'[m] # N /\ backlog[N] # <<>> => Head(backlog[N]) # ReportOf(m)
      <3>1. index'[m] # N => backlog[N] \in Seq(Dialer \ {ReportOf(m)})
        BY DEF ReportOK
      <3> QED BY <3>1, SeqTypes
    <2> QED BY <1>0, <2>1 DEF Guests, ReportOK
  <1> QED BY <1>0, <1>2, <1>3, <1>4 DEF ReportOK

LEMMA TableFrame ==
    ASSUME link \in Links, TableOK, Tabled,
           Shrinks(link'[ReportOf(N)][N].q, link[ReportOf(N)][N].q)
    PROVE  TableOK'
  <1>0. ReportOf(N) \in Dialer /\ N \in Node
    BY IdFacts, IdsApart
  <1>1. NoSelf(link[ReportOf(N)][N].q) => NoSelf(link'[ReportOf(N)][N].q)
    BY <1>0, LinkAt, ShrinksSelf
  <1>2. peers'[N] \subseteq Node \ {N}
    BY DEF TableOK, Tabled
  <1>3. Cardinality(peers'[N]) \in Nat
    <2>1. IsFiniteSet(Node)
      BY IdFacts, FS_Interval DEF Node
    <2>2. IsFiniteSet(peers'[N])
      BY <1>2, <2>1, FS_Subset
    <2> QED BY <2>2, FS_CardinalityType
  <1>4. state'[N] = "INDEX_WAITING_PEERS_KNOWLEDGE" => connected'[N] <= Cardinality(peers'[N])
    BY <1>3 DEF TableOK, Tabled
  <1> QED BY <1>1, <1>2, <1>4 DEF TableOK, Tabled

LEMMA ReportsFrame ==
    ASSUME IInv, ReportsOK, alive[N], Steady, Tabled, Guests,
           \A m \in Node : Shrinks(link'[ReportOf(m)][N].q, link[ReportOf(m)][N].q),
           \A m \in Node \ {N} : (ok[m] => ok'[m]) /\ (index'[m] # N => ok'[m] = ok[m]),
           NEW x \in Node \cup Client, NEW y, Queues(x, y)
    PROVE  ReportsOK'
  <1>0. link \in Links /\ N \in Node
    BY IdsApart DEF IInv, TypeOK, Links
  <1>1. TableOK'
    BY <1>0, TableFrame DEF ReportsOK
  <1>2. ASSUME NEW m \in Node \ {N}
        PROVE  ReportOK(m)' /\ CallersOK(m)'
    <2>1. x \in Dialer \ {ReportOf(m)}
      BY IdsApart
    <2>2. ReportOK(m) /\ CallersOK(m)
      BY DEF ReportsOK
    <2>3. m \in peers'[N] => m \in peers[N]
      BY DEF Tabled
    <2>4. ReportOK(m)'
      BY <1>0, <2>1, <2>2, <2>3, ReportFrame DEF Steady
    <2> QED BY <2>2, <2>4, CallersFrame
  <1> QED BY <1>1, <1>2 DEF ReportsOK

\* Nodes and clients write into their own streams only.
LEMMA ReportsUntouched ==
    ASSUME NEW x \in Node \cup Client, NEW y, NEW pkts, Grows(link', link, x, y, pkts)
    PROVE  \A m \in Node : Shrinks(link'[ReportOf(m)][N].q, link[ReportOf(m)][N].q)
  <1> SUFFICES ASSUME NEW m \in Node
               PROVE  Shrinks(link'[ReportOf(m)][N].q, link[ReportOf(m)][N].q)
    OBVIOUS
  <1>1. ReportOf(m) \in Dialer /\ N \in Node /\ ReportOf(m) \in Reporter
    BY IdsApart, ReportApart
  <1>2. ReportOf(m) # x
    BY <1>1, IdsApart
  <1> QED BY <1>1, <1>2 DEF Grows

LEMMA NoQueue ==
    ASSUME \A m \in Node : Shrinks(backlog'[m], backlog[m])
    PROVE  N \in Node \cup Client /\ Queues(N, None)
  BY IdsApart DEF Queues

\* A step of n leaves the reports of the others alone.
LEMMA SteadyStep ==
    ASSUME NEW n \in Node, \A m \in Node \ {n} : Same(m),
           n # N => (HasReported(n)' <=> HasReported(n)) /\ (index'[n] # N => index[n] # N)
    PROVE  Steady
  <1> SUFFICES ASSUME NEW m \in Node \ {N}
               PROVE  (HasReported(m)' <=> HasReported(m)) /\ (index'[m] # N => index[m] # N)
    BY DEF Steady
  <1>1. CASE m = n
    BY <1>1
  <1>2. CASE m # n
    BY <1>2 DEF Same, HasReported, Working
  <1> QED BY <1>1, <1>2

LEMMA BootReports ==
    ASSUME IInv, ReportsOK, alive[N], NEW n \in Node, Orderly(n),
           Boot(n) \/ Connecting(n) \/ BeginOperation(n)
    PROVE  ReportsOK'
  <1>0. TypeOK /\ N \in Node
    BY IdsApart DEF IInv
  <1>1. /\ \A m \in Node \ {n} : Same(m)
        /\ UNCHANGED <<guest, index, connected, ok>>
        /\ state[n] \in {"BOOTING", "CONNECTING", "BEGIN_OPERATION"}
        /\ state'[n] \in {"CONNECTING", "BEGIN_OPERATION", "INDEX_PRESENT_ITSELF", "WAIT_INDEX_GOSSIP"}
        /\ peers'[N] = peers[N] \/ (n = N /\ peers'[N] = {})
    BY <1>0 DEF Orderly, Boot, Connecting, BeginOperation, At, Goto, TypeOK
  <1>2. Steady
    BY <1>1, SteadyStep DEF HasReported, Working
  <1>3. Tabled
    <2>1. CASE n = N
      BY <1>1, <2>1 DEF Tabled, Working
    <2>2. CASE n # N
      BY <1>0, <1>1, <2>2 DEF Tabled, Working, Same, ReportsOK, TableOK, Orderly, Ages
    <2> QED BY <2>1, <2>2
  <1>4. Guests
    BY <1>1 DEF Guests
  <1>5. \A m \in Node : Shrinks(link'[ReportOf(m)][N].q, link[ReportOf(m)][N].q)
    <2>1. CASE Connecting(n)
      BY <2>1, ConnectingWrites, ReportsUntouched
    <2>2. CASE Boot(n) \/ BeginOperation(n)
      BY <2>2 DEF Boot, BeginOperation, Shrinks
    <2> QED BY <2>1, <2>2
  <1>6. CASE Connecting(n)
    BY <1>1, <1>2, <1>3, <1>4, <1>5, <1>6, ConnectingQueues, ReportsFrame
  <1>7. CASE Boot(n) \/ BeginOperation(n)
    <2>1. \A m \in Node : Shrinks(backlog'[m], backlog[m])
      BY <1>7 DEF Boot, BeginOperation, Shrinks
    <2> QED BY <1>1, <1>2, <1>3, <1>4, <1>5, <2>1, NoQueue, ReportsFrame
  <1> QED BY <1>6, <1>7

LEMMA GossipReports ==
    ASSUME IInv, ReportsOK, alive[N], NEW n \in Node, NodeOK(n), Orderly(n),
           PresentItself(n) \/ WaitIndexGossip(n)
    PROVE  ReportsOK'
  <1>0. TypeOK /\ N \in Node
    BY IdsApart DEF IInv
  <1>1. /\ \A m \in Node \ {n} : Same(m)
        /\ UNCHANGED <<guest, peers, ok, backlog>>
    BY <1>0 DEF Orderly, PresentItself, WaitIndexGossip
  <1>2. \/ /\ n = N /\ state'[N] = "INDEX_WAITING_PEERS_KNOWLEDGE" /\ connected'[N] = 0
        \/ /\ n # N /\ index[n] # N /\ connected' = connected
           /\ state[n] = "WAIT_INDEX_GOSSIP"
           /\ state'[n] = "REPORT_KNOWLEDGE_TO_INDEX" /\ pc'[n] = "top"
    <2>1. CASE PresentItself(n)
      <3>1. n = N
        BY <2>1 DEF PresentItself, At, NodeOK, NoviceOK, Novice, ElectionStates
      <3> QED BY <1>0, <2>1, <3>1 DEF PresentItself, Goto, TypeOK
    <2>2. CASE WaitIndexGossip(n)
      <3>1. state[n] = "WAIT_INDEX_GOSSIP"
        BY <2>2 DEF WaitIndexGossip, At
      <3>2. n # N /\ index[n] = None
        BY <3>1 DEF NodeOK, IndexOK
      <3> QED BY <1>0, <2>2, <3>1, <3>2, IdsApart DEF WaitIndexGossip, Goto, TypeOK
    <2> QED BY <2>1, <2>2
  <1>3. Steady
    BY <1>1, <1>2, SteadyStep DEF HasReported, Working
  <1>4. Tabled
    <2>1. CASE n = N
      BY <1>1, <1>2, <2>1 DEF Tabled, Working
    <2>2. CASE n # N
      BY <1>0, <1>1, <1>2, <2>2 DEF Tabled, Working, Same, ReportsOK, TableOK, Orderly, Ages
    <2> QED BY <2>1, <2>2
  <1>5. Guests /\ \A m \in Node : Shrinks(backlog'[m], backlog[m])
    BY <1>1 DEF Guests, Shrinks
  <1>6. \A m \in Node : Shrinks(link'[ReportOf(m)][N].q, link[ReportOf(m)][N].q)
    BY PresentWrites, WaitGossipWrites, ShrinkGrows, ReportsUntouched
  <1> QED BY <1>1, <1>3, <1>4, <1>5, <1>6, NoQueue, ReportsFrame

\* Steps of a node in operation, and of the index that waits for reports.
QuietStep(n) ==
    \/ Accept(n) \/ Identify(n) \/ RejectGuest(n) \/ Receive(n) \/ PollClient(n)
    \/ PollNothing(n) \/ Serve(n) \/ DropFromPeerB(n) \/ WaitingNewPeer(n)

LEMMA QuietStates ==
    ASSUME IInv, alive[N], NEW n \in Node, NodeOK(n), QuietStep(n)
    PROVE  /\ Working(n) \/ state[n] = "INDEX_WAITING_PEERS_KNOWLEDGE"
           /\ \/ state'[n] = state[n]
              \/ Working(n) /\ state'[n] \in {"IDLE", "RECEIVED_PACKET"}
           /\ UNCHANGED <<index, peers, connected>>
  <1>0. TypeOK /\ Coherent(state[n], pc[n], peer_f[n], peer_b[n], guest[n])
    BY DEF IInv
  <1>a. state[n] = "BEGIN_OPERATION" => pc[n] = "top"
    BY IdsApart DEF NodeOK, IndexOK
  <1>1. CASE Accept(n)
    <2>1. state' = state /\ UNCHANGED <<index, peers, connected>>
      BY <1>1 DEF Accept
    <2>2. state[n] \in {"INDEX_WAITING_PEERS_KNOWLEDGE", "IDLE"} \/ pc[n] = "poll"
      BY <1>1 DEF Accept, At, Polling
    <2> QED BY <1>0, <1>a, <2>1, <2>2 DEF Coherent, Working
  <1>2. CASE Identify(n)
    <2>1. state' = state /\ UNCHANGED <<index, peers, connected>> /\ pc[n] = "identify"
      BY <1>2 DEF Identify
    <2> QED BY <1>0, <1>a, <2>1 DEF Coherent, Working
  <1>3. CASE RejectGuest(n)
    <2>1. state' = state /\ UNCHANGED <<index, peers, connected>> /\ pc[n] = "identify"
      BY <1>3 DEF RejectGuest
    <2> QED BY <1>0, <1>a, <2>1 DEF Coherent, Working
  <1>4. CASE Receive(n)
    <2>1. /\ state'[n] \in {state[n], "RECEIVED_PACKET"} /\ UNCHANGED <<index, peers, connected>>
          /\ pc[n] = "receive"
      BY <1>0, <1>4 DEF Receive, Goto, TypeOK
    <2> QED BY <1>0, <1>a, <2>1 DEF Coherent, Working
  <1>5. CASE PollClient(n)
    <2>1. /\ state'[n] \in {state[n], "RECEIVED_PACKET"} /\ UNCHANGED <<index, peers, connected>>
          /\ pc[n] = "poll" \/ state[n] = "IDLE"
      BY <1>0, <1>5 DEF PollClient, Goto, TypeOK, Polling
    <2> QED BY <1>0, <1>a, <2>1 DEF Coherent, Working
  <1>6. CASE PollNothing(n)
    <2>1. state' = state /\ UNCHANGED <<index, peers, connected>> /\ pc[n] = "poll"
      BY <1>6 DEF PollNothing
    <2> QED BY <1>0, <1>a, <2>1 DEF Coherent, Working
  <1>7. CASE Serve(n) \/ DropFromPeerB(n)
    <2>1. /\ state'[n] = "IDLE" /\ UNCHANGED <<index, peers, connected>>
          /\ state[n] \in {"IDLE", "RECEIVED_PACKET"}
      BY <1>0, <1>7 DEF Serve, DropFromPeerB, Goto, At, TypeOK
    <2> QED BY <2>1 DEF Working
  <1>8. CASE WaitingNewPeer(n)
    <2>1. /\ state[n] = "WAITING_NEW_PEER" /\ UNCHANGED <<index, peers, connected>>
          /\ state'[n] = IF n = 1 THEN "BEGIN_OPERATION" ELSE "IDLE"
      BY <1>0, <1>8 DEF WaitingNewPeer, Goto, At, TypeOK
    <2>2. n # 1
      BY <2>1, IdsApart DEF NodeOK, WidowOK
    <2> QED BY <2>1, <2>2 DEF Working
  <1> QED BY <1>1, <1>2, <1>3, <1>4, <1>5, <1>6, <1>7, <1>8 DEF QuietStep

\* The index answers a report only of a node that follows it.
LEMMA AnswersFollowers ==
    ASSUME IInv, ReportsOK, alive[N], NEW n \in Node, QuietStep(n), NEW m \in Node
    PROVE  /\ ok[m] => ok'[m]
           /\ ok'[m] # ok[m] => Identify(n) /\ n = N /\ guest[N] = ReportOf(m)
           /\ m # N /\ index[m] # N => ok'[m] = ok[m]
  <1>0. TypeOK /\ N \in Node
    BY IdsApart DEF IInv
  <1>1. CASE ok' = ok
    BY <1>1
  <1>2. CASE Identify(n) /\ guest[n] \in Reporter
    <2>1. n = N
      BY <1>2 DEF ReportsOK, CallersOK
    <2>2. ok' = [ok EXCEPT ![NodeOf(guest[N])] = TRUE] /\ guest[N] = ReportOf(NodeOf(guest[N]))
      BY <1>2, <2>1, IdsApart DEF Identify
    <2>3. ok'[m] = IF m = NodeOf(guest[N]) THEN TRUE ELSE ok[m]
      BY <1>0, <2>2 DEF TypeOK
    <2>4. m # N /\ index[m] # N => guest[N] # ReportOf(m)
      BY DEF ReportsOK, ReportOK
    <2> QED BY <1>2, <2>1, <2>2, <2>3, <2>4
  <1>3. ok' = ok \/ (Identify(n) /\ guest[n] \in Reporter)
    BY DEF QuietStep, Accept, Identify, RejectGuest, Receive, PollClient, PollNothing, Serve,
           DropFromPeerB, WaitingNewPeer
  <1> QED BY <1>1, <1>2, <1>3

LEMMA QuietGuests ==
    ASSUME IInv, NEW n \in Node, QuietStep(n)
    PROVE  /\ Guests
           /\ \A m \in Node \ {n} : guest'[m] = guest[m]
           /\ \/ backlog' = backlog
              \/ backlog[n] # <<>> /\ backlog' = [backlog EXCEPT ![n] = Tail(@)]
  <1>0. TypeOK
    BY DEF IInv
  <1>1. \/ guest' = guest \/ guest' = [guest EXCEPT ![n] = None]
        \/ backlog[n] # <<>> /\ guest' = [guest EXCEPT ![n] = Head(backlog[n])]
    BY DEF QuietStep, Accept, Identify, RejectGuest, Receive, PollClient, PollNothing, Serve,
           DropFromPeerB, WaitingNewPeer
  <1>2. \/ backlog' = backlog
        \/ backlog[n] # <<>> /\ backlog' = [backlog EXCEPT ![n] = Tail(@)]
    BY DEF QuietStep, Accept, Identify, RejectGuest, Receive, PollClient, PollNothing, Serve,
           DropFromPeerB, WaitingNewPeer
  <1> QED BY <1>0, <1>1, <1>2 DEF Guests, TypeOK

LEMMA QuietReports ==
    ASSUME IInv, ReportsOK, alive[N], NEW n \in Node, NodeOK(n), Orderly(n), QuietStep(n)
    PROVE  ReportsOK'
  <1>0. N \in Node
    BY IdsApart
  <1>1. /\ Working(n) \/ state[n] = "INDEX_WAITING_PEERS_KNOWLEDGE"
        /\ \/ state'[n] = state[n]
           \/ Working(n) /\ state'[n] \in {"IDLE", "RECEIVED_PACKET"}
        /\ UNCHANGED <<index, peers, connected>>
    BY QuietStates
  <1>2. \A m \in Node \ {n} : Same(m)
    BY DEF Orderly
  <1>3. Steady
    BY <1>1, <1>2, SteadyStep DEF HasReported, Working
  <1>4. Tabled
    BY <1>0, <1>1, <1>2 DEF Tabled, Working, Same, ReportsOK, TableOK, Orderly, Ages
  <1>5. Guests
    BY QuietGuests
  <1>6. \A m \in Node : Shrinks(backlog'[m], backlog[m])
    BY QuietGuests, BacklogShrinks
  <1>7. \A m \in Node : Shrinks(link'[ReportOf(m)][N].q, link[ReportOf(m)][N].q)
    <2>1. AllShrink(link', link)
      BY QuietSteps DEF QuietStep
    <2> QED BY <1>0, <2>1, ReportApart DEF AllShrink
  <1>8. \A m \in Node \ {N} : (ok[m] => ok'[m]) /\ (index'[m] # N => ok'[m] = ok[m])
    BY <1>1, AnswersFollowers
  <1> QED BY <1>3, <1>4, <1>5, <1>6, <1>7, <1>8, NoQueue, ReportsFrame

LEMMA DeathSteps ==
    ASSUME IInv, StreamsTrue, NEW n \in Node, NodeOK(n), alive' = alive,
           HealthCheck(n) \/ AdoptWidow(n) \/ ForwardDeath(n)
    PROVE  /\ alive[n] /\ state[n] = "IDLE"
           /\ alive[N] => Working(n)'
           /\ UNCHANGED <<index, guest, connected, ok>>
           /\ \E d \in Node :
                /\ ~alive[d]
                /\ peers' = IF index[n] = n THEN [peers EXCEPT ![n] = @ \ {d}] ELSE peers
           /\ \E w, y, pkts : Queues(n, w) /\ Grows(link', link, n, y, pkts)
           /\ \A m \in Node : backlog'[m] \in {backlog[m], Append(backlog[m], n)}
  <1>0. TypeOK /\ Pred(n) \in Node
    BY IdFacts DEF IInv
  <1>q. ASSUME backlog' = backlog PROVE Queues(n, None)
    BY <1>q DEF Queues, Shrinks
  <1>1. CASE HealthCheck(n)
    <2>1. state[n] = "IDLE" /\ alive[n] /\ ~alive[Pred(n)]
      BY <1>1, HealthCheckOrderly DEF HealthCheck, At
    <2>2. ~SendKill(n, peer_f[n])
      BY <1>0, <1>1, <2>1 DEF HealthCheck, Exit, TypeOK
    <2>3. /\ state'[n] = "WAITING_NEW_PEER" /\ backlog' = backlog
          /\ UNCHANGED <<index, guest, connected, ok>>
          /\ peers' = IF index[n] = n THEN [peers EXCEPT ![n] = @ \ {Pred(n)}] ELSE peers
      BY <1>0, <1>1, <2>2 DEF HealthCheck, Goto, TypeOK
    <2>4. Queues(n, None)
      BY <2>3, <1>q
    <2>5. \E y, pkts : Grows(link', link, n, y, pkts)
      BY <1>1, HealthCheckWrites
    <2> QED BY <1>0, <2>1, <2>3, <2>4, <2>5 DEF Working
  <1>2. CASE AdoptWidow(n) \/ ForwardDeath(n)
    <2> DEFINE p == First(peer_b[n], n)
    <2>1. /\ Bury(n, p.peer_id)
          /\ peer_b[n] \in Dialer /\ HasData(peer_b[n], n)
          /\ p \in Packet /\ p.type = "PEER_DIED" /\ Sayable(peer_b[n], p)
          /\ alive[n] /\ state[n] = "IDLE" /\ (alive[N] => state'[n] = "IDLE")
          /\ ~(AdoptWidow(n) /\ Minus(net_size[n], 1) = 0)
          /\ ~(ForwardDeath(n) /\ SendKill(n, peer_f[n]))
      BY <1>2, NoticeOrderly
    <2>2. p.peer_id \in Node /\ ~alive[p.peer_id] /\ p.widow \in Node
      BY <2>1, PacketFields DEF Sayable
    <2>3. /\ AdoptWidow(n) => Grows(link', link, n, p.widow, <<>>)
          /\ ForwardDeath(n) => Grows(link', link, n, peer_f[n], Taken(link[peer_b[n]][n].q))
      BY <2>1, NoticeWrites
    <2> HIDE DEF p
    <2>4. /\ UNCHANGED <<index, guest, connected, ok>>
          /\ backlog' = backlog \/ backlog' = [backlog EXCEPT ![p.widow] = Append(@, n)]
      BY <1>2, <2>1 DEF AdoptWidow, ForwardDeath, p
    <2>5. \E w : Queues(n, w)
      BY <1>q, <2>2, <2>4, BacklogAppend
    <2>b. \A m \in Node : backlog'[m] \in {backlog[m], Append(backlog[m], n)}
      <3>1. PICK w \in Node : w = p.widow
        BY <2>2
      <3> QED BY <1>0, <2>4, <3>1 DEF TypeOK
    <2>6. peers' = IF index[n] = n THEN [peers EXCEPT ![n] = @ \ {p.peer_id}] ELSE peers
      BY <2>1 DEF Bury
    <2>7. \E y, pkts : Grows(link', link, n, y, pkts)
      BY <1>2, <2>3
    <2> QED BY <2>1, <2>2, <2>4, <2>5, <2>6, <2>7, <2>b DEF Working
  <1> QED BY <1>1, <1>2

LEMMA DeathReports ==
    ASSUME IInv, StreamsTrue, ReportsOK, alive[N], NEW n \in Node, NodeOK(n), Orderly(n),
           alive' = alive, HealthCheck(n) \/ AdoptWidow(n) \/ ForwardDeath(n)
    PROVE  ReportsOK'
  <1>0. N \in Node /\ TypeOK
    BY IdsApart DEF IInv
  <1>1. /\ Working(n) /\ Working(n)' /\ UNCHANGED <<index, guest, connected, ok>>
        /\ \E w, y, pkts : Queues(n, w) /\ Grows(link', link, n, y, pkts)
    BY DeathSteps DEF Working
  <1>2. PICK d \in Node : /\ ~alive[d]
                         /\ peers' = IF index[n] = n THEN [peers EXCEPT ![n] = @ \ {d}] ELSE peers
    BY DeathSteps
  <1>3. \A m \in Node \ {n} : Same(m)
    BY DEF Orderly
  <1>4. Steady
    BY <1>1, <1>3, SteadyStep DEF HasReported
  <1>5. Tabled
    <2>1. peers'[N] = peers[N] \/ (n = N /\ peers'[N] = peers[N] \ {d})
      BY <1>0, <1>2 DEF TypeOK
    <2>2. n = N => state'[N] # "INDEX_WAITING_PEERS_KNOWLEDGE" /\ Working(N)
      BY <1>1 DEF Working
    <2>3. n # N => peers'[N] = peers[N] /\ state'[N] = state[N]
      BY <1>0, <1>3, <2>1 DEF Same
    <2>4. Working(N)' => Working(N)
      BY <2>2, <2>3 DEF Working
    <2>5. Working(N) => \A m \in Node \ {N} : alive[m] => m \in peers[N]
      BY DEF ReportsOK, TableOK
    <2>6. Working(N)' => \A m \in Node \ {N} : alive'[m] => m \in peers'[N]
      BY <1>2, <2>1, <2>4, <2>5
    <2> QED BY <1>1, <2>1, <2>2, <2>3, <2>6 DEF Tabled
  <1>6. Guests
    BY <1>1 DEF Guests
  <1>7. \A m \in Node : Shrinks(link'[ReportOf(m)][N].q, link[ReportOf(m)][N].q)
    BY <1>1, ReportsUntouched
  <1> QED BY <1>1, <1>4, <1>5, <1>6, <1>7, ReportsFrame

LEMMA ClientReports ==
    ASSUME IInv, ReportsOK, alive[N], NEW c \in Client, Ages, \A m \in Node : Same(m),
           ClientRequest(c) \/ ClientClose(c) \/ \E n \in Node : ClientConnect(c, n)
    PROVE  ReportsOK'
  <1>0. N \in Node /\ c \in Node \cup Client
    BY IdsApart
  <1>1. UNCHANGED <<alive, state, index, guest, connected, ok, peers>>
    BY DEF ClientRequest, ClientClose, ClientConnect
  <1>2. Steady
    BY DEF Steady, Same, HasReported, Working
  <1>3. Tabled
    BY <1>0, <1>1 DEF Tabled, Working, ReportsOK, TableOK
  <1>4. Guests
    BY <1>1 DEF Guests
  <1>5. \E y : Queues(c, y)
    <2>1. CASE backlog' = backlog
      <3>1. Queues(c, None)
        BY <2>1 DEF Queues, Shrinks
      <3> QED BY <3>1
    <2>2. CASE \E n \in Node : ClientConnect(c, n)
      BY <2>2, BacklogAppend DEF ClientConnect
    <2> QED BY <2>1, <2>2 DEF ClientRequest, ClientClose
  <1>6. \E y, pkts : Grows(link', link, c, y, pkts)
    BY <1>0, ClientWrites, RequestWrites, ShrinkGrows
  <1>7. \A m \in Node : Shrinks(link'[ReportOf(m)][N].q, link[ReportOf(m)][N].q)
    BY <1>0, <1>6, ReportsUntouched
  <1> QED BY <1>0, <1>1, <1>2, <1>3, <1>4, <1>5, <1>7, ReportsFrame

\* When N counts net_size - 1 reports, every other node has made its own.
LEMMA SessionCounts ==
    ASSUME IInv, ReportsOK, QueueOK, NodeOK(N), alive[N], AllReported(N),
           state[N] = "INDEX_WAITING_PEERS_KNOWLEDGE"
    PROVE  /\ peers[N] = Node \ {N}
           /\ peer_b[N] = Pred(N) \/ ~alive[Pred(N)]
  <1>0. N \in Node /\ Pred(N) \in Node \ {N} /\ WORD > N /\ N \in Nat \ {0, 1} /\ WORD \in Nat
    BY IdFacts, IdsApart
  <1>1. TypeOK /\ Coherent(state[N], pc[N], peer_f[N], peer_b[N], guest[N])
    BY <1>0 DEF IInv
  <1>2. /\ net_size[N] = N /\ peer_b[N] \in {None, Pred(N)} \cup Client
    BY DEF NodeOK, NoviceOK, Novice, ElectionStates
  <1>3. connected[N] = N - 1
    <2>1. Minus(N, 1) = N - 1
      BY <1>0 DEF Minus
    <2> QED BY <1>2, <2>1 DEF AllReported
  <1>4. peers[N] \subseteq Node \ {N} /\ connected[N] <= Cardinality(peers[N])
    BY DEF ReportsOK, TableOK
  <1>5. IsFiniteSet(Node \ {N}) /\ Cardinality(Node \ {N}) = N - 1
    <2>1. IsFiniteSet(Node) /\ Cardinality(Node) = N
      BY <1>0, FS_Interval DEF Node
    <2> QED BY <1>0, <2>1, FS_RemoveElement
  <1>6. /\ IsFiniteSet(peers[N])
        /\ Cardinality(peers[N]) <= N - 1
        /\ Cardinality(Node \ {N}) = Cardinality(peers[N]) => Node \ {N} = peers[N]
    BY <1>4, <1>5, FS_Subset
  <1>7. peers[N] = Node \ {N}
    <2>1. Cardinality(peers[N]) \in Nat
      BY <1>6, FS_CardinalityType
    <2> QED BY <1>0, <1>3, <1>4, <1>5, <1>6, <2>1
  <1>8. ok[Pred(N)]
    BY <1>0, <1>7 DEF ReportsOK, ReportOK
  <1>9. alive[Pred(N)] => peer_b[N] \notin Client
    BY <1>8 DEF QueueOK, Intruded, Unanswered
  <1>10. peer_b[N] # None
    BY <1>1 DEF Coherent, ElectionStates
  <1> QED BY <1>2, <1>7, <1>9, <1>10

LEMMA SessionAt ==
    ASSUME NEW n \in Node, NodeOK(n), alive[N], Session(n)
    PROVE  n = N /\ state[N] = "INDEX_WAITING_PEERS_KNOWLEDGE" /\ pc[N] = "session"
  <1>1. state[n] = "INDEX_WAITING_PEERS_KNOWLEDGE" /\ pc[n] = "session"
    BY DEF Session, At
  <1> QED BY <1>1 DEF NodeOK, NoviceOK, Novice, ElectionStates

LEMMA SessionReports ==
    ASSUME IInv, StreamsTrue, ReportsOK, QueueOK, NodeOK(N), alive[N], Orderly(N), Session(N)
    PROVE  ReportsOK'
  <1> DEFINE a == guest[N]
             m0 == NodeOf(guest[N])
  <1>0. N \in Node /\ TypeOK /\ link \in Links
        /\ Coherent(state[N], pc[N], peer_f[N], peer_b[N], guest[N])
    BY IdsApart DEF IInv, TypeOK, Links
  <1>1. /\ state[N] = "INDEX_WAITING_PEERS_KNOWLEDGE" /\ pc[N] = "session"
        /\ HasData(a, N) /\ alive' = alive /\ UNCHANGED <<index, ok, backlog>>
    BY DEF Session, At
  <1>2. a \in Dialer
    BY <1>0, <1>1 DEF Coherent, TypeOK
  <1>3. \A m \in Node \ {N} : Same(m)
    BY DEF Orderly
  <1>4. Steady
    BY <1>0, <1>3, SteadyStep
  <1>5. AllShrink(link', link)
    BY <1>0, QuietSteps
  <1>6. \A m \in Node : Shrinks(link'[ReportOf(m)][N].q, link[ReportOf(m)][N].q)
    BY <1>0, <1>5, ReportApart DEF AllShrink
  <1>7. \A m \in Node : Shrinks(backlog'[m], backlog[m])
    BY <1>1 DEF Shrinks
  <1>8. Guests
    BY <1>0 DEF Session, Guests, TypeOK
  <1>9. N \in Node \cup Client /\ Queues(N, None)
    BY <1>7, NoQueue
  <1>10. CASE First(a, N).type # "REPORT_SELF"
    <2>1. /\ UNCHANGED <<peers, connected>>
          /\ state'[N] = state[N] \/ AllReported(N)
      BY <1>0, <1>10 DEF Session, Goto, TypeOK
    <2>2. Tabled
      <3>1. Working(N)' => AllReported(N)
        BY <1>1, <2>1 DEF Working
      <3>2. Working(N)' => peers[N] = Node \ {N}
        BY <1>1, <3>1, SessionCounts
      <3> QED BY <1>1, <2>1, <3>2 DEF Tabled
    <2> QED BY <1>1, <1>4, <1>6, <1>8, <1>9, <2>2, ReportsFrame
  <1>11. CASE First(a, N).type = "REPORT_SELF"
    <2>1. /\ peers' = [peers EXCEPT ![N] = @ \cup {m0}]
          /\ connected' = [connected EXCEPT ![N] = @ + 1]
          /\ link' = After(a, N) /\ UNCHANGED <<state, pc, guest>>
      BY <1>11 DEF Session
    <2>2. a \in Reporter /\ m0 \in Node /\ ReportOf(m0) = a
      BY <1>0, <1>1, <1>2, <1>11, FirstSaid, IdsApart DEF Sayable
    <2>3. /\ link[a][N].q \in Seq(Packet) /\ link[a][N].q # <<>>
          /\ Head(link[a][N].q).type = "REPORT_SELF"
      BY <1>0, <1>1, <1>2, <1>11, LinkAt DEF First, HasData
    <2>4. ~NoSelf(link[a][N].q)
      BY <2>3, TailFacts DEF NoSelf, SelfAt
    <2>5. m0 # N /\ m0 \notin peers[N] /\ HasReported(m0)
      <3>1. m0 # N
        BY <2>2, <2>4 DEF ReportsOK, TableOK
      <3>2. ReportOK(m0)
        BY <2>2, <3>1 DEF ReportsOK
      <3> QED BY <2>2, <2>4, <3>1, <3>2 DEF ReportOK
    <2>6. NoSelf(link'[a][N].q) /\ OneSelf(link'[a][N].q)
      <3>1. OneSelf(link[a][N].q)
        BY <2>2, <2>5 DEF ReportsOK, ReportOK
      <3>2. link'[a][N].q # link[a][N].q /\ Shrinks(link'[a][N].q, link[a][N].q)
        BY <1>0, <1>1, <1>2, <2>1, AfterShrinks DEF AllShrink
      <3> QED BY <2>3, <3>1, <3>2, ShrinksSelf
    <2> HIDE DEF m0, a
    <2>7. peers'[N] = peers[N] \cup {m0} /\ connected'[N] = connected[N] + 1
      BY <1>0, <2>1 DEF TypeOK
    <2>8. TableOK'
      <3>1. peers'[N] \subseteq Node \ {N}
        BY <2>2, <2>5, <2>7 DEF ReportsOK, TableOK
      <3>2. NoSelf(link'[ReportOf(N)][N].q)
        <4>1. NoSelf(link[ReportOf(N)][N].q)
          BY DEF ReportsOK, TableOK
        <4> QED BY <1>0, <1>6, <4>1, ReportApart, LinkAt, ShrinksSelf
      <3>3. IsFiniteSet(peers[N])
        <4>1. IsFiniteSet(Node)
          BY IdFacts, FS_Interval DEF Node
        <4>2. peers[N] \subseteq Node
          BY DEF ReportsOK, TableOK
        <4> QED BY <4>1, <4>2, FS_Subset
      <3>4. Cardinality(peers'[N]) = Cardinality(peers[N]) + 1 /\ Cardinality(peers[N]) \in Nat
        BY <2>5, <2>7, <3>3, FS_AddElement, FS_CardinalityType
      <3>5. connected'[N] <= Cardinality(peers'[N])
        <4>1. connected[N] <= Cardinality(peers[N]) /\ connected[N] \in Nat
          BY <1>0, <1>1 DEF ReportsOK, TableOK, TypeOK
        <4> QED BY <2>7, <3>4, <4>1
      <3>6. ~Working(N)'
        BY <1>1, <2>1 DEF Working
      <3> QED BY <3>1, <3>2, <3>5, <3>6 DEF TableOK
    <2>9. ASSUME NEW m \in Node \ {N} PROVE ReportOK(m)' /\ CallersOK(m)'
      <3>0. ReportOK(m) /\ CallersOK(m)
        BY DEF ReportsOK
      <3>1. CallersOK(m)'
        BY <1>8, <1>9, <3>0, CallersFrame
      <3>2. CASE m # m0
        <4>1. m \in peers'[N] => m \in peers[N]
          BY <2>7, <3>2
        <4>2. N \in Dialer \ {ReportOf(m)}
          BY <1>0, ReportApart
        <4>3. ReportOK(m)'
          BY <1>0, <1>1, <1>4, <1>6, <1>8, <1>9, <3>0, <4>1, <4>2, ReportFrame DEF Steady
        <4> QED BY <3>1, <4>3
      <3>3. CASE m = m0
        <4>1. HasReported(m)' /\ ok'[m] /\ index' = index
          BY <1>1, <1>4, <2>5, <3>0, <3>3 DEF Steady, ReportOK
        <4>2. index[m] = N
          BY <1>1, <3>0, <4>1 DEF ReportOK
        <4> QED BY <2>2, <2>6, <3>1, <3>3, <4>1, <4>2 DEF ReportOK
      <3> QED BY <3>2, <3>3
    <2> QED BY <2>8, <2>9 DEF ReportsOK
  <1> QED BY <1>10, <1>11

\* The three steps of a report leave everything but the reporter's own connection alone.
LEMMA ReportSteps ==
    ASSUME IInv, alive[N], NEW n \in Node, NodeOK(n), alive' = alive,
           ReportDial(n) \/ ReportSelf(n) \/ ReportEnd(n)
    PROVE  /\ n # N /\ index[n] = N /\ state[n] = "REPORT_KNOWLEDGE_TO_INDEX"
           /\ UNCHANGED <<index, guest, peers, connected>>
           /\ \A m \in Node \ {n} : ok'[m] = ok[m]
           /\ \E y : Queues(ReportOf(n), y) /\ (y = None \/ y = N)
           /\ \A m \in Node : backlog'[m] \in {backlog[m], Append(backlog[m], ReportOf(n))}
           /\ \A a \in Dialer \ {ReportOf(n)}, m \in Node :
                 Shrinks(link'[a][m].q, link[a][m].q)
  <1>0. TypeOK /\ N \in Node
    BY IdsApart DEF IInv
  <1>1. state[n] = "REPORT_KNOWLEDGE_TO_INDEX" /\ alive[n]
    BY DEF ReportDial, ReportSelf, ReportEnd, At
  <1>2. n # N /\ index[n] = N
    <2>1. index[n] \in Node
      <3>1. CASE ReportDial(n)
        BY <3>1 DEF ReportDial, Listening
      <3>2. CASE ReportSelf(n) \/ ReportEnd(n)
        <4>1. pc[n] # "top"
          BY <3>2 DEF ReportSelf, ReportEnd, At
        <4> QED BY <1>1, <4>1 DEF NodeOK, IndexOK
      <3> QED BY <3>1, <3>2
    <2> QED BY <1>1, <2>1 DEF NodeOK, IndexOK
  <1>3. ReportEnd(n) => ~SendKill(ReportOf(n), index[n])
    BY <1>0, <1>1 DEF ReportEnd, Exit, TypeOK
  <1>4. /\ UNCHANGED <<index, guest, peers, connected>>
        /\ \A m \in Node \ {n} : ok'[m] = ok[m]
    BY <1>0, <1>3 DEF ReportDial, ReportSelf, ReportEnd, TypeOK
  <1>5. \E y : Queues(ReportOf(n), y) /\ (y = None \/ y = N)
    <2>1. CASE ReportDial(n)
      BY <1>0, <1>2, <2>1, BacklogAppend DEF ReportDial
    <2>2. CASE ReportSelf(n) \/ ReportEnd(n)
      <3>1. backlog' = backlog
        BY <1>3, <2>2 DEF ReportSelf, ReportEnd
      <3>2. Queues(ReportOf(n), None)
        BY <3>1 DEF Queues, Shrinks
      <3> QED BY <3>2
    <2> QED BY <2>1, <2>2
  <1>b. \A m \in Node : backlog'[m] \in {backlog[m], Append(backlog[m], ReportOf(n))}
    <2>1. backlog' = backlog \/ backlog' = [backlog EXCEPT ![N] = Append(@, ReportOf(n))]
      BY <1>2, <1>3 DEF ReportDial, ReportSelf, ReportEnd
    <2>2. backlog \in [Node -> Seq(Dialer)]
      BY <1>0 DEF TypeOK
    <2> QED BY <2>1, <2>2
  <1>6. \E pkts : Grows(link', link, ReportOf(n), index[n], pkts)
    BY ReportWrites
  <1>7. \A a \in Dialer \ {ReportOf(n)}, m \in Node : Shrinks(link'[a][m].q, link[a][m].q)
    BY <1>6 DEF Grows
  <1> QED BY <1>1, <1>2, <1>4, <1>5, <1>b, <1>7

LEMMA SentAt ==
    ASSUME NEW L \in Links, NEW x \in Dialer, NEW y \in Node, NEW pkts
    PROVE  Sent(L, x, y, pkts)[x][y].q = IF L[x][y].st = "up" THEN L[x][y].q \o pkts ELSE <<>>
  <1> DEFINE e == IF L[x][y].st = "up" THEN Opened(L[x][y].q \o pkts)
                                      ELSE [st |-> "broken", q |-> <<>>]
  <1>1. e.q = IF L[x][y].st = "up" THEN L[x][y].q \o pkts ELSE <<>>
    BY DEF Opened
  <1>2. Sent(L, x, y, pkts) = [L EXCEPT ![x][y] = e]
    BY DEF Sent
  <1> HIDE DEF e
  <1>3. Sent(L, x, y, pkts)[x][y] = e
    BY <1>2 DEF Links
  <1> QED BY <1>1, <1>3

\* The queue of the reporter's own connection.
LEMMA ReportQueue ==
    ASSUME IInv, ReportsOK, alive[N], NEW n \in Node \ {N}, index[n] = N, alive' = alive,
           ReportDial(n) \/ ReportSelf(n) \/ ReportEnd(n)
    PROVE  ReportOK(n)'
  <1> DEFINE r == ReportOf(n)
             q == link[ReportOf(n)][N].q
  <1>0. TypeOK /\ N \in Node /\ r \in Dialer /\ link \in Links /\ ReportOK(n)
    BY IdsApart, ReportApart DEF IInv, TypeOK, Links, ReportsOK
  <1>1. q \in Seq(Packet) /\ link[r][N] \in Stream
    BY <1>0, LinkAt
  <1>2. /\ Simple("PRESENT_ITSELF") \in Packet /\ Simple("PRESENT_ITSELF").type # "REPORT_SELF"
        /\ Simple("OK") \in Packet /\ Simple("OK").type # "REPORT_SELF"
        /\ Simple("REPORT_SELF") \in Packet
    BY PacketTypes DEF Simple
  <1>3. NoSelf(<<>>) /\ OneSelf(<<>>) /\ <<>> \in Seq(Packet)
    BY DEF NoSelf, OneSelf
  <1>s. ASSUME NEW p \in Packet
        PROVE  Sent(link, r, N, <<p>>)[r][N].q =
                  IF link[r][N].st = "up" THEN q \o <<p>> ELSE <<>>
    BY <1>0, SingleSeq, SentAt
  <1>4. CASE ReportDial(n)
    <2>1. /\ index' = index /\ peers' = peers /\ state' = state
          /\ pc[n] = "top" /\ pc'[n] = "wait_ok" /\ state[n] = "REPORT_KNOWLEDGE_TO_INDEX"
          /\ link' = [link EXCEPT ![r][N] = Opened(<<Simple("PRESENT_ITSELF")>>)]
      BY <1>0, <1>4 DEF ReportDial, At, TypeOK
    <2>2. link'[r][N] = Opened(<<Simple("PRESENT_ITSELF")>>)
      BY <1>0, <2>1 DEF Links
    <2>3. link'[r][N].q = <<>> \o <<Simple("PRESENT_ITSELF")>>
      BY <2>2 DEF Opened
    <2>4. NoSelf(link'[r][N].q) /\ OneSelf(link'[r][N].q)
      BY <1>2, <1>3, <2>3, AppendSelf
    <2>5. ~HasReported(n) /\ ~HasReported(n)'
      BY <2>1 DEF HasReported, Working
    <2> QED BY <1>0, <2>1, <2>4, <2>5 DEF ReportOK
  <1>5. CASE ReportSelf(n)
    <2>1. /\ index' = index /\ peers' = peers /\ state' = state /\ ok' = ok
          /\ pc[n] = "wait_ok" /\ state[n] = "REPORT_KNOWLEDGE_TO_INDEX"
          /\ ok[n] /\ link' = Sent(link, r, N, <<Simple("REPORT_SELF")>>)
          /\ pc'[n] = IF SendPos(r, N) THEN "reported" ELSE "top"
      BY <1>0, <1>5 DEF ReportSelf, At, TypeOK
    <2>2. ~HasReported(n) /\ NoSelf(q) /\ n \notin peers[N]
      BY <1>0, <2>1 DEF HasReported, Working, ReportOK
    <2>3. link'[r][N].q = IF link[r][N].st = "up" THEN q \o <<Simple("REPORT_SELF")>> ELSE <<>>
      BY <1>2, <1>s, <2>1
    <2>4. OneSelf(link'[r][N].q)
      BY <1>1, <1>2, <1>3, <2>2, <2>3, AppendSelf
    <2>5. HasReported(n)' \/ link'[r][N].q = <<>>
      BY <2>1, <2>3 DEF HasReported, SendPos
    <2> QED BY <1>0, <1>3, <2>1, <2>2, <2>4, <2>5 DEF ReportOK
  <1>6. CASE ReportEnd(n)
    <2>0. alive[n] /\ pc[n] = "reported" /\ state[n] = "REPORT_KNOWLEDGE_TO_INDEX"
      BY <1>6 DEF ReportEnd, At
    <2>e. ~SendKill(r, N)
      BY <1>0, <1>6, <2>0 DEF ReportEnd, Exit, TypeOK
    <2>1. /\ index' = index /\ peers' = peers /\ ok' = ok
          /\ link' = Sent(link, r, N, <<Simple("OK")>>) /\ state'[n] = "IDLE"
      BY <1>0, <1>6, <2>e DEF ReportEnd, Goto, TypeOK
    <2>2. HasReported(n) /\ HasReported(n)'
      BY <2>0, <2>1 DEF HasReported, Working
    <2>3. link'[r][N].q = IF link[r][N].st = "up" THEN q \o <<Simple("OK")>> ELSE <<>>
      BY <1>2, <1>s, <2>1
    <2>4. OneSelf(link'[r][N].q) /\ (NoSelf(q) => NoSelf(link'[r][N].q))
      BY <1>0, <1>1, <1>2, <1>3, <2>3, AppendSelf DEF ReportOK
    <2> QED BY <1>0, <2>1, <2>2, <2>4 DEF ReportOK
  <1> QED BY <1>4, <1>5, <1>6

LEMMA ReportReports ==
    ASSUME IInv, ReportsOK, alive[N], NEW n \in Node, NodeOK(n), Orderly(n), alive' = alive,
           ReportDial(n) \/ ReportSelf(n) \/ ReportEnd(n)
    PROVE  ReportsOK'
  <1>0. N \in Node /\ link \in Links
    BY IdsApart DEF IInv, TypeOK, Links
  <1>1. /\ n # N /\ index[n] = N
        /\ UNCHANGED <<index, guest, peers, connected>>
        /\ \A m \in Node \ {n} : ok'[m] = ok[m]
        /\ \A a \in Dialer \ {ReportOf(n)}, m \in Node : Shrinks(link'[a][m].q, link[a][m].q)
    BY ReportSteps
  <1>2. PICK y : Queues(ReportOf(n), y) /\ (y = None \/ y = N)
    BY ReportSteps
  <1>3. Guests
    BY <1>1 DEF Guests
  <1>4. \A m \in Node \ {n} : Same(m)
    BY DEF Orderly
  <1>5. ASSUME NEW m \in Node \ {n}
        PROVE  Shrinks(link'[ReportOf(m)][N].q, link[ReportOf(m)][N].q)
    BY <1>0, <1>1, ReportApart
  <1>6. TableOK'
    <2>1. Tabled
      BY <1>0, <1>1, <1>4 DEF Tabled, Working, Same, ReportsOK, TableOK
    <2> QED BY <1>0, <1>1, <1>5, <2>1, TableFrame DEF ReportsOK
  <1>7. ASSUME NEW m \in Node \ {N} PROVE ReportOK(m)' /\ CallersOK(m)'
    <2>0. ReportOK(m) /\ CallersOK(m) /\ None \notin Node
      BY IdFacts DEF ReportsOK
    <2>1. CallersOK(m)'
      <3>1. CASE y = N
        BY <1>2, <1>3, <2>0, <3>1, CallersFrame
      <3>2. CASE y = None
        <4>1. Queues(N, None)
          BY <1>2, <2>0, <3>2 DEF Queues
        <4> QED BY <1>0, <1>3, <2>0, <4>1, CallersFrame
      <3> QED BY <1>2, <3>1, <3>2
    <2>2. CASE m = n
      BY <1>1, <2>1, <2>2, ReportQueue
    <2>3. CASE m # n
      <3>1. ReportOf(n) \in Dialer \ {ReportOf(m)}
        BY <2>3, ReportApart
      <3>2. HasReported(m)' <=> HasReported(m)
        BY <1>4, <2>3 DEF Same, HasReported, Working
      <3>3. ReportOK(m)'
        BY <1>0, <1>1, <1>2, <1>3, <1>5, <2>0, <2>3, <3>1, <3>2, ReportFrame
      <3> QED BY <2>1, <3>3
    <2> QED BY <2>2, <2>3
  <1> QED BY <1>6, <1>7 DEF ReportsOK

-----------------------------------------------------------------------------
(* The neighbour of N waits for its turn *)

\* A step that neither N nor its neighbour takes.
LEMMA StandbyQueue ==
    ASSUME IInv, QueueOK, Ages, Same(N), Same(Pred(N)), ok'[Pred(N)] = ok[Pred(N)],
           guest'[N] = guest[N], Shrinks(link'[Pred(N)][N].q, link[Pred(N)][N].q),
           backlog'[N] = backlog[N] \/ \E x \in Dialer : backlog'[N] = Append(backlog[N], x)
    PROVE  QueueOK'
  <1> DEFINE l == Pred(N)
  <1>0. N \in Node /\ l \in Node /\ l \in Dialer
    BY IdsApart, ReportApart
  <1> SUFFICES ASSUME alive'[N], alive'[l], Intruded' PROVE Unanswered'
    BY DEF QueueOK
  <1>1. Unanswered
    BY <1>0 DEF QueueOK, Ages, Intruded, Fresh, Same
  <1>2. backlog[N] \in Seq(Dialer)
    BY <1>0 DEF IInv, TypeOK
  <1>3. Ahead(backlog[N]) => Ahead(backlog'[N])
    BY <1>2, AheadMoves
  <1>4. link[l][N].q = <<>> => link'[l][N].q = <<>>
    BY DEF Shrinks
  <1> QED BY <1>1, <1>3, <1>4 DEF Unanswered, Same

\* Meanwhile neither is in operation.
LEMMA NotInOperation ==
    ASSUME IInv, ReportsOK, QueueOK, NodeOK(N), alive[N], alive[Pred(N)], Intruded
    PROVE  Unanswered /\ ~Working(N) /\ ~HasReported(Pred(N))
  <1>0. N \in Node /\ Pred(N) \in Node \ {N} /\ Pred(N) \notin Client /\ None \notin Client
    BY IdFacts, IdsApart
  <1>1. Unanswered
    BY DEF QueueOK
  <1>2. ~HasReported(Pred(N))
    BY <1>0, <1>1 DEF Unanswered, ReportsOK, ReportOK
  <1>3. ~Working(N)
    BY <1>0 DEF Intruded, NodeOK, IntruderOK, Fresh, Working
  <1> QED BY <1>1, <1>2, <1>3

LEMMA BootQueue ==
    ASSUME IInv, ReportsOK, QueueOK, NodeOK(Pred(N)), NEW n \in Node, Orderly(n), alive' = alive,
           Boot(n) \/ Connecting(n) \/ BeginOperation(n)
    PROVE  QueueOK'
  <1> DEFINE l == Pred(N)
  <1>0. /\ N \in Node /\ l \in Node /\ l # N /\ l \in Dialer /\ Succ(l) = N /\ Succ(N) # N
        /\ Pred(Succ(N)) = N
        /\ TypeOK /\ link \in Links /\ None \notin Client /\ l \notin Client /\ None \notin Node
    BY IdFacts, IdsApart, ReportApart DEF IInv, TypeOK, Links
  <1>1. /\ UNCHANGED <<ok, guest, index>>
        /\ pc[n] = "top" /\ \A m \in Node \ {n} : Same(m)
    BY DEF Boot, Connecting, BeginOperation, At, Orderly
  <1>2. CASE n \notin {N, l}
    <2>1. /\ backlog'[N] = backlog[N]
          /\ link'[l][N] = link[l][N]
      <3>1. CASE Connecting(n)
        <4>1. Succ(n) # N
          BY <1>0, <1>2, IdsApart
        <4>2. backlog'[N] = backlog[N]
          BY <1>0, <1>2, <3>1, <4>1 DEF Connecting, TypeOK
        <4>3. link'[l] = link[l]
          BY <1>0, <1>2, <3>1 DEF Connecting, Links
        <4> QED BY <4>2, <4>3
      <3>2. CASE ~Connecting(n)
        BY <3>2 DEF Boot, BeginOperation
      <3> QED BY <3>1, <3>2
    <2> QED BY <1>0, <1>1, <1>2, <2>1, StandbyQueue DEF Orderly, Shrinks
  <1>3. CASE n \in {N, l}
    <2> SUFFICES ASSUME alive[N], alive[l], Intruded' PROVE Unanswered'
      BY DEF QueueOK
    <2>1. CASE ~Connecting(n)
      <3>1. UNCHANGED <<ok, guest, index, peer_f, peer_b, backlog, link>>
        BY <2>1 DEF Boot, BeginOperation
      <3>2. pc'[N] = "identify" \/ pc[N] # "identify"
        BY <1>0, <1>1, <1>3 DEF Same
      <3>3. Unanswered
        BY <1>0, <3>1 DEF QueueOK, Intruded, Orderly, Ages
      <3> QED BY <3>1, <3>2, <3>3 DEF Unanswered
    <2>2. CASE Connecting(n) /\ n = N
      <3>1. /\ state[N] = "CONNECTING" /\ pc[N] = "top"
            /\ peer_b'[N] = IF peer_b[N] = None /\ backlog[N] # <<>> THEN Head(backlog[N]) ELSE peer_b[N]
            /\ backlog'[N] = IF peer_b[N] = None /\ backlog[N] # <<>> THEN Tail(backlog[N]) ELSE backlog[N]
            /\ link'[l] = link[l]
            /\ peer_f'[l] = peer_f[l]
        <4>1. link'[l] = link[l]
          BY <1>0, <2>2 DEF Connecting, Links
        <4> QED BY <1>0, <2>2, <4>1 DEF Connecting, At, TypeOK
      <3>2. Unanswered
        BY <1>0, <3>1 DEF QueueOK, Intruded, Fresh
      <3>3. Ahead(backlog[N]) => Ahead(backlog'[N])
        <4>1. CASE ~(peer_b[N] = None /\ backlog[N] # <<>>)
          BY <3>1, <4>1
        <4>2. CASE peer_b[N] = None /\ backlog[N] # <<>>
          <5>1. Head(backlog[N]) \in Dialer
            BY <1>0, <4>2, SeqTypes DEF TypeOK
          <5>2. Head(backlog[N]) # l
            BY <1>0, <3>1, <4>2, <5>1, IdFacts DEF Intruded
          <5>3. backlog[N] \in Seq(Dialer)
            BY <1>0 DEF TypeOK
          <5> QED BY <3>1, <4>2, <5>2, <5>3, AheadMoves
        <4> QED BY <4>1, <4>2
      <3> QED BY <1>1, <3>1, <3>2, <3>3 DEF Unanswered
    <2>3. CASE Connecting(n) /\ n = l
      <3>1. /\ state[l] = "CONNECTING" /\ pc' = pc
            /\ \/ /\ peer_f[l] = None /\ peer_f'[l] = N /\ backlog'[N] = Append(backlog[N], l)
                  /\ link' = [link EXCEPT ![l][N] = Opened(<<>>)]
               \/ /\ peer_f'[l] = peer_f[l] /\ backlog'[N] = backlog[N] /\ link' = link
        BY <1>0, <2>3 DEF Connecting, At, TypeOK
      <3>2. Unanswered
        BY <1>0, <1>1, <2>3 DEF QueueOK, Intruded, Fresh, Same
      <3>3. CASE link' = link /\ peer_f'[l] = peer_f[l] /\ backlog'[N] = backlog[N]
        BY <1>1, <3>1, <3>2, <3>3 DEF Unanswered
      <3>4. CASE /\ backlog'[N] = Append(backlog[N], l)
                 /\ link' = [link EXCEPT ![l][N] = Opened(<<>>)]
        <4>1. link'[l][N] = Opened(<<>>)
          BY <1>0, <3>4 DEF Links
        <4>2. link'[l][N].q = <<>>
          BY <4>1 DEF Opened
        <4>3. index[l] # N
          BY <1>0, <3>1 DEF NodeOK, IndexOK, Fresh
        <4>4. backlog[N] \in Seq(Dialer \ {ReportOf(l)}) /\ backlog[N] \in Seq(Dialer)
          BY <1>0, <4>3 DEF ReportsOK, ReportOK, TypeOK
        <4>5. Ahead(backlog'[N])
          BY <3>4, <4>4, AheadMoves
        <4> QED BY <1>1, <3>2, <4>2, <4>5 DEF Unanswered
      <3> QED BY <3>1, <3>3, <3>4
    <2> QED BY <1>3, <2>1, <2>2, <2>3
  <1> QED BY <1>2, <1>3

LEMMA GossipQueue ==
    ASSUME IInv, StreamsTrue, ReportsOK, QueueOK, NEW n \in Node, NodeOK(n), Orderly(n),
           alive' = alive, PresentItself(n) \/ WaitIndexGossip(n)
    PROVE  QueueOK'
  <1> DEFINE l == Pred(N)
  <1>0. /\ N \in Node /\ l \in Node /\ l # N /\ l \in Dialer /\ Succ(l) = N
        /\ TypeOK /\ None \notin Node /\ Bogus \notin Node
    BY IdFacts, IdsApart, ReportApart DEF IInv
  <1> SUFFICES ASSUME alive[N], alive[l], Intruded' PROVE Unanswered'
    BY DEF QueueOK
  <1>1. /\ UNCHANGED <<ok, guest, peer_f, peer_b, backlog>> /\ pc[n] = "top"
        /\ \A m \in Node \ {n} : Same(m)
    BY DEF PresentItself, WaitIndexGossip, At, Orderly
  <1>2. Unanswered
    BY <1>0, <1>1 DEF QueueOK, Intruded, Orderly, Ages
  <1>3. pc'[N] = "identify" \/ pc[N] # "identify"
    BY <1>0, <1>1 DEF Same
  <1>4. CASE n # l
    <2>1. index'[l] = index[l]
      BY <1>0, <1>1, <1>4 DEF Same
    <2>2. \E y, pkts : Grows(link', link, n, y, pkts)
      BY PresentWrites, WaitGossipWrites, ShrinkGrows
    <2>3. Shrinks(link'[l][N].q, link[l][N].q)
      BY <1>0, <1>4, <2>2 DEF Grows
    <2> QED BY <1>1, <1>2, <1>3, <2>1, <2>3 DEF Unanswered, Shrinks
  <1>5. CASE n = l
    <2>1. WaitIndexGossip(l)
      BY <1>0, <1>5 DEF PresentItself, At, NodeOK, NoviceOK, Novice, ElectionStates
    <2>2. /\ state[l] = "WAIT_INDEX_GOSSIP" /\ state'[l] = "REPORT_KNOWLEDGE_TO_INDEX"
          /\ index'[l] = GossipRead(l)
      BY <1>0, <2>1 DEF WaitIndexGossip, At, Goto, TypeOK
    <2>3. index[l] = None /\ peer_f_id[l] = N
      BY <1>0, <1>5, <2>2 DEF NodeOK, IndexOK, NoviceOK, Novice, ElectionStates
    <2>4. link[l][N].q = <<>>
      BY <1>0, <1>2, <2>3, IdsApart DEF Unanswered
    <2>5. index'[l] = Bogus \/ index'[l] = N
      <3>1. index'[l] \in Node \cup {None, Bogus}
        BY <1>0, <2>1, <2>2, NextIInv DEF IInv, TypeOK, Next, NodeStep
      <3> QED BY <1>0, <1>5, <2>2, <3>1 DEF Orderly, NodeOK, IndexOK
    <2>6. CASE index'[l] = Bogus
      BY <1>1, <1>2, <2>6 DEF Unanswered
    <2>7. CASE index'[l] = N
      <3>1. AllShrink(link', link)
        BY <1>0, <2>1, <2>2, <2>3, <2>7, WaitGossipWrites DEF GossipForwarded
      <3>2. link'[l][N].q = <<>>
        BY <1>0, <2>4, <3>1 DEF AllShrink, Shrinks
      <3>3. index[l] # Bogus
        BY <2>3, IdsApart
      <3> QED BY <1>1, <1>2, <1>3, <3>2, <3>3 DEF Unanswered
    <2> QED BY <2>5, <2>6, <2>7
  <1> QED BY <1>4, <1>5

LEMMA ReportQueueKept ==
    ASSUME IInv, ReportsOK, QueueOK, NodeOK(N), NEW n \in Node, NodeOK(n), Orderly(n),
           alive' = alive, ReportDial(n) \/ ReportSelf(n) \/ ReportEnd(n)
    PROVE  QueueOK'
  <1> DEFINE l == Pred(N)
  <1>0. /\ N \in Node /\ l \in Node /\ l # N /\ l \in Dialer /\ ReportOf(n) \in Dialer
        /\ l # ReportOf(n) /\ TypeOK
    BY IdsApart, ReportApart DEF IInv
  <1> SUFFICES ASSUME alive[N], alive[l], Intruded' PROVE Unanswered'
    BY DEF QueueOK
  <1>1. /\ n # N /\ index[n] = N /\ state[n] = "REPORT_KNOWLEDGE_TO_INDEX"
        /\ UNCHANGED <<index, guest, peers, connected>>
        /\ \A m \in Node \ {n} : ok'[m] = ok[m]
        /\ backlog'[N] \in {backlog[N], Append(backlog[N], ReportOf(n))}
        /\ Shrinks(link'[l][N].q, link[l][N].q)
    BY <1>0, ReportSteps
  <1>2. Same(N) /\ Intruded
    BY <1>0, <1>1 DEF Orderly, Same, Intruded, Fresh
  <1>3. Unanswered /\ ~HasReported(l)
    BY <1>0, <1>2, NotInOperation
  <1>4. ok'[l] = ok[l] \/ ~ok'[l]
    <2>1. ReportDial(n) \/ ok' = ok
      BY <1>0 DEF ReportSelf, ReportEnd, At, Exit
    <2> QED BY <1>0, <2>1, ZenonT(40) DEF ReportDial, TypeOK
  <1>5. peer_f'[l] = peer_f[l]
    BY <1>0 DEF ReportDial, ReportSelf, ReportEnd, Exit
  <1>6. Ahead(backlog[N]) => Ahead(backlog'[N])
    <2>1. backlog[N] \in Seq(Dialer)
      BY <1>0 DEF TypeOK
    <2> QED BY <1>0, <1>1, <2>1, AheadMoves
  <1> QED BY <1>1, <1>2, <1>3, <1>4, <1>5, <1>6 DEF Unanswered, Same, Shrinks

LEMMA QuietQueue ==
    ASSUME IInv, ReportsOK, QueueOK, NodeOK(N), NodeOK(Pred(N)), NEW n \in Node, NodeOK(n), Orderly(n),
           alive' = alive, QuietStep(n)
    PROVE  QueueOK'
  <1> DEFINE l == Pred(N)
  <1>i. N \in Node /\ l \in Node /\ l # N /\ None # l /\ Bogus # N /\ None # N
    BY IdsApart
  <1>0. /\ N \in Node /\ l \in Node /\ l # N /\ l \in Dialer /\ TypeOK
        /\ Coherent(state[N], pc[N], peer_f[N], peer_b[N], guest[N])
        /\ Coherent(state[l], pc[l], peer_f[l], peer_b[l], guest[l])
    BY <1>i, ReportApart DEF IInv
  <1>r. ReportOf(l) # None
    BY <1>i, ReportApart, IdFacts
  <1> SUFFICES ASSUME alive[N], alive[l], Intruded' PROVE Unanswered'
    BY DEF QueueOK
  <1>1. \A m \in Node \ {n} : Same(m)
    BY DEF Orderly
  <1>2. ~(n = N /\ WaitingNewPeer(n))
    BY <1>0, NewPeerOrderly
  <1>3. Intruded
    <2>1. peer_b'[N] = peer_b[N]
      <3>1. CASE n # N
        BY <1>0, <1>1, <3>1 DEF Same
      <3>2. CASE n = N
        BY <1>2, <3>2 DEF QuietStep, Accept, Identify, RejectGuest, Receive, PollClient,
                          PollNothing, Serve, DropFromPeerB
      <3> QED BY <3>1, <3>2
    <2> QED BY <1>0, <2>1 DEF Intruded, Orderly, Ages
  <1>4. Unanswered /\ ~Working(N) /\ ~HasReported(l)
    BY <1>0, <1>3, NotInOperation
  <1>5. Working(n) \/ state[n] = "INDEX_WAITING_PEERS_KNOWLEDGE"
    BY QuietStates
  <1>6. n # l
    BY <1>0, <1>4, <1>5 DEF HasReported, NodeOK, NoviceOK, Novice, ElectionStates
  <1>7. AllShrink(link', link)
    BY QuietSteps DEF QuietStep
  <1>8. Same(l) /\ (link[l][N].q = <<>> => link'[l][N].q = <<>>)
    BY <1>0, <1>1, <1>6, <1>7 DEF AllShrink, Shrinks
  <1>9. ok'[l] = ok[l]
    BY <1>0, <1>4, AnswersFollowers DEF Unanswered
  <1>10. CASE n # N
    <2>1. Same(N) /\ guest'[N] = guest[N]
      BY <1>0, <1>1, <1>10, QuietGuests
    <2>2. backlog'[N] = backlog[N]
      <3>1. backlog' = backlog \/ backlog' = [backlog EXCEPT ![n] = Tail(@)]
        BY QuietGuests
      <3> QED BY <1>0, <1>10, <3>1 DEF TypeOK
    <2> QED BY <1>4, <1>8, <1>9, <2>1, <2>2 DEF Unanswered, Same
  <1>11. CASE n = N
    <2>1. state[N] = "INDEX_WAITING_PEERS_KNOWLEDGE"
      BY <1>4, <1>5, <1>11
    <2>2. Accept(N) \/ Identify(N) \/ RejectGuest(N)
      <3>1. pc[N] \notin {"poll", "receive"}
        BY <1>0, <2>1 DEF Coherent
      <3> QED BY <1>11, <2>1, <3>1 DEF QuietStep, Receive, PollClient, PollNothing, Serve,
                 DropFromPeerB, WaitingNewPeer, At, Polling
    <2>3. CASE Accept(N)
      <3>1. /\ pc[N] # "identify" /\ pc'[N] = "identify" /\ backlog[N] # <<>>
            /\ guest'[N] = Head(backlog[N]) /\ backlog'[N] = Tail(backlog[N])
        BY <1>0, <2>1, <2>3 DEF Accept, At, Polling, TypeOK
      <3>2. backlog[N] \in Seq(Dialer)
        BY <1>0 DEF TypeOK
      <3>3. Ahead(backlog[N]) => /\ Head(backlog[N]) # ReportOf(l)
                                 /\ Head(backlog[N]) = l \/ Ahead(Tail(backlog[N]))
        BY <3>2, AheadMoves
      <3>4. peer_f[l] = None \/ index[l] = Bogus => Head(backlog[N]) # ReportOf(l)
        <4>1. peer_f[l] = None \/ index[l] = Bogus => index[l] # N
          BY <1>i, <1>0 DEF Coherent, NodeOK, IndexOK, Fresh
        <4>2. index[l] # N => backlog[N] \in Seq(Dialer \ {ReportOf(l)})
          BY <1>i DEF ReportsOK, ReportOK
        <4> QED BY <3>1, <4>1, <4>2, SeqTypes
      <3> QED BY <1>4, <1>8, <1>9, <3>1, <3>3, <3>4 DEF Unanswered, Same
    <2>4. CASE Identify(N)
      <3>1. /\ pc[N] = "identify" /\ HasData(guest[N], N) /\ backlog' = backlog
            /\ guest'[N] \in {guest[N], None}
        BY <1>0, <2>4 DEF Identify, Presented, TypeOK
      <3> QED BY <1>i, <1>r, <1>4, <1>8, <1>9, <3>1 DEF Unanswered, Same, HasData
    <2>5. CASE RejectGuest(N)
      <3>1. /\ pc[N] = "identify" /\ backlog' = backlog /\ guest'[N] = None
            /\ HasData(guest[N], N) \/ Eof(guest[N], N)
        BY <1>0, <2>5 DEF RejectGuest, TypeOK
      <3>2. ~Eof(l, N)
        BY <1>0, GoneNode DEF Eof
      <3> QED BY <1>i, <1>r, <1>4, <1>8, <1>9, <3>1, <3>2 DEF Unanswered, Same, HasData
    <2> QED BY <2>2, <2>3, <2>4, <2>5
  <1> QED BY <1>10, <1>11

LEMMA SessionQueue ==
    ASSUME IInv, QueueOK, NEW n \in Node, NodeOK(n), Orderly(n), Session(n)
    PROVE  QueueOK'
  <1> DEFINE l == Pred(N)
  <1>i. N \in Node /\ l \in Node /\ l # N /\ alive' = alive
    BY IdsApart DEF Session
  <1>r. ReportOf(l) # None /\ l \in Dialer
    BY <1>i, ReportApart, IdFacts
  <1> SUFFICES ASSUME alive[N], alive[l], Intruded' PROVE Unanswered'
    BY <1>i DEF QueueOK
  <1>1. n = N /\ pc[N] = "session"
    BY SessionAt
  <1>2. /\ UNCHANGED <<ok, index, peer_f, peer_b, backlog>> /\ guest'[N] \in {guest[N], None}
    BY <1>i, <1>1 DEF Session, IInv, TypeOK
  <1>3. Unanswered
    BY <1>i, <1>2 DEF QueueOK, Intruded, Orderly, Ages
  <1>4. link[l][N].q = <<>> => link'[l][N].q = <<>>
    <2>1. AllShrink(link', link)
      BY QuietSteps
    <2> QED BY <1>i, <1>r, <2>1 DEF AllShrink, Shrinks
  <1> QED BY <1>r, <1>1, <1>2, <1>3, <1>4 DEF Unanswered

LEMMA DeathQueue ==
    ASSUME IInv, StreamsTrue, ReportsOK, QueueOK, NodeOK(N), NEW n \in Node, NodeOK(n),
           Orderly(n), alive' = alive, HealthCheck(n) \/ AdoptWidow(n) \/ ForwardDeath(n)
    PROVE  QueueOK'
  <1> DEFINE l == Pred(N)
  <1>i. N \in Node /\ l \in Node /\ l # N /\ n \in Dialer /\ l \in Dialer
    BY IdsApart, ReportApart
  <1> SUFFICES ASSUME alive[N], alive[l], Intruded' PROVE Unanswered'
    BY DEF QueueOK
  <1>1. /\ state[n] = "IDLE" /\ Working(n)' /\ UNCHANGED <<index, guest, connected, ok>>
        /\ \E y, pkts : Grows(link', link, n, y, pkts)
        /\ \A m \in Node : backlog'[m] \in {backlog[m], Append(backlog[m], n)}
    BY DeathSteps
  <1>2. \A m \in Node \ {n} : Same(m)
    BY DEF Orderly
  <1>3. Intruded
    <2>1. CASE n # N
      BY <1>i, <1>2, <2>1 DEF Same, Intruded, Fresh
    <2>2. CASE n = N
      <3>1. ~HealthCheck(N)
        BY <1>i, <2>2, HealthCheckOrderly
      <3>2. peer_b' = peer_b
        BY <2>2, <3>1, NoticeOrderly DEF AdoptWidow, ForwardDeath
      <3> QED BY <1>i, <1>1, <2>2, <3>2 DEF Intruded, Fresh, Working
    <2> QED BY <2>1, <2>2
  <1>4. ~Working(N) /\ ~HasReported(l)
    BY <1>i, <1>3, NotInOperation
  <1>5. n # N /\ n # l
    BY <1>1, <1>4 DEF HasReported, Working
  <1>6. Shrinks(link'[l][N].q, link[l][N].q)
    BY <1>i, <1>1, <1>5 DEF Grows
  <1>7. backlog'[N] = backlog[N] \/ \E x \in Dialer : backlog'[N] = Append(backlog[N], x)
    BY <1>i, <1>1
  <1>8. Same(N) /\ Same(l) /\ ok'[l] = ok[l] /\ guest'[N] = guest[N]
    BY <1>i, <1>1, <1>2, <1>5
  <1>9. QueueOK'
    BY <1>6, <1>7, <1>8, StandbyQueue DEF Orderly
  <1> QED BY <1>9 DEF QueueOK

LEMMA ClientQueue ==
    ASSUME IInv, QueueOK, NEW c \in Client, Ages, \A m \in Node : Same(m),
           ClientRequest(c) \/ ClientClose(c) \/ \E n \in Node : ClientConnect(c, n)
    PROVE  QueueOK'
  <1>i. N \in Node /\ Pred(N) \in Node /\ c \in Dialer /\ Pred(N) # c
    BY IdFacts, IdsApart
  <1>d. Pred(N) \in Dialer
    BY <1>i, ReportApart
  <1>1. UNCHANGED <<guest, ok>>
    BY DEF ClientRequest, ClientClose, ClientConnect
  <1>2. \E y, pkts : Grows(link', link, c, y, pkts)
    BY <1>i, ClientWrites, RequestWrites, ShrinkGrows
  <1>3. Shrinks(link'[Pred(N)][N].q, link[Pred(N)][N].q)
    BY <1>i, <1>d, <1>2 DEF Grows
  <1>4. backlog'[N] = backlog[N] \/ backlog'[N] = Append(backlog[N], c)
    <2>1. backlog \in [Node -> Seq(Dialer)]
      BY DEF IInv, TypeOK
    <2> QED BY <1>i, <2>1 DEF ClientRequest, ClientClose, ClientConnect
  <1> QED BY <1>i, <1>1, <1>3, <1>4, StandbyQueue

-----------------------------------------------------------------------------
(* The ring stays whole *)

LEMMA WholeFrame ==
    ASSUME WholeOK, Ages, NEW n \in Node, \A m \in Node \ {n} : Same(m),
           Dead = {} => /\ peer_f'[n] \in {None, Succ(n)}
                        /\ ~Fresh(n)' => peer_b'[n] # None
    PROVE  WholeOK'
  <1> SUFFICES ASSUME Dead' = {}, NEW m \in Node
               PROVE  peer_f'[m] \in {None, Succ(m)} /\ (~Fresh(m)' => peer_b'[m] # None)
    BY DEF WholeOK
  <1>1. Dead = {}
    BY DEF Dead, Ages
  <1>2. CASE m = n
    BY <1>1, <1>2
  <1>3. CASE m # n
    BY <1>1, <1>3 DEF WholeOK, Same, Fresh
  <1> QED BY <1>2, <1>3

LEMMA BootWhole ==
    ASSUME IInv, WholeOK, NEW n \in Node, Orderly(n),
           Boot(n) \/ Connecting(n) \/ BeginOperation(n)
    PROVE  WholeOK'
  <1>0. TypeOK
    BY DEF IInv
  <1>1. CASE Connecting(n)
    <2>1. /\ peer_f'[n] \in {peer_f[n], Succ(n)}
          /\ state'[n] = state[n] \/ peer_b'[n] # None
          /\ state[n] = "CONNECTING"
      BY <1>0, <1>1 DEF Connecting, At, BothConnected, TypeOK
    <2> QED BY <2>1, WholeFrame DEF Orderly, WholeOK, Fresh
  <1>2. CASE Boot(n) \/ BeginOperation(n)
    <2>1. UNCHANGED <<peer_f, peer_b>> /\ (~Fresh(n)' => ~Fresh(n))
      BY <1>0, <1>2 DEF Boot, BeginOperation, At, Goto, Fresh, TypeOK
    <2> QED BY <2>1, WholeFrame DEF Orderly, WholeOK
  <1> QED BY <1>1, <1>2

LEMMA LaterWhole ==
    ASSUME IInv, WholeOK, NEW n \in Node, NodeOK(n), Orderly(n), alive' = alive,
           \/ PresentItself(n) \/ WaitIndexGossip(n)
           \/ ReportDial(n) \/ ReportSelf(n) \/ ReportEnd(n)
           \/ Session(n) \/ QuietStep(n)
    PROVE  WholeOK'
  <1>0. TypeOK /\ Pred(n) \in Node /\ N \in Node
    BY IdFacts, IdsApart DEF IInv
  <1>1. CASE WaitingNewPeer(n)
    <2>1. Dead # {}
      BY <1>0, <1>1, NewPeerOrderly DEF Dead
    <2> QED BY <2>1, WholeFrame DEF Orderly
  <1>2. CASE ~WaitingNewPeer(n)
    <2>1. UNCHANGED <<peer_f, peer_b>>
      BY <1>2 DEF PresentItself, WaitIndexGossip, ReportDial, ReportSelf, ReportEnd, Exit, Session,
         QuietStep, Accept, Identify, RejectGuest, Receive, PollClient, PollNothing, Serve,
         DropFromPeerB
    <2>2. Dead = {} => ~Fresh(n)
      <3>1. CASE QuietStep(n)
        BY <1>0, <3>1, QuietStates DEF Dead, Working, Fresh
      <3>2. CASE ~QuietStep(n)
        BY <3>2 DEF PresentItself, WaitIndexGossip, ReportDial, ReportSelf, ReportEnd, Session,
           At, Fresh
      <3> QED BY <3>1, <3>2
    <2> QED BY <2>1, <2>2, WholeFrame DEF Orderly, WholeOK
  <1> QED BY <1>1, <1>2

LEMMA DeathWhole ==
    ASSUME IInv, StreamsTrue, WholeOK, NEW n \in Node, NodeOK(n), Orderly(n), alive' = alive,
           HealthCheck(n) \/ AdoptWidow(n) \/ ForwardDeath(n)
    PROVE  WholeOK'
  <1>1. Dead # {}
    BY DeathSteps DEF Dead
  <1> QED BY <1>1, WholeFrame DEF Orderly

-----------------------------------------------------------------------------
(* Every step keeps the invariant *)

\* A process that ends leaves everything in order.
LEMMA EndKeeps ==
    ASSUME FInv, IInv', NEW n \in Node, NEW K \in Links, AllShrink(K, link), Exit(n, K), alive[n]
    PROVE  FInv'
  <1> DEFINE l == Pred(N)
  <1>0. IInv /\ StreamsTrue /\ Listeners /\ ReportsOK /\ QueueOK
    BY DEF FInv
  <1>i. N \in Node /\ l \in Node /\ l \in Dialer /\ TypeOK /\ link \in Links
    BY <1>0, IdsApart, ReportApart DEF IInv, TypeOK, Links
  <1>1. /\ \A m \in Node : (alive'[m] => alive[m]) /\ (alive'[m] => m # n)
        /\ UNCHANGED <<state, pc, net_size, peer_f_id, peer_f, peer_b, guest, index, peers,
                       connected, ok>>
        /\ backlog' = [backlog EXCEPT ![n] = <<>>]
    BY <1>i DEF Exit, TypeOK
  <1>2. Ages /\ \A m \in Node : Same(m)
    BY <1>1 DEF Ages, Fresh, Same
  <1>3. AllShrink(link', link)
    BY <1>i, ExitShrinks
  <1>4. \A m \in Node : Shrinks(backlog'[m], backlog[m])
    BY <1>0, <1>1, BacklogShrinks
  <1>5. StreamsTrue' /\ Listeners'
    BY <1>0, <1>2, <1>3, <1>4, StreamsShrink, ListenersShrink
  <1>6. \A m \in Node : NodeOK(m)'
    BY <1>0, <1>2, NodeFrame DEF FInv
  <1>7. ReportsOK'
    <2> SUFFICES ASSUME alive'[N] PROVE ReportsOK'
      BY DEF ReportsOK
    <2>1. alive[N]
      BY <1>i, <1>1
    <2>2. Steady
      BY <1>2 DEF Steady, Same, HasReported, Working
    <2>3. Tabled
      BY <1>0, <1>1, <2>1 DEF Tabled, Working, ReportsOK, TableOK
    <2>4. Guests
      BY <1>1 DEF Guests
    <2>5. \A m \in Node : Shrinks(link'[ReportOf(m)][N].q, link[ReportOf(m)][N].q)
      BY <1>i, <1>3, ReportApart DEF AllShrink
    <2> QED BY <1>0, <1>1, <1>4, <2>1, <2>2, <2>3, <2>4, <2>5, NoQueue, ReportsFrame
  <1>8. QueueOK'
    <2>1. CASE n = N
      BY <1>i, <1>1, <2>1 DEF QueueOK
    <2>2. CASE n # N
      <3>1. backlog'[N] = backlog[N] /\ Shrinks(link'[l][N].q, link[l][N].q)
        BY <1>i, <1>1, <1>3, <2>2 DEF AllShrink, TypeOK
      <3> QED BY <1>0, <1>i, <1>1, <1>2, <3>1, StandbyQueue
    <2> QED BY <2>1, <2>2
  <1>9. WholeOK'
    <2>1. Dead' # {}
      BY <1>1 DEF Dead
    <2> QED BY <2>1 DEF WholeOK
  <1> QED BY <1>5, <1>6, <1>7, <1>8, <1>9 DEF FInv

\* Which steps end a process.
LEMMA EndSteps ==
    ASSUME IInv, NEW n \in Node, NodeStep(n) \/ Crash(n), alive' # alive
    PROVE  alive[n] /\ \E K \in Links : AllShrink(K, link) /\ Exit(n, K)
  <1>0. link \in Links /\ AllShrink(link, link) /\ TypeOK
    BY SameShrinks DEF IInv, TypeOK, Links
  <1>1. CASE Crash(n)
    BY <1>0, <1>1 DEF Crash
  <1>2. CASE GossipExit(n)
    BY <1>0, <1>2 DEF GossipExit, At
  <1>3. CASE ReportEnd(n)
    BY <1>0, <1>3 DEF ReportEnd, At
  <1>4. CASE HealthCheck(n)
    BY <1>0, <1>4 DEF HealthCheck, At
  <1>5. CASE AdoptWidow(n) \/ ForwardDeath(n)
    <2>1. /\ alive[n] /\ peer_b[n] \in Dialer /\ HasData(peer_b[n], n)
          /\ Exit(n, After(peer_b[n], n))
      BY <1>0, <1>5 DEF AdoptWidow, ForwardDeath, HearsOfDeath, At, TypeOK
    <2>2. After(peer_b[n], n) \in Links /\ AllShrink(After(peer_b[n], n), link)
      BY <1>0, <2>1, AfterType, AfterShrinks
    <2> QED BY <2>1, <2>2
  <1>6. \/ Crash(n) \/ GossipExit(n) \/ ReportEnd(n) \/ HealthCheck(n)
        \/ AdoptWidow(n) \/ ForwardDeath(n)
    BY DEF NodeStep, Boot, Connecting, BeginOperation, PresentItself, WaitIndexGossip, ReportDial,
       ReportSelf, Accept, Identify, RejectGuest, Session, Receive, PollClient, PollNothing, Serve,
       DropFromPeerB, WaitingNewPeer
  <1> QED BY <1>1, <1>2, <1>3, <1>4, <1>5, <1>6

LEMMA StepKeeps ==
    ASSUME FInv, IInv', NEW n \in Node, NodeStep(n), alive' = alive
    PROVE  FInv'
  <1>0. /\ IInv /\ StreamsTrue /\ Listeners /\ ReportsOK /\ QueueOK /\ WholeOK
        /\ NodeOK(n) /\ NodeOK(N) /\ NodeOK(Pred(N))
    BY IdsApart DEF FInv
  <1>d. ~alive[N] => ReportsOK'
    BY DEF ReportsOK
  <1> SUFFICES Orderly(n) /\ Truthful /\ ReportsOK' /\ QueueOK' /\ WholeOK'
    BY <1>0, NodeFrame DEF Orderly, Truthful, FInv
  <1>1. CASE Boot(n) \/ Connecting(n) \/ BeginOperation(n)
    <2>1. Orderly(n)
      BY <1>0, <1>1, BootOrderly
    <2>2. Truthful
      BY <1>0, <1>1, <2>1, QuietTruthful, ConnectingTruthful DEF Orderly
    <2> QED BY <1>0, <1>d, <1>1, <2>1, <2>2, BootReports, BootQueue, BootWhole
  <1>2. CASE PresentItself(n) \/ WaitIndexGossip(n)
    <2>1. Orderly(n)
      BY <1>0, <1>2, GossipOrderly
    <2>2. Truthful
      BY <1>0, <1>2, <2>1, GossipTruthful DEF Orderly
    <2> QED BY <1>0, <1>d, <1>2, <2>1, <2>2, GossipReports, GossipQueue, LaterWhole
  <1>3. CASE ReportDial(n) \/ ReportSelf(n) \/ ReportEnd(n)
    <2>1. Orderly(n)
      BY <1>0, <1>3, ReportOrderly
    <2>2. Truthful
      BY <1>0, <1>3, <2>1, ReportTruthful DEF Orderly
    <2> QED BY <1>0, <1>d, <1>3, <2>1, <2>2, ReportReports, ReportQueueKept, LaterWhole
  <1>4. CASE QuietStep(n)
    <2>1. Orderly(n)
      BY <1>0, <1>4, AcceptOrderly, ServeOrderly, NewPeerOrderly DEF QuietStep
    <2>2. Truthful
      BY <1>0, <1>4, <2>1, QuietTruthful DEF Orderly, QuietStep
    <2> QED BY <1>0, <1>d, <1>4, <2>1, <2>2, QuietReports, QuietQueue, LaterWhole
  <1>5. CASE Session(n)
    <2>0. n = N /\ AllReported(n) => peer_b[N] = Pred(N) \/ ~alive[Pred(N)]
      BY <1>0, <1>5, SessionCounts DEF Session, At
    <2>1. Orderly(n)
      BY <1>0, <1>5, <2>0, SessionOrderly
    <2>2. Truthful
      BY <1>0, <1>5, <2>1, QuietTruthful DEF Orderly
    <2>3. ReportsOK'
      BY <1>0, <1>d, <1>5, <2>1, SessionAt, SessionReports
    <2> QED BY <1>0, <1>5, <2>1, <2>2, <2>3, SessionQueue, LaterWhole
  <1>6. CASE HealthCheck(n) \/ AdoptWidow(n) \/ ForwardDeath(n)
    <2>1. Orderly(n)
      BY <1>0, <1>6, HealthCheckOrderly, NoticeOrderly
    <2>2. Truthful
      BY <1>0, <1>6, <2>1, HealthCheckTruthful, NoticeTruthful DEF Orderly
    <2> QED BY <1>0, <1>d, <1>6, <2>1, <2>2, DeathReports, DeathQueue, DeathWhole
  <1>7. CASE GossipExit(n)
    BY <1>0, <1>7 DEF GossipExit, At, Exit, IInv, TypeOK
  <1> QED BY <1>1, <1>2, <1>3, <1>4, <1>5, <1>6, <1>7 DEF NodeStep, QuietStep

LEMMA InitFInv == Init => FInv
  <1> SUFFICES ASSUME Init PROVE FInv
    OBVIOUS
  <1>0. IInv
    BY InitIInv
  <1>1. \A a \in Dialer, n \in Node : link[a][n].q = <<>>
    BY DEF Init, NoLink
  <1>2. N \in Node /\ Pred(N) \in Node \ {N} /\ None \notin Node /\ Bogus # None
    BY IdsApart
  <1>d. Pred(N) \in Dialer /\ ReportOf(Pred(N)) # None
    BY <1>2, ReportApart, IdFacts
  <1>3. StreamsTrue /\ Listeners
    BY <1>1, EmptySeq DEF Init, StreamsTrue, Listeners
  <1>4. \A n \in Node : NodeOK(n)
    BY <1>2, IdFacts DEF Init, NodeOK, WidowOK, IndexOK, NoviceOK, Novice, IntruderOK, Fresh,
       Working, ElectionStates
  <1>5. ReportsOK
    <2>1. NoSelf(<<>>) /\ OneSelf(<<>>)
      BY DEF NoSelf, OneSelf
    <2>2. TableOK
      BY <1>1, <1>2, <2>1, ReportApart DEF Init, TableOK, Working
    <2>3. ASSUME NEW m \in Node \ {N} PROVE ReportOK(m) /\ CallersOK(m)
      <3>1. ReportOf(m) # None /\ None \notin Reporter
        BY <1>2, ReportApart, IdFacts
      <3>2. link[ReportOf(m)][N].q = <<>>
        BY <1>1, <1>2, ReportApart
      <3> QED BY <1>2, <2>1, <3>1, <3>2, EmptySeq
              DEF Init, ReportOK, CallersOK, HasReported, Working
    <2> QED BY <2>2, <2>3 DEF ReportsOK
  <1>6. QueueOK
    BY <1>1, <1>2, <1>d DEF Init, QueueOK, Unanswered
  <1>7. WholeOK
    BY DEF Init, WholeOK, Fresh
  <1> QED BY <1>0, <1>3, <1>4, <1>5, <1>6, <1>7 DEF FInv

LEMMA NextFInv == FInv /\ [Next]_vars => FInv'
  <1> SUFFICES ASSUME FInv, [Next]_vars PROVE FInv'
    OBVIOUS
  <1>0. IInv'
    BY NextIInv DEF FInv
  <1>1. ASSUME NEW n \in Node, NodeStep(n) \/ Crash(n) PROVE FInv'
    <2>1. CASE alive' # alive
      <3>1. PICK K \in Links : AllShrink(K, link) /\ Exit(n, K) /\ alive[n]
        BY <1>1, <2>1, EndSteps DEF FInv
      <3> QED BY <1>0, <3>1, EndKeeps
    <2>2. CASE alive' = alive
      <3>1. NodeStep(n)
        BY <1>1, <2>2 DEF Crash, Exit, FInv, IInv, TypeOK
      <3> QED BY <1>0, <2>2, <3>1, StepKeeps
    <2> QED BY <2>1, <2>2
  <1>2. ASSUME NEW c \in Client,
               ClientRequest(c) \/ ClientClose(c) \/ \E n \in Node : ClientConnect(c, n)
        PROVE  FInv'
    <2>0. IInv /\ StreamsTrue /\ Listeners /\ ReportsOK /\ QueueOK /\ WholeOK
      BY DEF FInv
    <2>1. Truthful /\ Ages /\ \A m \in Node : Same(m)
      BY <1>2, <2>0, ClientTruthful
    <2>2. \A m \in Node : NodeOK(m)'
      BY <2>0, <2>1, NodeFrame DEF FInv
    <2>3. ReportsOK'
      <3>1. CASE alive[N]
        BY <1>2, <2>0, <2>1, <3>1, ClientReports
      <3>2. CASE ~alive[N]
        BY <2>1, <3>2, IdsApart DEF ReportsOK, Ages
      <3> QED BY <3>1, <3>2
    <2>4. QueueOK'
      BY <1>2, <2>0, <2>1, ClientQueue
    <2>5. WholeOK'
      BY <2>0, <2>1 DEF WholeOK, Ages, Same, Fresh, Dead
    <2> QED BY <1>0, <2>1, <2>2, <2>3, <2>4, <2>5 DEF FInv, Truthful
  <1>3. CASE UNCHANGED vars
    <2>0. IInv /\ StreamsTrue /\ Listeners /\ ReportsOK /\ QueueOK /\ WholeOK
      BY DEF FInv
    <2>i. N \in Node /\ Pred(N) \in Node
      BY IdsApart
    <2>u. UNCHANGED <<alive, state, pc, net_size, peer_f_id, peer_f, peer_b, link, backlog, guest,
                      index, peers, connected, ok>>
      BY <1>3 DEF vars
    <2>1. Ages /\ \A m \in Node : Same(m)
      BY <2>u DEF Ages, Fresh, Same
    <2>2. AllShrink(link', link) /\ \A m \in Node : Shrinks(backlog'[m], backlog[m])
      BY <2>u, SameShrinks DEF Shrinks
    <2>3. StreamsTrue' /\ Listeners'
      BY <2>0, <2>1, <2>2, StreamsShrink, ListenersShrink
    <2>4. \A m \in Node : NodeOK(m)'
      BY <2>0, <2>1, NodeFrame DEF FInv
    <2>5. ReportsOK'
      <3> SUFFICES ASSUME alive[N] PROVE ReportsOK'
        BY <2>u DEF ReportsOK
      <3>1. Steady /\ Guests
        BY <2>u DEF Steady, HasReported, Working, Guests
      <3>2. Tabled
        BY <2>0, <2>u DEF Tabled, Working, ReportsOK, TableOK
      <3>3. \A m \in Node : Shrinks(link'[ReportOf(m)][N].q, link[ReportOf(m)][N].q)
        BY <2>u DEF Shrinks
      <3> QED BY <2>0, <2>2, <2>u, <3>1, <3>2, <3>3, NoQueue, ReportsFrame
    <2>6. QueueOK'
      BY <2>0, <2>i, <2>1, <2>u, StandbyQueue DEF Shrinks
    <2>7. WholeOK'
      BY <2>0, <2>1 DEF WholeOK, Ages, Same, Fresh, Dead
    <2> QED BY <1>0, <2>3, <2>4, <2>5, <2>6, <2>7 DEF FInv
  <1> QED BY <1>1, <1>2, <1>3 DEF Next

\* The invariant holds in every reachable state.
THEOREM FormationInvariance == Spec => []FInv
  BY InitFInv, NextFInv, PTL DEF Spec

-----------------------------------------------------------------------------
(* The announcement of the first index, while it lives *)

Early(n) == state[n] \in {"BOOTING", "CONNECTING", "BEGIN_OPERATION", "INDEX_PRESENT_ITSELF",
                          "WAIT_INDEX_GOSSIP"}

GossipAt(q, i) == i \in DOMAIN q /\ q[i].type = "GOSSIP"
NoGossip(q)    == \A i \in DOMAIN q : ~GossipAt(q, i)
LeadsOnly(q)   == \A i \in DOMAIN q : GossipAt(q, i) => i = 1

\* A node says nothing before it passes the announcement on, so the announcement
\* leads every queue it stands in and a read that begins with another packet cannot
\* carry it along; and it never comes into a queue of N.
Announced ==
    /\ \A a \in Node : Early(a) => \A n \in Node : link[a][n].q = <<>>
    /\ \A a \in Dialer, n \in Node : LeadsOnly(link[a][n].q)
    /\ \A a \in Dialer : NoGossip(link[a][N].q)
    /\ \A n \in Node \ {N} : peers[n] = {}

\* What the first index's life adds to the invariant.
FirstLife == FInv /\ (alive[N] => Announced)

LEMMA ShrinksGossip ==
    ASSUME NEW q \in Seq(Packet), NEW r, Shrinks(r, q)
    PROVE  /\ r \in Seq(Packet)
           /\ q = <<>> => r = <<>>
           /\ NoGossip(q) => NoGossip(r)
           /\ LeadsOnly(q) => LeadsOnly(r)
  <1>1. CASE r = q
    BY <1>1
  <1>2. CASE r = <<>>
    BY <1>2 DEF NoGossip, LeadsOnly
  <1>3. CASE q # <<>> /\ r = Tail(q)
    <2>1. /\ r \in Seq(Packet) /\ Len(r) = Len(q) - 1 /\ DOMAIN r = 1 .. Len(r) /\ DOMAIN q = 1 .. Len(q)
          /\ \A i \in 1 .. Len(r) : r[i] = q[i + 1]
      BY <1>3
    <2>2. Len(q) \in Nat
      OBVIOUS
    <2>3. NoGossip(q) => NoGossip(r)
      BY <2>1, <2>2 DEF NoGossip, GossipAt
    <2>4. LeadsOnly(q) => LeadsOnly(r)
      BY <2>1, <2>2 DEF LeadsOnly, GossipAt
    <2> QED BY <1>3, <2>1, <2>3, <2>4
  <1> QED BY <1>1, <1>2, <1>3 DEF Shrinks

LEMMA AppendGossip ==
    ASSUME NEW r \in Seq(Packet), NEW p \in Seq(Packet), NoGossip(p) \/ r = <<>>
    PROVE  /\ NoGossip(r) /\ NoGossip(p) => NoGossip(r \o p)
           /\ LeadsOnly(r) /\ LeadsOnly(p) => LeadsOnly(r \o p)
  <1>1. /\ Len(r \o p) = Len(r) + Len(p) /\ DOMAIN (r \o p) = 1 .. Len(r) + Len(p)
        /\ DOMAIN r = 1 .. Len(r) /\ DOMAIN p = 1 .. Len(p) /\ Len(r) \in Nat /\ Len(p) \in Nat
        /\ \A i \in 1 .. Len(r) + Len(p) : (r \o p)[i] = IF i <= Len(r) THEN r[i] ELSE p[i - Len(r)]
    OBVIOUS
  <1>2. CASE r = <<>>
    <2>1. r \o p = p
      BY <1>2
    <2> QED BY <2>1
  <1>3. CASE NoGossip(p)
    <2>1. ASSUME NEW i \in DOMAIN (r \o p), GossipAt(r \o p, i)
          PROVE  i \in DOMAIN r /\ GossipAt(r, i)
      <3>1. i \in Int /\ (i <= Len(r) \/ i - Len(r) \in DOMAIN p)
        BY <1>1
      <3>2. i <= Len(r)
        BY <1>1, <1>3, <2>1, <3>1 DEF NoGossip, GossipAt
      <3> QED BY <1>1, <2>1, <3>2 DEF GossipAt
    <2> QED BY <2>1 DEF NoGossip, LeadsOnly
  <1> QED BY <1>2, <1>3

LEMMA TakenGossip ==
    ASSUME NEW q \in Seq(Packet), q # <<>>, LeadsOnly(q)
    PROVE  /\ Taken(q) \in Seq(Packet)
           /\ LeadsOnly(Taken(q))
           /\ Head(q).type # "GOSSIP" => NoGossip(Taken(q))
  <1>1. Head(q) = q[1] /\ Len(q) \in Nat /\ Head(q) \in Packet /\ DOMAIN q = 1 .. Len(q) /\ 1 \in DOMAIN q
    OBVIOUS
  <1>2. CASE Coalescing
    BY <1>1, <1>2 DEF Taken, LeadsOnly, NoGossip, GossipAt
  <1>3. CASE ~Coalescing
    <2>1. Taken(q) = <<Head(q)>> /\ DOMAIN <<Head(q)>> = {1} /\ <<Head(q)>>[1] = Head(q)
      BY <1>3 DEF Taken
    <2> QED BY <1>1, <2>1, SingleSeq DEF LeadsOnly, NoGossip, GossipAt
  <1> QED BY <1>2, <1>3

\* A step writes nothing that disturbs the announcement.
LEMMA AnnouncedStep ==
    ASSUME IInv, Announced, NEW x, NEW y \in Node, NEW pkts \in Seq(Packet),
           Grows(link', link, x, y, pkts),
           x \in Dialer,
           LeadsOnly(pkts), y = N => NoGossip(pkts),
           NoGossip(pkts) \/ \A m \in Node : link[x][m].q = <<>>,
           x \in Node /\ pkts # <<>> => ~Early(x)',
           \A m \in Node : Early(m)' => Early(m),
           \A m \in Node \ {N} : peers'[m] = {}
    PROVE  Announced'
  <1>0. \A a \in Dialer, n \in Node : link[a][n].q \in Seq(Packet)
    BY DEF IInv, TypeOK, Stream
  <1>n. N \in Node
    BY IdsApart
  <1>1. ASSUME NEW a \in Dialer, NEW n \in Node
        PROVE  /\ LeadsOnly(link'[a][n].q)
               /\ n = N => NoGossip(link'[a][n].q)
               /\ link[a][n].q = <<>> /\ (a # x \/ pkts = <<>>) => link'[a][n].q = <<>>
    <2>0. LeadsOnly(link[a][n].q) /\ (n = N => NoGossip(link[a][n].q)) /\ link[a][n].q \in Seq(Packet)
      BY <1>0 DEF Announced
    <2>1. CASE Shrinks(link'[a][n].q, link[a][n].q)
      BY <2>0, <2>1, ShrinksGossip
    <2>2. CASE a = x /\ n = y
      <3> SUFFICES ASSUME NEW r \in Seq(Packet), Shrinks(r, link[x][y].q), link'[x][y].q = r \o pkts
                   PROVE  /\ LeadsOnly(link'[a][n].q)
                          /\ n = N => NoGossip(link'[a][n].q)
                          /\ link[a][n].q = <<>> /\ pkts = <<>> => link'[a][n].q = <<>>
        BY <2>1, <2>2 DEF Grows
      <3>1. /\ LeadsOnly(r) /\ (n = N => NoGossip(r))
            /\ link[x][y].q = <<>> => r = <<>>
        BY <2>0, <2>2, ShrinksGossip
      <3>2. NoGossip(pkts) \/ r = <<>>
        BY <3>1
      <3>3. r = <<>> /\ pkts = <<>> => r \o pkts = <<>>
        OBVIOUS
      <3> QED BY <2>2, <3>1, <3>2, <3>3, AppendGossip
    <2> QED BY <2>1, <2>2 DEF Grows
  <1>2. \A a \in Node : Early(a)' => \A n \in Node : link'[a][n].q = <<>>
    <2> SUFFICES ASSUME NEW a \in Node, Early(a)', NEW n \in Node PROVE link'[a][n].q = <<>>
      OBVIOUS
    <2>1. a \in Dialer /\ link[a][n].q = <<>>
      BY IdFacts DEF Announced
    <2> QED BY <1>1, <2>1
  <1> QED BY <1>1, <1>2, <1>n DEF Announced

\* With a step that only reads.
LEMMA AnnouncedShrinks ==
    ASSUME IInv, Announced, AllShrink(link', link),
           \A m \in Node : Early(m)' => Early(m),
           \A m \in Node \ {N} : peers'[m] = {}
    PROVE  Announced'
  <1>1. <<>> \in Seq(Packet) /\ LeadsOnly(<<>>) /\ NoGossip(<<>>)
    BY EmptySeq DEF LeadsOnly, NoGossip
  <1>2. N \in Node /\ N \in Dialer
    BY IdFacts, IdsApart
  <1>3. Grows(link', link, N, N, <<>>)
    BY ShrinkGrows
  <1> QED BY <1>1, <1>2, <1>3, AnnouncedStep

\* No node that has passed the announcement on, or made it, votes again.
LEMMA EarlyAges ==
    ASSUME FInv, FInv', NEW n \in Node, NodeStep(n), alive' = alive, alive[N]
    PROVE  \A m \in Node : Early(m)' => Early(m)
  <1>0. IInv /\ IInv' /\ NodeOK(n) /\ NodeOK(n)' /\ alive'[N] /\ TypeOK
    BY DEF FInv, IInv
  <1>1. \A m \in Node \ {n} : state'[m] = state[m]
    <2>1. CASE \/ Boot(n) \/ Connecting(n) \/ BeginOperation(n) \/ PresentItself(n)
               \/ WaitIndexGossip(n) \/ GossipExit(n) \/ ReportDial(n) \/ ReportSelf(n)
               \/ ReportEnd(n) \/ Accept(n) \/ Identify(n) \/ RejectGuest(n)
      BY <1>0, <2>1 DEF Boot, Connecting, BeginOperation, PresentItself, WaitIndexGossip, GossipExit,
         ReportDial, ReportSelf, ReportEnd, Accept, Identify, RejectGuest, Goto, Exit, TypeOK
    <2>2. CASE \/ Session(n) \/ Receive(n) \/ PollClient(n) \/ PollNothing(n) \/ Serve(n)
               \/ HealthCheck(n) \/ AdoptWidow(n) \/ ForwardDeath(n) \/ DropFromPeerB(n)
               \/ WaitingNewPeer(n)
      BY <1>0, <2>2, SMTT(30) DEF Session, Receive, PollClient, PollNothing, Serve, HealthCheck, AdoptWidow,
         ForwardDeath, DropFromPeerB, WaitingNewPeer, Bury, Goto, Exit, TypeOK
    <2> QED BY <2>1, <2>2 DEF NodeStep
  <1>2. index' = index \/ Early(n)
    BY DEF NodeStep, Boot, Connecting, BeginOperation, PresentItself, WaitIndexGossip, GossipExit,
       ReportDial, ReportSelf, ReportEnd, Accept, Identify, RejectGuest, Session, Receive, PollClient,
       PollNothing, Serve, HealthCheck, AdoptWidow, ForwardDeath, DropFromPeerB, WaitingNewPeer,
       Exit, At, Early
  <1>3. Early(n)' => index'[n] = None
    BY <1>0 DEF NodeOK, IndexOK, Early, Fresh
  <1>4. ~Early(n) => index[n] # None
    <2>1. state[n] \in State /\ None \notin Node
      BY <1>0, IdsApart DEF TypeOK
    <2> QED BY <1>0, <2>1 DEF NodeOK, IndexOK, Early, Working, State
  <1>5. Early(n)' => Early(n)
    BY <1>2, <1>3, <1>4
  <1> QED BY <1>1, <1>5 DEF Early

\* Only N is reported to.
LEMMA OthersHaveNoTable ==
    ASSUME FInv, Announced, NEW n \in Node, NodeStep(n), alive[N]
    PROVE  \A m \in Node \ {N} : peers'[m] = {}
  <1>0. IInv /\ TypeOK /\ NodeOK(n) /\ \A m \in Node \ {N} : peers[m] = {}
    BY DEF FInv, IInv, Announced
  <1>1. CASE peers' = peers
    BY <1>0, <1>1
  <1>2. CASE BeginOperation(n)
    <2>1. peers' \in {peers, [peers EXCEPT ![n] = {}]}
      BY <1>2 DEF BeginOperation
    <2> QED BY <1>0, <2>1 DEF TypeOK
  <1>3. CASE Session(n)
    <2>1. n = N
      BY <1>0, <1>3 DEF Session, At, NodeOK, NoviceOK, Novice, ElectionStates
    <2>2. \A m \in Node \ {n} : peers'[m] = peers[m]
      BY <1>0, <1>3 DEF Session, TypeOK
    <2> QED BY <1>0, <2>1, <2>2
  <1>4. CASE HealthCheck(n) \/ AdoptWidow(n) \/ ForwardDeath(n)
    <2>1. PICK d : peers' \in {peers, [peers EXCEPT ![n] = @ \ {d}]}
      BY <1>4 DEF HealthCheck, AdoptWidow, ForwardDeath, Bury, Exit
    <2>2. CASE peers' = peers
      BY <1>0, <2>2
    <2>3. CASE peers' = [peers EXCEPT ![n] = @ \ {d}]
      <3>1. \A m \in Node : peers'[m] = IF m = n THEN peers[n] \ {d} ELSE peers[m]
        BY <1>0, <2>3 DEF TypeOK
      <3>2. {} \ {d} = {}
        OBVIOUS
      <3> QED BY <1>0, <3>1, <3>2
    <2> QED BY <2>1, <2>2, <2>3
  <1> QED
    BY <1>1, <1>2, <1>3, <1>4
       DEF NodeStep, Boot, Connecting, PresentItself, WaitIndexGossip, GossipExit,
           ReportDial, ReportSelf, ReportEnd, Accept, Identify, RejectGuest, Receive, PollClient,
           PollNothing, Serve, DropFromPeerB, WaitingNewPeer, Exit

LEMMA SimpleGossip ==
    /\ \A t \in {"PRESENT_ITSELF", "REPORT_SELF", "OK", "REQUEST"} :
         /\ <<Simple(t)>> \in Seq(Packet)
         /\ NoGossip(<<Simple(t)>>) /\ LeadsOnly(<<Simple(t)>>)
    /\ \A d, w \in Node :
         /\ <<Died(d, w)>> \in Seq(Packet)
         /\ NoGossip(<<Died(d, w)>>) /\ LeadsOnly(<<Died(d, w)>>)
    /\ \A i \in Node : <<Gossip(i)>> \in Seq(Packet) /\ LeadsOnly(<<Gossip(i)>>)
    /\ <<>> \in Seq(Packet) /\ LeadsOnly(<<>>) /\ NoGossip(<<>>)
  <1>0. \A p : DOMAIN <<p>> = {1} /\ <<p>>[1] = p
    OBVIOUS
  <1>1. \A p : /\ LeadsOnly(<<p>>)
               /\ p.type # "GOSSIP" => NoGossip(<<p>>)
    BY <1>0 DEF LeadsOnly, NoGossip, GossipAt
  <1>2. /\ \A t : Simple(t).type = t
        /\ \A d, w : Died(d, w).type = "PEER_DIED"
    BY DEF Simple, Died
  <1>3. <<>> \in Seq(Packet) /\ LeadsOnly(<<>>) /\ NoGossip(<<>>)
    BY EmptySeq DEF LeadsOnly, NoGossip
  <1> QED BY <1>1, <1>2, <1>3, SingleSeq, PacketTypes

\* The announcement itself: N makes it, and the node before N keeps it.
LEMMA GossipAnnounced ==
    ASSUME FInv, Announced, FInv', NEW n \in Node, alive[N], alive' = alive,
           PresentItself(n) \/ WaitIndexGossip(n)
    PROVE  Announced'
  <1>0. /\ IInv /\ TypeOK /\ StreamsTrue /\ NodeOK(n)
        /\ Coherent(state[n], pc[n], peer_f[n], peer_b[n], guest[n])
    BY DEF FInv, IInv
  <1>i. N \in Node /\ N \in Nat \ {0, 1} /\ n \in Dialer /\ None \notin Node /\ Succ(n) \in Node
    BY IdFacts, IdsApart, RingConstants
  <1>s. NodeStep(n)
    BY DEF NodeStep
  <1>e. \A m \in Node : Early(m)' => Early(m)
    BY <1>s, EarlyAges
  <1>t. \A m \in Node \ {N} : peers'[m] = {}
    BY <1>s, OthersHaveNoTable
  <1>1. Early(n) /\ ~Early(n)' /\ \A m \in Node : link[n][m].q = <<>>
    <2>1. Early(n)
      BY DEF PresentItself, WaitIndexGossip, At, Early
    <2>2. state'[n] \in {"INDEX_WAITING_PEERS_KNOWLEDGE", "REPORT_KNOWLEDGE_TO_INDEX"}
      BY <1>0 DEF PresentItself, WaitIndexGossip, Goto, TypeOK
    <2> QED BY <2>1, <2>2 DEF Early, Announced
  <1>2. /\ peer_f[n] = Succ(n) /\ peer_f_id[n] = Succ(n)
        /\ peer_b[n] \in {Pred(n)} \cup Client
        /\ PresentItself(n) => n = N
    <2>1. state[n] \in ElectionStates /\ Novice(n)
      BY DEF PresentItself, WaitIndexGossip, At, ElectionStates, Novice
    <2>2. peer_f[n] # None /\ peer_b[n] # None
      BY <1>0, <2>1 DEF Coherent, ElectionStates
    <2>3. /\ peer_f_id[n] = Succ(n) /\ peer_f[n] \in {None, Succ(n)}
          /\ peer_b[n] \in {None, Pred(n)} \cup Client
          /\ state[n] = "INDEX_PRESENT_ITSELF" => n = N
      BY <1>0, <2>1 DEF NodeOK, NoviceOK
    <2>4. PresentItself(n) => state[n] = "INDEX_PRESENT_ITSELF"
      BY DEF PresentItself, At
    <2> QED BY <2>2, <2>3, <2>4
  <1>3. CASE PresentItself(n)
    <2>1. Succ(n) # N
      BY <1>i, <1>2, <1>3, IdFacts DEF Succ, Node
    <2>2. Grows(link', link, n, Succ(n), <<Gossip(n)>>)
      BY <1>0, <1>2, <1>3, PresentWrites
    <2> QED BY <1>0, <1>i, <1>e, <1>t, <1>1, <2>1, <2>2, SimpleGossip, AnnouncedStep
  <1>4. CASE WaitIndexGossip(n)
    <2> DEFINE b == peer_b[n]
               pkts == Taken(link[b][n].q)
    <2>1. CASE AllShrink(link', link)
      BY <1>0, <1>e, <1>t, <2>1, AnnouncedShrinks
    <2>2. CASE /\ GossipForwarded(n) /\ HasData(b, n)
               /\ Grows(link', link, n, peer_f[n], pkts)
      <3>1. b \in Dialer /\ link[b][n].q # <<>> /\ link[b][n].q \in Seq(Packet)
            /\ LeadsOnly(link[b][n].q)
        <4>1. b \in Dialer
          BY <1>0, <1>2, IdFacts DEF TypeOK
        <4> QED BY <1>0, <2>2, <4>1 DEF HasData, Announced, TypeOK, Stream
      <3>2. pkts \in Seq(Packet) /\ LeadsOnly(pkts)
            /\ (Head(link[b][n].q).type # "GOSSIP" => NoGossip(pkts))
        BY <3>1, TakenGossip
      <3>3. Succ(n) = N => Head(link[b][n].q).type # "GOSSIP"
        <4> SUFFICES ASSUME Head(link[b][n].q).type = "GOSSIP" PROVE Succ(n) # N
          OBVIOUS
        <4>1. First(b, n).type = "GOSSIP" /\ First(b, n).index_id = N
          <5>1. First(b, n) \in Packet /\ Sayable(b, First(b, n)) /\ First(b, n).type = "GOSSIP"
            BY <1>0, <2>2, <3>1, FirstSaid DEF First
          <5> QED BY <5>1 DEF Sayable
        <4>2. GossipRead(n) = N
          BY <2>2, <4>1 DEF GossipRead
        <4> QED BY <1>2, <2>2, <4>2 DEF GossipForwarded
      <3> HIDE DEF pkts
      <3> QED BY <1>0, <1>i, <1>e, <1>t, <1>1, <1>2, <2>2, <3>2, <3>3, AnnouncedStep
    <2> QED BY <1>0, <1>4, <2>1, <2>2, WaitGossipWrites
  <1> QED BY <1>3, <1>4

\* Death notices: a notice at the head of a queue is not followed by the announcement.
LEMMA DeathAnnounced ==
    ASSUME FInv, Announced, FInv', NEW n \in Node, alive[N], alive' = alive,
           HealthCheck(n) \/ AdoptWidow(n) \/ ForwardDeath(n)
    PROVE  Announced'
  <1>0. /\ IInv /\ TypeOK /\ n \in Dialer /\ alive[n]
        /\ Coherent(state[n], pc[n], peer_f[n], peer_b[n], guest[n])
    BY IdFacts DEF FInv, IInv, HealthCheck, AdoptWidow, ForwardDeath, HearsOfDeath, At
  <1>s. NodeStep(n)
    BY DEF NodeStep
  <1>e. \A m \in Node : Early(m)' => Early(m)
    BY <1>s, EarlyAges
  <1>t. \A m \in Node \ {N} : peers'[m] = {}
    BY <1>s, OthersHaveNoTable
  <1>1. ~Early(n)' /\ peer_f[n] \in Node
    <2>1. state[n] = "IDLE"
      BY DEF HealthCheck, AdoptWidow, ForwardDeath, HearsOfDeath, At
    <2>2. ~Early(n)
      BY <2>1 DEF Early
    <2>3. peer_f[n] # None
      BY <1>0, <2>1 DEF Coherent
    <2> QED BY <1>0, <1>e, <2>2, <2>3 DEF TypeOK
  <1>2. CASE HealthCheck(n)
    <2>1. Grows(link', link, n, peer_f[n], <<Died(Pred(n), n)>>)
      BY <1>0, <1>2, HealthCheckWrites
    <2>2. Pred(n) \in Node
      BY IdFacts
    <2> QED BY <1>0, <1>e, <1>t, <1>1, <2>1, <2>2, SimpleGossip, AnnouncedStep
  <1>3. CASE AdoptWidow(n) \/ ForwardDeath(n)
    <2> DEFINE b == peer_b[n]
               p == First(b, n)
               pkts == Taken(link[b][n].q)
    <2>1. b \in Dialer /\ HasData(b, n) /\ p.type = "PEER_DIED"
      BY <1>0, <1>3 DEF AdoptWidow, ForwardDeath, HearsOfDeath, TypeOK
    <2>2. link[b][n].q # <<>> /\ link[b][n].q \in Seq(Packet) /\ LeadsOnly(link[b][n].q)
      BY <1>0, <2>1 DEF HasData, Announced, TypeOK, Stream
    <2>3. pkts \in Seq(Packet) /\ LeadsOnly(pkts) /\ NoGossip(pkts)
      <3>1. Head(link[b][n].q).type # "GOSSIP"
        BY <2>1 DEF First
      <3> QED BY <2>2, <3>1, TakenGossip
    <2>4. p \in Packet /\ p.widow \in Node
      <3>1. p \in Packet
        BY <2>1, FirstSaid DEF FInv
      <3> QED BY <2>1, <3>1, PacketFields
    <2>5. ~(AdoptWidow(n) /\ Minus(net_size[n], 1) = 0) /\ ~(ForwardDeath(n) /\ SendKill(n, peer_f[n]))
      BY <1>0 DEF AdoptWidow, ForwardDeath, Exit, TypeOK
    <2>6. /\ AdoptWidow(n) => Grows(link', link, n, p.widow, <<>>)
          /\ ForwardDeath(n) => Grows(link', link, n, peer_f[n], pkts)
      BY <1>0, <2>1, <2>5, NoticeWrites
    <2> HIDE DEF p, pkts
    <2>7. CASE AdoptWidow(n)
      BY <1>0, <1>e, <1>t, <1>1, <2>4, <2>6, <2>7, SimpleGossip, AnnouncedStep
    <2>8. CASE ForwardDeath(n)
      BY <1>0, <1>e, <1>t, <1>1, <2>3, <2>6, <2>8, AnnouncedStep
    <2> QED BY <1>3, <2>7, <2>8
  <1> QED BY <1>2, <1>3

\* Every other step of a node writes a simple packet into its report connection, or none.
LEMMA OtherAnnounced ==
    ASSUME FInv, Announced, FInv', NEW n \in Node, alive[N], alive' = alive,
           NodeStep(n), ~PresentItself(n), ~WaitIndexGossip(n),
           ~HealthCheck(n), ~AdoptWidow(n), ~ForwardDeath(n)
    PROVE  Announced'
  <1>0. IInv /\ TypeOK /\ n \in Dialer
    BY IdFacts DEF FInv, IInv
  <1>e. \A m \in Node : Early(m)' => Early(m)
    BY EarlyAges
  <1>t. \A m \in Node \ {N} : peers'[m] = {}
    BY OthersHaveNoTable
  <1>1. CASE Connecting(n)
    <2>1. Grows(link', link, n, Succ(n), <<>>) /\ Succ(n) \in Node
      BY <1>0, <1>1, ConnectingWrites, IdFacts
    <2> QED BY <1>0, <1>e, <1>t, <2>1, SimpleGossip, AnnouncedStep
  <1>2. CASE ReportDial(n) \/ ReportSelf(n) \/ ReportEnd(n)
    <2>1. ReportOf(n) \in Dialer /\ ReportOf(n) \notin Node
      BY ReportApart, IdFacts
    <2>2. PICK t \in {"PRESENT_ITSELF", "REPORT_SELF", "OK", "REQUEST"} :
             Grows(link', link, ReportOf(n), index[n], <<Simple(t)>>)
      BY <1>0, <1>2, ReportWrites
    <2>3. CASE index[n] \in Node
      BY <1>0, <1>e, <1>t, <2>1, <2>2, <2>3, SimpleGossip, AnnouncedStep
    <2>4. CASE index[n] \notin Node
      <3>1. AllShrink(link', link)
        BY <2>2, <2>4 DEF Grows, AllShrink
      <3> QED BY <1>0, <1>e, <1>t, <3>1, AnnouncedShrinks
    <2> QED BY <2>3, <2>4
  <1>3. CASE GossipExit(n)
    BY <1>0, <1>3 DEF GossipExit, At, Exit, TypeOK
  <1>4. CASE ~Connecting(n) /\ ~(ReportDial(n) \/ ReportSelf(n) \/ ReportEnd(n)) /\ ~GossipExit(n)
    <2>1. AllShrink(link', link)
      BY <1>0, <1>4, QuietSteps DEF NodeStep
    <2> QED BY <1>0, <1>e, <1>t, <2>1, AnnouncedShrinks
  <1> QED BY <1>1, <1>2, <1>3, <1>4

LEMMA NextFirstLife == FirstLife /\ [Next]_vars => FirstLife'
  <1> SUFFICES ASSUME FirstLife, [Next]_vars PROVE FirstLife'
    OBVIOUS
  <1>0. FInv /\ FInv' /\ IInv /\ TypeOK /\ link \in Links
    BY NextFInv DEF FirstLife, FInv, IInv, TypeOK, Links
  <1> SUFFICES ASSUME alive'[N] PROVE Announced'
    BY <1>0 DEF FirstLife
  <1>i. N \in Node
    BY IdsApart
  <1>1. ASSUME NEW n \in Node, NodeStep(n) \/ Crash(n) PROVE Announced'
    <2>1. CASE alive' # alive
      <3>1. PICK K \in Links : AllShrink(K, link) /\ Exit(n, K) /\ alive[n]
        BY <1>0, <1>1, <2>1, EndSteps
      <3>2. AllShrink(link', link)
        BY <1>0, <3>1, ExitShrinks
      <3>3. alive[N] /\ UNCHANGED <<state, peers>>
        BY <1>0, <1>i, <3>1 DEF Exit, TypeOK
      <3> QED BY <1>0, <3>2, <3>3, AnnouncedShrinks DEF FirstLife, Early, Announced
    <2>2. CASE alive' = alive
      <3>1. NodeStep(n)
        BY <1>0, <1>1, <2>2 DEF Crash, Exit, TypeOK
      <3>2. alive[N] /\ Announced
        BY <2>2 DEF FirstLife
      <3> QED BY <1>0, <2>2, <3>1, <3>2, GossipAnnounced, DeathAnnounced, OtherAnnounced
    <2> QED BY <2>1, <2>2
  <1>2. ASSUME NEW c \in Client,
               ClientRequest(c) \/ ClientClose(c) \/ \E n \in Node : ClientConnect(c, n)
        PROVE  Announced'
    <2>1. UNCHANGED <<alive, state, peers>>
      BY <1>2 DEF ClientRequest, ClientClose, ClientConnect
    <2>2. alive[N] /\ Announced /\ c \in Dialer /\ c \notin Node
      BY <2>1, IdFacts, IdsApart DEF FirstLife, Client, Node
    <2>3. (\A m \in Node : Early(m)' => Early(m)) /\ \A m \in Node \ {N} : peers'[m] = {}
      BY <2>1, <2>2 DEF Early, Announced
    <2>4. \/ AllShrink(link', link)
          \/ \E n \in Node, t \in {"PRESENT_ITSELF", "REPORT_SELF", "OK", "REQUEST"} :
                Grows(link', link, c, n, <<Simple(t)>>)
      <3>1. CASE ClientRequest(c)
        BY <1>0, <3>1, RequestWrites
      <3>2. CASE ClientClose(c)
        BY <1>0, <1>i, <3>2, ClientWrites
      <3>3. CASE \E n \in Node : ClientConnect(c, n)
        BY <1>0, <3>3, ClientWrites
      <3> QED BY <1>2, <3>1, <3>2, <3>3
    <2> QED BY <1>0, <2>2, <2>3, <2>4, SimpleGossip, AnnouncedStep, AnnouncedShrinks
  <1>3. CASE UNCHANGED vars
    <2>1. UNCHANGED <<alive, state, peers, link>>
      BY <1>3 DEF vars
    <2> QED BY <2>1 DEF FirstLife, Announced, Early
  <1> QED BY <1>1, <1>2, <1>3 DEF Next

LEMMA InitFirstLife == Init => FirstLife
  <1> SUFFICES ASSUME Init PROVE Announced
    BY InitFInv DEF FirstLife
  <1>1. \A a \in Dialer, n \in Node : link[a][n].q = <<>>
    BY DEF Init, NoLink
  <1>2. N \in Node /\ \A a \in Node : a \in Dialer
    BY IdFacts, IdsApart
  <1>3. LeadsOnly(<<>>) /\ NoGossip(<<>>)
    BY SimpleGossip
  <1>4. \A n \in Node : peers[n] = {}
    BY DEF Init
  <1> QED BY <1>1, <1>2, <1>3, <1>4 DEF Announced

LEMMA FirstLifeInvariance == Spec => []FirstLife
  BY InitFirstLife, NextFirstLife, PTL DEF Spec

-----------------------------------------------------------------------------
(* Healing after one death *)

\* A notice gives the dead node's successor as its widow.
Pair == {p \in Packet : p.type = "PEER_DIED" => p.peer_id = Pred(p.widow)}
Paired == \A a \in Dialer, n \in Node : link[a][n].q \in Seq(Pair)

\* Before the death forward streams are those of the command line; after it the one
\* to the dead node may have been replaced by one to its successor.
Bridged(n) ==
    \/ peer_f[n] \in {None, Succ(n)}
    \/ ~alive[Succ(n)] /\ peer_f[n] = Succ(Succ(n))
OneBridge ==
    (\E d \in Node : Dead \subseteq {d}) =>
        \A n \in Node : Bridged(n) /\ (peer_f_id[n] = Succ(n) \/ ~alive[Succ(n)])

HInv == FInv /\ Paired /\ OneBridge

LEMMA TakenPair ==
    ASSUME NEW q \in Seq(Pair), q # <<>>
    PROVE  Taken(q) \in Seq(Pair) /\ Head(q) \in Pair
  <1>1. Head(q) \in Pair
    BY SeqTypes
  <1> QED BY <1>1, SingleSeq DEF Taken

LEMMA PairedStep ==
    ASSUME Paired, NEW x, NEW y, NEW pkts \in Seq(Pair), Grows(link', link, x, y, pkts)
    PROVE  Paired'
  <1> SUFFICES ASSUME NEW a \in Dialer, NEW n \in Node PROVE link'[a][n].q \in Seq(Pair)
    BY DEF Paired, Pair
  <1>0. link[a][n].q \in Seq(Pair)
    BY DEF Paired
  <1>1. \A r : Shrinks(r, link[a][n].q) => r \in Seq(Pair)
    BY <1>0, ShrinksType
  <1>2. CASE Shrinks(link'[a][n].q, link[a][n].q)
    BY <1>1, <1>2
  <1>3. CASE /\ a = x /\ n = y
             /\ \E r \in Seq(Packet) : Shrinks(r, link[x][y].q) /\ link'[x][y].q = r \o pkts
    <2>1. PICK r : Shrinks(r, link[x][y].q) /\ link'[x][y].q = r \o pkts
      BY <1>3
    <2>2. r \in Seq(Pair)
      BY <1>1, <1>3, <2>1
    <2> QED BY <1>3, <2>1, <2>2, SeqTypes
  <1> QED BY <1>2, <1>3 DEF Grows

LEMMA PairedShrinks ==
    ASSUME Paired, AllShrink(link', link)
    PROVE  Paired'
  <1>1. Grows(link', link, N, N, <<>>)
    BY ShrinkGrows
  <1> QED BY <1>1, EmptySeq, PairedStep

LEMMA SimplePair ==
    /\ \A t \in {"PRESENT_ITSELF", "REPORT_SELF", "OK", "REQUEST"} : <<Simple(t)>> \in Seq(Pair)
    /\ \A w \in Node : <<Died(Pred(w), w)>> \in Seq(Pair)
    /\ \A i \in Node : <<Gossip(i)>> \in Seq(Pair)
    /\ <<>> \in Seq(Pair)
  <1>1. /\ \A t : Simple(t).type = t
        /\ \A d, w : Died(d, w).peer_id = d /\ Died(d, w).widow = w
        /\ \A i : Gossip(i).type = "GOSSIP"
    BY DEF Simple, Died, Gossip
  <1>2. /\ \A t \in {"PRESENT_ITSELF", "REPORT_SELF", "OK", "REQUEST"} : Simple(t) \in Pair
        /\ \A w \in Node : Died(Pred(w), w) \in Pair
        /\ \A i \in Node : Gossip(i) \in Pair
    BY <1>1, PacketTypes, IdFacts DEF Pair
  <1> QED BY <1>2, SingleSeq, EmptySeq

\* Only server_healthcheck makes a notice, of its own backward neighbour.
LEMMA StepPaired ==
    ASSUME IInv, Paired, NEW n \in Node, NodeStep(n), alive' = alive
    PROVE  Paired'
  <1>0. TypeOK /\ n \in Dialer /\ link \in Links
        /\ Coherent(state[n], pc[n], peer_f[n], peer_b[n], guest[n])
    BY IdFacts DEF IInv, TypeOK, Links
  <1>1. CASE Connecting(n)
    BY <1>0, <1>1, ConnectingWrites, SimplePair, PairedStep
  <1>2. CASE PresentItself(n)
    BY <1>0, <1>2, PresentWrites, SimplePair, PairedStep
  <1>3. CASE WaitIndexGossip(n)
    <2>1. CASE AllShrink(link', link)
      BY <2>1, PairedShrinks
    <2>2. CASE /\ HasData(peer_b[n], n)
               /\ Grows(link', link, n, peer_f[n], Taken(link[peer_b[n]][n].q))
      <3>1. peer_b[n] \in Dialer
        BY <1>0, <1>3 DEF WaitIndexGossip, At, Coherent, ElectionStates, TypeOK
      <3>2. Taken(link[peer_b[n]][n].q) \in Seq(Pair)
        BY <2>2, <3>1, TakenPair DEF Paired, HasData
      <3> QED BY <2>2, <3>2, PairedStep
    <2> QED BY <1>3, <2>1, <2>2, WaitGossipWrites
  <1>4. CASE ReportDial(n) \/ ReportSelf(n) \/ ReportEnd(n)
    <2>1. \E t \in {"PRESENT_ITSELF", "REPORT_SELF", "OK", "REQUEST"} :
             Grows(link', link, ReportOf(n), index[n], <<Simple(t)>>)
      BY <1>0, <1>4, ReportWrites
    <2> QED BY <2>1, SimplePair, PairedStep
  <1>5. CASE HealthCheck(n)
    BY <1>0, <1>5, HealthCheckWrites, SimplePair, PairedStep
  <1>6. CASE AdoptWidow(n) \/ ForwardDeath(n)
    <2>1. peer_b[n] \in Dialer /\ HasData(peer_b[n], n) /\ First(peer_b[n], n).type = "PEER_DIED"
      BY <1>0, <1>6 DEF AdoptWidow, ForwardDeath, HearsOfDeath, TypeOK
    <2>2. Taken(link[peer_b[n]][n].q) \in Seq(Pair)
      BY <2>1, TakenPair DEF Paired, HasData
    <2>3. ~(AdoptWidow(n) /\ Minus(net_size[n], 1) = 0) /\ ~(ForwardDeath(n) /\ SendKill(n, peer_f[n]))
      BY <1>0 DEF AdoptWidow, ForwardDeath, HearsOfDeath, At, Exit, TypeOK
    <2>4. /\ AdoptWidow(n) => Grows(link', link, n, First(peer_b[n], n).widow, <<>>)
          /\ ForwardDeath(n) => Grows(link', link, n, peer_f[n], Taken(link[peer_b[n]][n].q))
      BY <2>1, <2>3, NoticeWrites
    <2> QED BY <1>6, <2>2, <2>4, SimplePair, PairedStep
  <1>7. CASE GossipExit(n)
    BY <1>0, <1>7 DEF GossipExit, At, Exit, TypeOK
  <1>8. CASE \/ Boot(n) \/ BeginOperation(n) \/ Accept(n) \/ Identify(n) \/ RejectGuest(n)
             \/ Session(n) \/ Receive(n) \/ PollClient(n) \/ PollNothing(n) \/ Serve(n)
             \/ DropFromPeerB(n) \/ WaitingNewPeer(n)
    BY <1>8, QuietSteps, PairedShrinks
  <1> QED BY <1>1, <1>2, <1>3, <1>4, <1>5, <1>6, <1>7, <1>8 DEF NodeStep

\* What happens to the forward side of a node.
LEMMA StepBridges ==
    ASSUME FInv, Paired, OneBridge, NEW n \in Node, NodeStep(n), alive' = alive
    PROVE  OneBridge'
  <1>0. IInv /\ TypeOK /\ StreamsTrue
    BY DEF FInv, IInv
  <1> SUFFICES ASSUME NEW d \in Node, Dead \subseteq {d}, NEW m \in Node
               PROVE  Bridged(m)' /\ (peer_f_id'[m] = Succ(m) \/ ~alive'[Succ(m)])
    BY DEF OneBridge, Dead
  <1>1. Bridged(m) /\ (peer_f_id[m] = Succ(m) \/ ~alive[Succ(m)])
    BY DEF OneBridge
  <1>2. CASE Connecting(n)
    <2>1. peer_f_id' = peer_f_id /\ peer_f'[m] \in {peer_f[m], Succ(m)}
      BY <1>0, <1>2 DEF Connecting, TypeOK
    <2> QED BY <1>1, <2>1 DEF Bridged
  <1>3. CASE AdoptWidow(n)
    <2> DEFINE b == peer_b[n]
               p == First(b, n)
    <2>1. b \in Dialer /\ HasData(b, n) /\ p.type = "PEER_DIED" /\ peer_f_id[n] = p.peer_id
      BY <1>0, <1>3 DEF AdoptWidow, HearsOfDeath, Widowed, TypeOK
    <2>2. p \in Pair /\ Sayable(b, p)
      BY <1>0, <2>1, TakenPair, FirstSaid DEF Paired, HasData, First
    <2>3. p.peer_id = Pred(p.widow) /\ p.widow \in Node /\ p.peer_id \in Node /\ ~alive[p.peer_id]
      BY <2>1, <2>2, PacketFields DEF Pair, Sayable
    <2>4. ~(Minus(net_size[n], 1) = 0)
      BY <1>0, <1>3 DEF AdoptWidow, HearsOfDeath, At, Exit, TypeOK
    <2>5. /\ peer_f' \in {peer_f, [peer_f EXCEPT ![n] = p.widow]}
          /\ \A k \in Node \ {n} : peer_f_id'[k] = peer_f_id[k]
      BY <1>0, <1>3, <2>4 DEF AdoptWidow, TypeOK
    <2> HIDE DEF p
    <2>6. CASE m # n
      BY <1>0, <1>1, <2>5, <2>6 DEF Bridged, TypeOK
    <2>7. CASE m = n
      <3>1. p.peer_id = d /\ p.widow = Succ(d)
        BY <2>3, IdsApart DEF Dead
      <3>2. Succ(n) = d
        BY <1>1, <2>1, <2>3, <2>7, <3>1, IdFacts DEF Dead
      <3>3. ~alive[Succ(n)] /\ p.widow = Succ(Succ(n))
        BY <2>3, <3>1, <3>2
      <3>4. peer_f'[n] \in {peer_f[n], p.widow}
        BY <1>0, <2>5 DEF TypeOK
      <3> QED BY <1>1, <2>7, <3>3, <3>4 DEF Bridged
    <2> QED BY <2>6, <2>7
  <1>4. CASE ~Connecting(n) /\ ~AdoptWidow(n)
    <2>1. UNCHANGED <<peer_f, peer_f_id>>
      BY <1>4 DEF NodeStep, Boot, BeginOperation, PresentItself, WaitIndexGossip, GossipExit,
         ReportDial, ReportSelf, ReportEnd, Accept, Identify, RejectGuest, Session, Receive, PollClient,
         PollNothing, Serve, HealthCheck, ForwardDeath, DropFromPeerB, WaitingNewPeer, Exit
    <2> QED BY <1>1, <2>1 DEF Bridged
  <1> QED BY <1>2, <1>3, <1>4

LEMMA NextHInv == HInv /\ [Next]_vars => HInv'
  <1> SUFFICES ASSUME HInv, [Next]_vars PROVE Paired' /\ OneBridge'
    BY NextFInv DEF HInv
  <1>0. FInv /\ Paired /\ OneBridge /\ IInv /\ TypeOK /\ link \in Links
    BY DEF HInv, FInv, IInv, TypeOK, Links
  <1>f. ASSUME \A m \in Node : alive'[m] => alive[m], UNCHANGED <<peer_f, peer_f_id>> PROVE OneBridge'
    BY <1>0, <1>f, IdFacts DEF OneBridge, Bridged, Dead
  <1>1. ASSUME NEW n \in Node, NodeStep(n) \/ Crash(n) PROVE Paired' /\ OneBridge'
    <2>1. CASE alive' # alive
      <3>1. PICK K \in Links : AllShrink(K, link) /\ Exit(n, K) /\ alive[n]
        BY <1>0, <1>1, <2>1, EndSteps
      <3>2. AllShrink(link', link)
        BY <1>0, <3>1, ExitShrinks
      <3>3. UNCHANGED <<peer_f, peer_f_id>> /\ \A m \in Node : alive'[m] => alive[m]
        BY <1>0, <3>1 DEF Exit, TypeOK
      <3> QED BY <1>0, <1>f, <3>2, <3>3, PairedShrinks
    <2>2. CASE alive' = alive
      <3>1. NodeStep(n)
        BY <1>0, <1>1, <2>2 DEF Crash, Exit, TypeOK
      <3> QED BY <1>0, <2>2, <3>1, StepPaired, StepBridges
    <2> QED BY <2>1, <2>2
  <1>2. ASSUME NEW c \in Client,
               ClientRequest(c) \/ ClientClose(c) \/ \E n \in Node : ClientConnect(c, n)
        PROVE  Paired' /\ OneBridge'
    <2>1. UNCHANGED <<alive, peer_f, peer_f_id>>
      BY <1>2 DEF ClientRequest, ClientClose, ClientConnect
    <2>2. CASE ClientRequest(c)
      BY <1>0, <2>2, RequestWrites, SimplePair, PairedStep, <1>f, <2>1
    <2>3. CASE ClientClose(c)
      <3>1. 1 \in Node
        BY IdFacts DEF Node
      <3> QED BY <1>0, <2>3, <3>1, ClientWrites, PairedShrinks, <1>f, <2>1
    <2>4. CASE \E n \in Node : ClientConnect(c, n)
      BY <1>0, <2>4, ClientWrites, SimplePair, PairedStep, <1>f, <2>1
    <2> QED BY <1>2, <2>2, <2>3, <2>4
  <1>3. CASE UNCHANGED vars
    <2>1. UNCHANGED <<alive, peer_f, peer_f_id, link>>
      BY <1>3 DEF vars
    <2> QED BY <1>0, <1>f, <2>1, SameShrinks, PairedShrinks
  <1> QED BY <1>1, <1>2, <1>3 DEF Next

LEMMA InitHInv == Init => HInv
  <1> SUFFICES ASSUME Init PROVE Paired /\ OneBridge
    BY InitFInv DEF HInv
  <1>1. \A a \in Dialer, n \in Node : link[a][n].q = <<>>
    BY DEF Init, NoLink
  <1> QED BY <1>1, EmptySeq DEF Init, Paired, OneBridge, Bridged

LEMMA HealingInvariance == Spec => []HInv
  BY InitHInv, NextHInv, PTL DEF Spec

-----------------------------------------------------------------------------
(* The theorems *)

\* server_healthcheck and xprocedure_peer_died_notify: a notice in flight, first-hand or
\* forwarded, names a node that is dead, although the backward peer may have been
\* any connection that came first and a read may return several packets.
THEOREM NoticesTrue == Spec => []NoticesAreTrue
  <1>1. FInv => NoticesAreTrue
    <2> SUFFICES ASSUME FInv, NEW a \in Dialer, NEW n \in Node, NEW i \in DOMAIN link[a][n].q,
                        link[a][n].q[i].type = "PEER_DIED"
                 PROVE  ~alive[link[a][n].q[i].peer_id]
      BY DEF NoticesAreTrue
    <2>1. link[a][n].q \in Seq(Said(a))
      BY DEF FInv, StreamsTrue
    <2>2. link[a][n].q[i] \in Said(a)
      BY <2>1
    <2> QED BY <2>2 DEF Said, Sayable
  <1> QED BY <1>1, FormationInvariance, PTL

\* CONNECTING to IDLE: when every node is in operation and none has died, each is
\* joined to its command-line neighbours and follows node N, whatever clients
\* connected while the ring was forming.
THEOREM WholeRing == Spec => []OperatingRingIsWhole
  <1>1. FInv => OperatingRingIsWhole
    <2> SUFFICES ASSUME FInv, InOperation, Dead = {}, NEW n \in Node
                 PROVE  peer_f[n] = Succ(n) /\ peer_b[Succ(n)] = n /\ index[n] = N
      BY DEF OperatingRingIsWhole
    <2>1. \A m \in Node : /\ alive[m] /\ index[m] \in Node /\ Working(m) /\ ~Fresh(m)
      BY DEF Dead, InOperation, Working, Fresh
    <2>2. N \in Node /\ Succ(n) \in Node /\ Pred(Succ(n)) = n
      BY IdFacts, IdsApart
    <2>3. peer_f[n] = Succ(n)
      <3>1. peer_f[n] \in {None, Succ(n)}
        BY DEF FInv, WholeOK
      <3>2. peer_f[n] # None
        BY <2>1 DEF FInv, IInv, Coherent, Fresh
      <3> QED BY <3>1, <3>2
    <2>4. index[n] = N
      BY <2>1, <2>2 DEF FInv, NodeOK, IndexOK
    <2>5. peer_b[Succ(n)] = n
      <3>1. peer_b[Succ(n)] # None
        BY <2>1, <2>2 DEF FInv, WholeOK
      <3>2. IntruderOK(Succ(n))
        BY <2>2 DEF FInv, NodeOK
      <3> QED BY <2>1, <2>2, <3>1, <3>2 DEF IntruderOK
    <2> QED BY <2>3, <2>4, <2>5
  <1> QED BY <1>1, FormationInvariance, PTL

\* xprocedure_check_peer_b: through the first death, of any node at any moment, and for
\* every ring size, the forward streams jump over nobody but the dead node, although
\* peer_f.node_id is afterwards taken from a net_size that was decremented twice.
THEOREM FirstDeathIsBridged == Spec => []((\E d \in Node : Dead \subseteq {d}) => SkipsOnlyTheDead)
  <1>1. HInv => ((\E d \in Node : Dead \subseteq {d}) => SkipsOnlyTheDead)
    <2> SUFFICES ASSUME HInv, \E d \in Node : Dead \subseteq {d},
                        NEW n \in Node, peer_f[n] # None, NEW m \in Node \ {n},
                        Steps(n, m) < Steps(n, peer_f[n])
                 PROVE  ~alive[m]
      BY DEF SkipsOnlyTheDead
    <2>1. Bridged(n)
      BY DEF HInv, OneBridge
    <2>2. N \in Nat /\ N >= 2
      BY IdFacts
    <2>3. \A k \in Node : Succ(k) = IF k = N THEN 1 ELSE k + 1
      <3>1. N % N = 0 /\ \A k \in Node : k # N => k % N = k
        BY <2>2 DEF Node
      <3> QED BY <2>2, <3>1 DEF Succ, Node
    <2>4. Steps(n, m) >= 1 /\ (Steps(n, m) = 1 => m = Succ(n)) /\ Steps(n, m) \in Int
      BY <2>2, <2>3 DEF Steps, Node
    <2>5. Succ(n) \in Node /\ Steps(n, Succ(n)) = 1
      BY <2>2, <2>3 DEF Steps, Node
    <2>6. Steps(n, Succ(Succ(n))) = 2
      BY <2>2, <2>3, <2>5 DEF Steps, Node
    <2> QED BY <2>1, <2>4, <2>5, <2>6 DEF Bridged
  <1> QED BY <1>1, HealingInvariance, PTL

\* The election as long as node N lives: no second index, whatever the other nodes'
\* deaths did to their copies of net_size, by which each decides alone.
THEOREM FirstIndexIsAlone == Spec => [](alive[N] => AtMostOneIndex)
  <1>1. FInv => (alive[N] => AtMostOneIndex)
    BY DEF FInv, NodeOK, IndexOK, AtMostOneIndex
  <1> QED BY <1>1, FormationInvariance, PTL

\* SERVER_INDEX_WAITING_PEERS_KNOWLEDGE: the first index is in operation only with the
\* address of every live node, because it counts one report per address and goes on
\* at net_size - 1, whoever else connected to it meanwhile.
THEOREM FirstIndexKnowsFollowers == Spec => [](alive[N] => IndexKnowsFollowers)
  <1>1. FInv => (alive[N] => IndexKnowsFollowers)
    <2> SUFFICES ASSUME FInv, alive[N] PROVE IndexKnowsFollowers
      OBVIOUS
    <2>1. \A n \in Node : index[n] \in Node => index[n] = N
      BY DEF FInv, NodeOK, IndexOK
    <2>2. Working(N) => \A m \in Node \ {N} : alive[m] => m \in peers[N]
      BY DEF FInv, ReportsOK, TableOK
    <2> QED BY <2>1, <2>2 DEF IndexKnowsFollowers, Working
  <1> QED BY <1>1, FormationInvariance, PTL

\* "my previous peer was index": node 1 does not vote again while N lives, for it
\* takes a new backward peer only after the death of its neighbour, which is N.
THEOREM NodeOneWaitsForDeath == Spec => [](alive[N] => PreviousPeerWasIndex)
  <1>1. FInv => (alive[N] => PreviousPeerWasIndex)
    <2>1. 1 \in Node /\ None \notin Node
      BY IdFacts, IdsApart DEF Node
    <2> QED BY <2>1 DEF FInv, NodeOK, IndexOK, PreviousPeerWasIndex
  <1> QED BY <1>1, FormationInvariance, PTL

\* The announcement of N is dropped by the node before N, with and without coalescing:
\* while N lives none of its own packets comes back to it, and nobody else makes one.
THEOREM GossipStopsAtFirst == Spec => [](alive[N] => GossipStops)
  <1>1. FirstLife => (alive[N] => GossipStops)
    <2> SUFFICES ASSUME FirstLife, alive[N], NEW a \in Dialer, NEW n \in Node,
                        NEW i \in DOMAIN link[a][n].q, link[a][n].q[i] = Gossip(n)
                 PROVE  FALSE
      BY DEF GossipStops
    <2>0. Announced /\ StreamsTrue
      BY DEF FirstLife, FInv
    <2>1. Gossip(n).type = "GOSSIP" /\ Gossip(n).index_id = n
      BY DEF Gossip
    <2>2. n # N
      BY <2>0, <2>1 DEF Announced, NoGossip, GossipAt
    <2>3. link[a][n].q \in Seq(Said(a))
      BY <2>0 DEF StreamsTrue
    <2>4. link[a][n].q[i] \in Said(a)
      BY <2>3
    <2>5. Sayable(a, Gossip(n))
      BY <2>4 DEF Said
    <2> QED BY <2>1, <2>2, <2>5 DEF Sayable
  <1> QED BY <1>1, FirstLifeInvariance, PTL

\* server_index_save_reported_peer writes no address past the table of the first
\* index, and while that index lives no other node has a table to write into.
THEOREM FirstTableFits == Spec => [](alive[N] => ReportsFitTable)
  <1>1. FirstLife => (alive[N] => ReportsFitTable)
    <2> SUFFICES ASSUME FirstLife, alive[N], NEW n \in Node PROVE peers[n] \subseteq 1 .. n
      BY DEF ReportsFitTable
    <2>1. \A m \in Node \ {N} : peers[m] = {}
      BY DEF FirstLife, Announced
    <2>2. peers[N] \subseteq Node
      BY DEF FirstLife, FInv, ReportsOK, TableOK
    <2> QED BY <2>1, <2>2 DEF Node
  <1> QED BY <1>1, FirstLifeInvariance, PTL

=============================================================================
