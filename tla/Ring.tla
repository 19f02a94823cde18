-------------------------------- MODULE Ring --------------------------------
(***************************************************************************)
(* Ring formation, index election, death notification and healing.        *)
(*                                                                         *)
(* Every node is one thread that runs  while (1) switch (sv.state)  in     *)
(* main.c.  state[n] is sv.state; pc[n] says where inside the body of the  *)
(* current case the thread stands when that body can block or can be       *)
(* overtaken by other nodes ("top" is the switch itself).                  *)
(*                                                                         *)
(* A connection is a stream link[a][b] from a dialer a to the node b that  *)
(* listens.  Dialers are the nodes themselves (peer_f sockets), clients,   *)
(* and one report connection per node.  The only bytes that travel against *)
(* a stream are the TYPE_OK answers to a presentation: variable ok.        *)
(*                                                                         *)
(* Requests are opaque here: a handler runs to its end (Serve), and the    *)
(* connections that handlers open to other nodes (fan-out, relayed and     *)
(* fragment requests) are Callers, whose owners are not blocked by them.   *)
(*                                                                         *)
(* Definitions named Mut_... are wrong on purpose.  Each takes the place   *)
(* of the definition that follows it, to see that a property notices.      *)
(***************************************************************************)
EXTENDS Integers, Sequences, FiniteSets

CONSTANTS
    N,            \* -network-size
    MaxCrashes,   \* bound on Crash steps (exits of the program itself are free)
    BootCrashes,  \* may a node crash before the ring is in operation?
    MaxClients,   \* number of client connections
    MaxCallers,   \* how many of them are made by the request handlers of nodes
    Coalescing,   \* may one recv return the bytes of several sends?
    WORD          \* modulus of the uint64_t counters

ASSUME RingConstants ==
    /\ N \in Nat \ {0, 1} /\ MaxCrashes \in Nat /\ MaxClients \in Nat
    /\ MaxCallers \in 0 .. MaxClients
    /\ BootCrashes \in BOOLEAN /\ Coalescing \in BOOLEAN
    /\ WORD \in Nat /\ WORD > N

Node     == 1 .. N
Client   == (N + 1) .. (N + MaxClients)
Caller   == (N + 1) .. (N + MaxCallers)     \* present themselves with a node id
Reporter == (N + MaxClients + 1) .. (N + MaxClients + N)
Dialer   == 1 .. (N + MaxClients + N)
ReportOf(n) == N + MaxClients + n      \* the report connection of node n
NodeOf(a)   == a - N - MaxClients      \* and its owner

None  == 0           \* no node id; also the index id of a zeroed packet
Bogus == N + 1       \* an index id read from bytes that are not a gossip packet

VARIABLES
    alive,        \* the process runs
    state,        \* sv.state
    pc,           \* position inside the body of the current case
    net_size, death_count,
    peer_f_id,    \* sv.peer_f.node_id
    peer_f,       \* node at the far end of sv.peer_f.stream_fd, None: not dialled
    peer_b,       \* dialer at the far end of sv.peer_b.stream_fd, None: not open
    link,         \* link[a][b]: stream from dialer a to node b
    backlog,      \* dialers waiting in the listener of a node
    guest,        \* dialer the thread is talking to in an accept branch, or None
    index,        \* sv.index.node_id
    peers,        \* nodes with an address in sv.index_data->peer_ips
    connected,    \* machine_state.StateIndexWaitingPeers.connected
    ok,           \* report connection of n was answered with TYPE_OK
    client_fd,    \* dialer at the far end of sv.client_fd, or None
    phase,        \* what a client is doing
    crashes

vars == <<alive, state, pc, net_size, death_count, peer_f_id, peer_f, peer_b,
          link, backlog, guest, index, peers, connected, ok, client_fd, phase,
          crashes>>

\* The ring neighbours given to every node on its command line.
Succ(n) == (n % N) + 1
Mut_PredNoWrap(n) == n - 1
Pred(n) == ((n - 2 + N) % N) + 1

Minus(x, k) == (x - k + WORD) % WORD    \* uint64_t subtraction

-----------------------------------------------------------------------------
(* Packets and streams *)

Gossip(i)  == [type |-> "GOSSIP", index_id |-> i]
Mut_DiedSwapped(d, w) == [type |-> "PEER_DIED", peer_id |-> w, widow |-> d]
Died(d, w) == [type |-> "PEER_DIED", peer_id |-> d, widow |-> w]
Simple(t)  == [type |-> t]
Packet == [type : {"GOSSIP"}, index_id : Node]
            \cup [type : {"PEER_DIED"}, peer_id : Node, widow : Node]
            \cup [type : {"PRESENT_ITSELF", "REPORT_SELF", "OK", "REQUEST"}]

Stream == [st : {"none", "up", "fin", "rst", "broken"}, q : Seq(Packet)]
NoLink == [st |-> "none", q |-> <<>>]
Opened(pkts) == [st |-> "up", q |-> pkts]

\* recv() hands over everything queued (4096 bytes hold 14 packets, more than
\* this model ever queues); the code looks at the first packet only.
Taken(q) == IF Coalescing THEN q ELSE <<Head(q)>>
Left(q)  == IF Coalescing THEN <<>> ELSE Tail(q)
After(a, n) == [link EXCEPT ![a][n].q = Left(@)]
First(a, n) == Head(link[a][n].q)

\* recv() returns 0: the writer is gone and the stream is drained.
Gone(a) == CASE a \in Node     -> ~alive[a]
             [] a \in Client   -> phase[a] = "closed"
             [] a \in Reporter -> ~alive[NodeOf(a)]
HasData(a, n) == link[a][n].q # <<>>
Eof(a, n)     == link[a][n].q = <<>> /\ Gone(a)

Listening(n) == n \in Node /\ alive[n] /\ state[n] # "BOOTING"

\* tcp_send on the stream a -> b.  A stream whose reader closed it swallows one
\* packet; a stream that was reset fails once with ECONNRESET; the next send
\* raises SIGPIPE, which nothing in the program handles.
Sent(L, a, b, pkts) ==
    [L EXCEPT ![a][b] = IF @.st = "up" THEN Opened(@.q \o pkts)
                                       ELSE [st |-> "broken", q |-> <<>>]]
SendPos(a, b)  == link[a][b].st \in {"up", "fin"}
SendKill(a, b) == link[a][b].st = "broken"

\* A stream after its reader closes it or exits: unread bytes, or a connection
\* that was never accepted, reset the stream instead of ending it.
Closed(l, unread) ==
    IF l.st = "up" THEN [st |-> IF unread THEN "rst" ELSE "fin", q |-> <<>>] ELSE l
Pending(n) == {backlog[n][i] : i \in DOMAIN backlog[n]}
Severed(L, n) ==
    [a \in Dialer |-> [L[a] EXCEPT ![n] = Closed(@, @.q # <<>> \/ a \in Pending(n))]]

-----------------------------------------------------------------------------
Init ==
    /\ alive       = [n \in Node |-> TRUE]
    /\ state       = [n \in Node |-> "BOOTING"]
    /\ pc          = [n \in Node |-> "top"]
    /\ net_size    = [n \in Node |-> N]
    /\ death_count = [n \in Node |-> 0]
    /\ peer_f_id   = [n \in Node |-> Succ(n)]
    /\ peer_f      = [n \in Node |-> None]
    /\ peer_b      = [n \in Node |-> None]
    /\ link        = [a \in Dialer |-> [b \in Node |-> NoLink]]
    /\ backlog     = [n \in Node |-> <<>>]
    /\ guest       = [n \in Node |-> None]
    /\ index       = [n \in Node |-> None]
    /\ peers       = [n \in Node |-> {}]
    /\ connected   = [n \in Node |-> 0]
    /\ ok          = [n \in Node |-> FALSE]
    /\ client_fd   = [n \in Node |-> None]
    /\ phase       = [c \in Client |-> "off"]
    /\ crashes     = 0

At(n, st, p)   == alive[n] /\ state[n] = st /\ pc[n] = p
Goto(n, st, p) == state' = [state EXCEPT ![n] = st] /\ pc' = [pc EXCEPT ![n] = p]

\* The process of n ends; the kernel closes every socket it held.
Exit(n, L) ==
    /\ alive'   = [alive EXCEPT ![n] = FALSE]
    /\ link'    = Severed(L, n)
    /\ backlog' = [backlog EXCEPT ![n] = <<>>]
    /\ UNCHANGED <<state, pc, net_size, death_count, peer_f_id, peer_f, peer_b,
                   guest, index, peers, connected, ok, client_fd, phase>>

-----------------------------------------------------------------------------
(* Boot: listen, then connect to both neighbours *)

Boot(n) ==
    /\ At(n, "BOOTING", "top")
    /\ Goto(n, "CONNECTING", "top")
    /\ UNCHANGED <<alive, net_size, death_count, peer_f_id, peer_f, peer_b, link,
                   backlog, guest, index, peers, connected, ok, client_fd, phase,
                   crashes>>

Mut_EitherConnected(f, b) == f # None \/ b # None
BothConnected(f, b) == f # None /\ b # None

\* One pass of the CONNECTING case: poll the listener, then dial.  The first
\* connection of any kind becomes peer_b.  A pass that does neither is a stutter.
Connecting(n) ==
    LET accepts == peer_b[n] = None /\ backlog[n] # <<>>
        dials   == peer_f[n] = None /\ Listening(Succ(n))
        popped  == IF accepts THEN [backlog EXCEPT ![n] = Tail(@)] ELSE backlog
    IN /\ At(n, "CONNECTING", "top")
       /\ accepts \/ dials
       /\ peer_b'  = IF accepts THEN [peer_b EXCEPT ![n] = Head(backlog[n])] ELSE peer_b
       /\ peer_f'  = IF dials THEN [peer_f EXCEPT ![n] = Succ(n)] ELSE peer_f
       /\ link'    = IF dials THEN [link EXCEPT ![n][Succ(n)] = Opened(<<>>)] ELSE link
       /\ backlog' = IF dials THEN [popped EXCEPT ![Succ(n)] = Append(@, n)] ELSE popped
       /\ state'   = IF BothConnected(peer_f'[n], peer_b'[n])
                       THEN [state EXCEPT ![n] = "BEGIN_OPERATION"] ELSE state
       /\ UNCHANGED <<alive, pc, net_size, death_count, peer_f_id, guest, index,
                      peers, connected, ok, client_fd, phase, crashes>>

-----------------------------------------------------------------------------
(* Election: the node whose id equals its own idea of the network size *)

BeginOperation(n) ==
    /\ At(n, "BEGIN_OPERATION", "top")
    /\ IF net_size[n] = n
         THEN /\ Goto(n, "INDEX_PRESENT_ITSELF", "top")
              /\ peers' = [peers EXCEPT ![n] = {}]
         ELSE /\ Goto(n, "WAIT_INDEX_GOSSIP", "top")
              /\ UNCHANGED peers
    /\ UNCHANGED <<alive, net_size, death_count, peer_f_id, peer_f, peer_b, link,
                   backlog, guest, index, connected, ok, client_fd, phase, crashes>>

PresentItself(n) ==
    /\ At(n, "INDEX_PRESENT_ITSELF", "top")
    /\ SendPos(n, peer_f[n])
    /\ index' = [index EXCEPT ![n] = n]
    /\ link'  = Sent(link, n, peer_f[n], <<Gossip(n)>>)
    /\ Goto(n, "INDEX_WAITING_PEERS_KNOWLEDGE", "top")
    /\ connected' = [connected EXCEPT ![n] = 0]
    /\ UNCHANGED <<alive, net_size, death_count, peer_f_id, peer_f, peer_b, backlog,
                   guest, peers, ok, client_fd, phase, crashes>>

\* recv on peer_b blocks until there is data or the end of the stream.  What
\* was read is forwarded whole unless it names the forward peer as the index.
Mut_GossipReadUntyped(n) == IF ~HasData(peer_b[n], n) THEN None
                            ELSE IF First(peer_b[n], n).type = "GOSSIP"
                            THEN First(peer_b[n], n).index_id ELSE N
GossipRead(n) == IF ~HasData(peer_b[n], n) THEN None
                 ELSE IF First(peer_b[n], n).type = "GOSSIP"
                 THEN First(peer_b[n], n).index_id ELSE Bogus
Mut_GossipForwardedAlways(n) == GossipRead(n) # None
GossipForwarded(n) == GossipRead(n) # peer_f_id[n]

WaitIndexGossip(n) ==
    LET b == peer_b[n]
        batch == Taken(link[b][n].q)
    IN /\ At(n, "WAIT_INDEX_GOSSIP", "top")
       /\ HasData(b, n) \/ (Eof(b, n) /\ ~GossipForwarded(n))
       /\ GossipForwarded(n) => SendPos(n, peer_f[n])
       /\ index' = [index EXCEPT ![n] = GossipRead(n)]
       /\ link'  = LET L == IF HasData(b, n) THEN After(b, n) ELSE link
                   IN IF GossipForwarded(n) THEN Sent(L, n, peer_f[n], batch) ELSE L
       /\ Goto(n, "REPORT_KNOWLEDGE_TO_INDEX", "top")
       /\ UNCHANGED <<alive, net_size, death_count, peer_f_id, peer_f, peer_b,
                      backlog, guest, peers, connected, ok, client_fd, phase, crashes>>

\* "Algo estranho rolou": nothing was written (an empty packet after the end of
\* the stream, or a dead forward peer), and main returns 1.
GossipExit(n) ==
    /\ \/ At(n, "INDEX_PRESENT_ITSELF", "top") /\ ~SendPos(n, peer_f[n])
       \/ /\ At(n, "WAIT_INDEX_GOSSIP", "top")
          /\ GossipForwarded(n)
          /\ \/ Eof(peer_b[n], n)
             \/ HasData(peer_b[n], n) /\ ~SendPos(n, peer_f[n])
    /\ Exit(n, link)
    /\ UNCHANGED crashes

-----------------------------------------------------------------------------
(* The report session, reporter's side *)

\* Dial the index and present; a dial that fails is retried by the next pass.
ReportDial(n) ==
    LET i == index[n] IN
    /\ At(n, "REPORT_KNOWLEDGE_TO_INDEX", "top")
    /\ Listening(i)
    /\ link'    = [link EXCEPT ![ReportOf(n)][i] = Opened(<<Simple("PRESENT_ITSELF")>>)]
    /\ backlog' = [backlog EXCEPT ![i] = Append(@, ReportOf(n))]
    /\ ok'      = [ok EXCEPT ![n] = FALSE]
    /\ pc'      = [pc EXCEPT ![n] = "wait_ok"]
    /\ UNCHANGED <<alive, state, net_size, death_count, peer_f_id, peer_f, peer_b,
                   guest, index, peers, connected, client_fd, phase, crashes>>

\* server_wait_ok returned: go on with REPORT_SELF, or start over when the index died.
ReportSelf(n) ==
    LET i == index[n] IN
    /\ At(n, "REPORT_KNOWLEDGE_TO_INDEX", "wait_ok")
    /\ \/ /\ ok[n]
          /\ link' = Sent(link, ReportOf(n), i, <<Simple("REPORT_SELF")>>)
          /\ pc'   = [pc EXCEPT ![n] = IF SendPos(ReportOf(n), i) THEN "reported" ELSE "top"]
       \/ /\ ~ok[n] /\ ~alive[i]
          /\ pc' = [pc EXCEPT ![n] = "top"]
          /\ UNCHANGED link
    /\ UNCHANGED <<alive, state, net_size, death_count, peer_f_id, peer_f, peer_b,
                   backlog, guest, index, peers, connected, ok, client_fd, phase,
                   crashes>>

\* The final TYPE_OK.
ReportEnd(n) ==
    /\ At(n, "REPORT_KNOWLEDGE_TO_INDEX", "reported")
    /\ IF SendKill(ReportOf(n), index[n])
         THEN Exit(n, link)
         ELSE /\ link' = Sent(link, ReportOf(n), index[n], <<Simple("OK")>>)
              /\ Goto(n, "IDLE", "top")
              /\ UNCHANGED <<alive, net_size, death_count, peer_f_id, peer_f, peer_b,
                             backlog, guest, index, peers, connected, ok, client_fd,
                             phase>>
    /\ UNCHANGED crashes

-----------------------------------------------------------------------------
(* The accept branches: the index collecting knowledge, and IDLE *)

Polling(n) == alive[n] /\ (pc[n] = "poll" \/ (state[n] = "IDLE" /\ pc[n] = "top"))

\* The client socket is looked at before the listener.
ClientReady(n) == client_fd[n] # None /\ (HasData(client_fd[n], n) \/ Eof(client_fd[n], n))

Accept(n) ==
    /\ \/ At(n, "INDEX_WAITING_PEERS_KNOWLEDGE", "top")
       \/ Polling(n) /\ ~ClientReady(n)
    /\ backlog[n] # <<>>
    /\ guest'   = [guest EXCEPT ![n] = Head(backlog[n])]
    /\ backlog' = [backlog EXCEPT ![n] = Tail(@)]
    /\ pc'      = [pc EXCEPT ![n] = "identify"]
    /\ UNCHANGED <<alive, state, net_size, death_count, peer_f_id, peer_f, peer_b,
                   link, index, peers, connected, ok, client_fd, phase, crashes>>

\* server_wait_client_presentation blocks in recv on the new connection.
Presented(n) == HasData(guest[n], n) /\ First(guest[n], n).type = "PRESENT_ITSELF"

\* TYPE_OK is sent back.  The index then listens to anybody; an IDLE node keeps a
\* client in client_fd and waits for one packet of a node.
Identify(n) ==
    LET a == guest[n]
        indexing == state[n] = "INDEX_WAITING_PEERS_KNOWLEDGE"
        keeps    == ~indexing /\ a \in Client \ Caller
    IN /\ alive[n] /\ pc[n] = "identify"
       /\ Presented(n)
       /\ link' = After(a, n)
       /\ ok'   = IF a \in Reporter THEN [ok EXCEPT ![NodeOf(a)] = TRUE] ELSE ok
       /\ phase' = IF a \in Client /\ phase[a] = "presented"
                     THEN [phase EXCEPT ![a] = "ready"] ELSE phase
       /\ pc' = [pc EXCEPT ![n] = IF indexing THEN "session" ELSE IF keeps THEN "top" ELSE "receive"]
       /\ guest' = IF keeps THEN [guest EXCEPT ![n] = None] ELSE guest
       /\ client_fd' = IF keeps THEN [client_fd EXCEPT ![n] = a] ELSE client_fd
       /\ UNCHANGED <<alive, state, net_size, death_count, peer_f_id, peer_f, peer_b,
                      backlog, index, peers, connected, crashes>>

\* "FAILED PRESENTATION PROTOCOL": any other packet, or the end of the stream.
RejectGuest(n) ==
    LET a == guest[n] IN
    /\ alive[n] /\ pc[n] = "identify"
    /\ ~Presented(n) /\ (HasData(a, n) \/ Eof(a, n))
    /\ link' = [link EXCEPT ![a][n] = Closed(@, @.q # <<>> /\ Left(@.q) # <<>>)]
    /\ pc'   = [pc EXCEPT ![n] = "top"]
    /\ guest' = [guest EXCEPT ![n] = None]
    /\ UNCHANGED <<alive, state, net_size, death_count, peer_f_id, peer_f, peer_b,
                   backlog, index, peers, connected, ok, client_fd, phase, crashes>>

Mut_AllButOneReported(n) == connected[n] = Minus(net_size[n], 2)
Mut_OneMoreReported(n)   == connected[n] = net_size[n]
AllReported(n) == connected[n] = Minus(net_size[n], 1)

\* One packet of the session.  At the end of the stream recv keeps returning 0 and
\* the loop never ends: no step is enabled.
Session(n) ==
    LET a == guest[n]
        type == First(a, n).type
    IN /\ At(n, "INDEX_WAITING_PEERS_KNOWLEDGE", "session")
       /\ HasData(a, n)
       /\ \/ /\ type = "REPORT_SELF"
             /\ peers'     = [peers EXCEPT ![n] = @ \cup {NodeOf(a)}]
             /\ connected' = [connected EXCEPT ![n] = @ + 1]
             /\ link'      = After(a, n)
             /\ UNCHANGED <<state, pc, guest>>
          \/ /\ type = "OK"
             /\ link'  = [link EXCEPT ![a][n] = Closed(@, Left(@.q) # <<>>)]
             /\ guest' = [guest EXCEPT ![n] = None]
             /\ Goto(n, IF AllReported(n) THEN "IDLE" ELSE state[n], "top")
             /\ UNCHANGED <<peers, connected>>
          \/ /\ type \notin {"REPORT_SELF", "OK"}
             /\ link' = After(a, n)
             /\ UNCHANGED <<state, pc, guest, peers, connected>>
       /\ UNCHANGED <<alive, net_size, death_count, peer_f_id, peer_f, peer_b, backlog,
                      index, ok, client_fd, phase, crashes>>

\* An IDLE node reads the packet a presented node sends after its presentation.
Receive(n) ==
    LET a == guest[n] IN
    /\ alive[n] /\ pc[n] = "receive"
    /\ \/ /\ HasData(a, n)
          /\ link' = After(a, n)
          /\ Goto(n, "RECEIVED_PACKET", "top")
       \/ /\ Eof(a, n)
          /\ Goto(n, state[n], "top")
          /\ UNCHANGED link
    /\ guest' = [guest EXCEPT ![n] = None]
    /\ UNCHANGED <<alive, net_size, death_count, peer_f_id, peer_f, peer_b, backlog,
                   index, peers, connected, ok, client_fd, phase, crashes>>

\* A request of the client (or the end of its stream) found by the IDLE pass.
PollClient(n) ==
    LET a == client_fd[n] IN
    /\ Polling(n) /\ ClientReady(n)
    /\ IF HasData(a, n)
         THEN /\ link' = After(a, n)
              /\ Goto(n, "RECEIVED_PACKET", "top")
              /\ UNCHANGED client_fd
         ELSE /\ client_fd' = [client_fd EXCEPT ![n] = None]
              /\ Goto(n, state[n], "top")
              /\ UNCHANGED link
    /\ UNCHANGED <<alive, net_size, death_count, peer_f_id, peer_f, peer_b, backlog,
                   guest, index, peers, connected, ok, phase, crashes>>

\* Nothing to do in the second half of the IDLE pass.
PollNothing(n) ==
    /\ alive[n] /\ pc[n] = "poll"
    /\ ~ClientReady(n) /\ backlog[n] = <<>>
    /\ pc' = [pc EXCEPT ![n] = "top"]
    /\ UNCHANGED <<alive, state, net_size, death_count, peer_f_id, peer_f, peer_b,
                   link, backlog, guest, index, peers, connected, ok, client_fd,
                   phase, crashes>>

\* The request is served and every branch of the handlers ends in IDLE.
Serve(n) ==
    /\ At(n, "RECEIVED_PACKET", "top")
    /\ Goto(n, "IDLE", "top")
    /\ phase' = [c \in Client |-> IF c = client_fd[n] /\ phase[c] = "busy"
                                    THEN "ready" ELSE phase[c]]
    /\ UNCHANGED <<alive, net_size, death_count, peer_f_id, peer_f, peer_b, link,
                   backlog, guest, index, peers, connected, ok, client_fd, crashes>>

-----------------------------------------------------------------------------
(* Death of a peer *)

\* server_healthcheck: peek on peer_b returns 0.  net_size is decremented here and
\* once more in xprocedure_peer_died_notify.
HealthCheck(n) ==
    /\ At(n, "IDLE", "top")
    /\ peer_b[n] # None /\ Eof(peer_b[n], n)
    /\ IF SendKill(n, peer_f[n])
         THEN Exit(n, link)
         ELSE /\ peer_b'      = [peer_b EXCEPT ![n] = None]
              /\ net_size'    = [net_size EXCEPT ![n] = Minus(@, 2)]
              /\ death_count' = [death_count EXCEPT ![n] = @ + 1]
              /\ link'  = Sent(link, n, peer_f[n], <<Died(Pred(n), n)>>)
              /\ peers' = IF index[n] = n THEN [peers EXCEPT ![n] = @ \ {Pred(n)}] ELSE peers
              /\ Goto(n, "WAITING_NEW_PEER", "poll")
              /\ UNCHANGED <<alive, peer_f_id, peer_f, backlog, guest, index, connected,
                             ok, client_fd, phase>>
    /\ UNCHANGED crashes

Mut_BuryAlwaysElects(n, d) ==
    /\ net_size'    = [net_size EXCEPT ![n] = Minus(@, 1)]
    /\ death_count' = [death_count EXCEPT ![n] = @ + 1]
    /\ peers' = IF index[n] = n THEN [peers EXCEPT ![n] = @ \ {d}] ELSE peers
    /\ Goto(n, IF index[n] # n THEN "BEGIN_OPERATION" ELSE state[n], "poll")
Mut_BuryNeverElects(n, d) ==
    /\ net_size'    = [net_size EXCEPT ![n] = Minus(@, 1)]
    /\ death_count' = [death_count EXCEPT ![n] = @ + 1]
    /\ peers' = IF index[n] = n THEN [peers EXCEPT ![n] = @ \ {d}] ELSE peers
    /\ Goto(n, state[n], "poll")
Mut_BuryCountsTwice(n, d) ==
    /\ net_size'    = [net_size EXCEPT ![n] = Minus(@, 1)]
    /\ death_count' = [death_count EXCEPT ![n] = @ + 2]
    /\ peers' = IF index[n] = n THEN [peers EXCEPT ![n] = @ \ {d}] ELSE peers
    /\ Goto(n, IF index[n] # n /\ index[n] = d THEN "BEGIN_OPERATION" ELSE state[n], "poll")
Mut_BuryShrinksTwice(n, d) ==
    /\ net_size'    = [net_size EXCEPT ![n] = Minus(@, 2)]
    /\ death_count' = [death_count EXCEPT ![n] = @ + 1]
    /\ peers' = IF index[n] = n THEN [peers EXCEPT ![n] = @ \ {d}] ELSE peers
    /\ Goto(n, IF index[n] # n /\ index[n] = d THEN "BEGIN_OPERATION" ELSE state[n], "poll")

\* What xprocedure_check_peer_b does to n's own books when d is reported dead.
Bury(n, d) ==
    /\ net_size'    = [net_size EXCEPT ![n] = Minus(@, 1)]
    /\ death_count' = [death_count EXCEPT ![n] = @ + 1]
    /\ peers' = IF index[n] = n THEN [peers EXCEPT ![n] = @ \ {d}] ELSE peers
    /\ Goto(n, IF index[n] # n /\ index[n] = d THEN "BEGIN_OPERATION" ELSE state[n], "poll")

HearsOfDeath(n) ==
    /\ At(n, "IDLE", "top")
    /\ peer_b[n] # None /\ HasData(peer_b[n], n)
    /\ First(peer_b[n], n).type = "PEER_DIED"

Mut_WidowedByAny(n, d) == TRUE
Widowed(n, d) == peer_f_id[n] = d

\* The dead peer was the forward peer: dial the widow, once.
AdoptWidow(n) ==
    LET p == First(peer_b[n], n)
        L == After(peer_b[n], n)
        reach == Listening(p.widow)
    IN /\ HearsOfDeath(n)
       /\ Widowed(n, p.peer_id)
       /\ IF Minus(net_size[n], 1) = 0
            THEN Exit(n, L)                  \* (me + 1) % 0 raises SIGFPE
            ELSE /\ Bury(n, p.peer_id)
                 /\ peer_f_id' = [peer_f_id EXCEPT ![n] = (n + 1) % Minus(net_size[n], 1)]
                 /\ peer_f'  = IF reach THEN [peer_f EXCEPT ![n] = p.widow] ELSE peer_f
                 /\ link'    = IF reach THEN [L EXCEPT ![n][p.widow] = Opened(<<>>)] ELSE L
                 /\ backlog' = IF reach THEN [backlog EXCEPT ![p.widow] = Append(@, n)] ELSE backlog
                 /\ UNCHANGED <<alive, peer_b, guest, index, connected, ok, client_fd, phase>>
       /\ UNCHANGED crashes

\* Somebody else's neighbour: pass on what was read.
ForwardDeath(n) ==
    LET p == First(peer_b[n], n) IN
    /\ HearsOfDeath(n)
    /\ ~Widowed(n, p.peer_id)
    /\ IF SendKill(n, peer_f[n])
         THEN Exit(n, After(peer_b[n], n))
         ELSE /\ Bury(n, p.peer_id)
              /\ link' = Sent(After(peer_b[n], n), n, peer_f[n], Taken(link[peer_b[n]][n].q))
              /\ UNCHANGED <<alive, peer_f_id, peer_f, peer_b, backlog, guest, index,
                             connected, ok, client_fd, phase>>
    /\ UNCHANGED crashes

\* Any other packet from peer_b is read and dropped.
DropFromPeerB(n) ==
    /\ At(n, "IDLE", "top")
    /\ peer_b[n] # None /\ HasData(peer_b[n], n)
    /\ First(peer_b[n], n).type # "PEER_DIED"
    /\ link' = After(peer_b[n], n)
    /\ pc'   = [pc EXCEPT ![n] = "poll"]
    /\ UNCHANGED <<alive, state, net_size, death_count, peer_f_id, peer_f, peer_b,
                   backlog, guest, index, peers, connected, ok, client_fd, phase,
                   crashes>>

\* The widow takes the next connection of any kind as its new peer_b.
WaitingNewPeer(n) ==
    /\ At(n, "WAITING_NEW_PEER", "top")
    /\ peer_b[n] = None /\ backlog[n] # <<>>
    /\ peer_b'  = [peer_b EXCEPT ![n] = Head(backlog[n])]
    /\ backlog' = [backlog EXCEPT ![n] = Tail(@)]
    /\ Goto(n, IF n = 1 THEN "BEGIN_OPERATION" ELSE "IDLE", "top")
    /\ UNCHANGED <<alive, net_size, death_count, peer_f_id, peer_f, link, guest, index,
                   peers, connected, ok, client_fd, phase, crashes>>

-----------------------------------------------------------------------------
(* Clients and crashes *)

\* A caller is a connection of some other node that is handling a request.
ClientConnect(c, n) ==
    /\ phase[c] = "off" /\ Listening(n)
    /\ c \in Caller => \E m \in Node \ {n} : At(m, "RECEIVED_PACKET", "top")
    /\ phase'   = [phase EXCEPT ![c] = "presented"]
    /\ link'    = [link EXCEPT ![c][n] = Opened(<<Simple("PRESENT_ITSELF")>>)]
    /\ backlog' = [backlog EXCEPT ![n] = Append(@, c)]
    /\ UNCHANGED <<alive, state, pc, net_size, death_count, peer_f_id, peer_f, peer_b,
                   guest, index, peers, connected, ok, client_fd, crashes>>

ClientRequest(c) ==
    /\ phase[c] = "ready"
    /\ \E n \in Node :
         /\ link[c][n].st = "up"
         /\ link' = Sent(link, c, n, <<Simple("REQUEST")>>)
    /\ phase' = [phase EXCEPT ![c] = "busy"]
    /\ UNCHANGED <<alive, state, pc, net_size, death_count, peer_f_id, peer_f, peer_b,
                   backlog, guest, index, peers, connected, ok, client_fd, crashes>>

ClientClose(c) ==
    /\ phase[c] \in {"presented", "ready", "busy"}
    /\ phase' = [phase EXCEPT ![c] = "closed"]
    /\ UNCHANGED <<alive, state, pc, net_size, death_count, peer_f_id, peer_f, peer_b,
                   link, backlog, guest, index, peers, connected, ok, client_fd, crashes>>

\* Every live node has finished its part of the election.
InOperation ==
    \A n \in Node :
        alive[n] => index[n] \in Node /\ state[n] \in {"IDLE", "RECEIVED_PACKET"}

Crash(n) ==
    /\ alive[n] /\ crashes < MaxCrashes
    /\ BootCrashes \/ InOperation
    /\ crashes' = crashes + 1
    /\ Exit(n, link)

NodeStep(n) ==
    \/ Boot(n) \/ Connecting(n) \/ BeginOperation(n)
    \/ PresentItself(n) \/ WaitIndexGossip(n) \/ GossipExit(n)
    \/ ReportDial(n) \/ ReportSelf(n) \/ ReportEnd(n)
    \/ Accept(n) \/ Identify(n) \/ RejectGuest(n) \/ Session(n) \/ Receive(n)
    \/ PollClient(n) \/ PollNothing(n) \/ Serve(n)
    \/ HealthCheck(n) \/ AdoptWidow(n) \/ ForwardDeath(n) \/ DropFromPeerB(n)
    \/ WaitingNewPeer(n)

Next ==
    \/ \E n \in Node : NodeStep(n) \/ Crash(n)
    \/ \E c \in Client : ClientRequest(c) \/ ClientClose(c) \/ \E n \in Node : ClientConnect(c, n)

Spec == Init /\ [][Next]_vars

\* Every live process keeps running its loop.
FairSpec == Spec /\ \A n \in Node : WF_vars(NodeStep(n))
-----------------------------------------------------------------------------
(* Properties *)

State == {"BOOTING", "CONNECTING", "BEGIN_OPERATION", "INDEX_PRESENT_ITSELF",
          "INDEX_WAITING_PEERS_KNOWLEDGE", "WAIT_INDEX_GOSSIP",
          "REPORT_KNOWLEDGE_TO_INDEX", "IDLE", "RECEIVED_PACKET", "WAITING_NEW_PEER"}
Position == {"top", "wait_ok", "reported", "identify", "session", "receive", "poll"}

\* Type correctness of the node's struct Server and of the streams.
TypeOK ==
    /\ alive \in [Node -> BOOLEAN]
    /\ state \in [Node -> State]
    /\ pc \in [Node -> Position]
    /\ net_size \in [Node -> 0 .. WORD - 1]
    /\ death_count \in [Node -> Nat]
    /\ peer_f_id \in [Node -> 0 .. WORD - 1]
    /\ peer_f \in [Node -> Node \cup {None}]
    /\ peer_b \in [Node -> Dialer \cup {None}]
    /\ link \in [Dialer -> [Node -> Stream]]
    /\ backlog \in [Node -> Seq(Dialer)]
    /\ guest \in [Node -> Dialer \cup {None}]
    /\ index \in [Node -> Node \cup {None, Bogus}]
    /\ peers \in [Node -> SUBSET Int]
    /\ connected \in [Node -> Nat]
    /\ ok \in [Node -> BOOLEAN]
    /\ client_fd \in [Node -> Client \cup {None}]
    /\ phase \in [Client -> {"off", "presented", "ready", "busy", "closed"}]
    /\ crashes \in 0 .. MaxCrashes

Dead == {n \in Node : ~alive[n]}

\* Election: never two live nodes that both hold the index role, although every
\* node decides alone by comparing its id with its own copy of net_size.
AtMostOneIndex ==
    \A m, n \in Node : alive[m] /\ alive[n] /\ index[m] = m /\ index[n] = n => m = n

\* Healing: a forward connection only ever jumps over nodes that are dead.
Steps(a, b) == IF b > a THEN b - a ELSE b - a + N
SkipsOnlyTheDead ==
    \A n \in Node : peer_f[n] # None =>
        \A m \in Node \ {n} : Steps(n, m) < Steps(n, peer_f[n]) => ~alive[m]

\* Death notices: a notice in flight names a node that is dead.
NoticesAreTrue ==
    \A a \in Dialer, n \in Node : \A i \in DOMAIN link[a][n].q :
        link[a][n].q[i].type = "PEER_DIED" => ~alive[link[a][n].q[i].peer_id]

\* Death counting: no node counts a death twice, whether it detects the death
\* itself or hears of it from peer_b.
DeathsCountedOnce == \A n \in Node : death_count[n] <= Cardinality(Dead)

\* Gossip: the announcement of an index stops before it returns to its author.
GossipStops ==
    \A a \in Dialer, n \in Node : \A i \in DOMAIN link[a][n].q :
        link[a][n].q[i] # Gossip(n)

\* Report: once an index is in operation it holds the address of every live node
\* that follows it and has finished its report.
IndexKnowsFollowers ==
    \A i, n \in Node :
        /\ alive[i] /\ index[i] = i /\ state[i] \in {"IDLE", "WAITING_NEW_PEER", "RECEIVED_PACKET"}
        /\ alive[n] /\ n # i /\ index[n] = i /\ state[n] = "IDLE"
        => n \in peers[i]
\* Formation: when every node of a complete ring is in operation, each is joined
\* to its command-line neighbours on both sides and all follow node N; in
\* particular no client has slipped into the ring as a backward peer.
OperatingRingIsWhole ==
    InOperation /\ Dead = {} =>
        \A n \in Node : peer_f[n] = Succ(n) /\ peer_b[Succ(n)] = n /\ index[n] = N

\* Election: a node that decides on, announces or waits for an index has an open
\* stream on both sides; in particular it never waits for gossip on the socket of
\* a peer it has buried.
ElectionStates == {"BEGIN_OPERATION", "INDEX_PRESENT_ITSELF",
                   "INDEX_WAITING_PEERS_KNOWLEDGE", "WAIT_INDEX_GOSSIP",
                   "REPORT_KNOWLEDGE_TO_INDEX"}
ElectionHasBothPeers ==
    \A n \in Node : state[n] \in ElectionStates => peer_f[n] # None /\ peer_b[n] # None

\* Node 1 starts a new election as soon as it has a new backward peer, because "my
\* previous peer was index": whenever it does, the index it followed is dead.
PreviousPeerWasIndex ==
    state[1] = "BEGIN_OPERATION" /\ index[1] \in Node => ~alive[index[1]]

\* The index's table of addresses is allocated with net_size entries, which is the
\* index's own id, and server_index_save_reported_peer writes entry sender_id - 1
\* without a look at the length: with five nodes no report is written past the table,
\* although net_size shrinks with every death and the ids of the survivors do not.
\* With six it is not so: nodes 2 and 6 die, node 4 takes over, node 5 reports.
ReportsFitTable == \A n \in Node : peers[n] \subseteq 1 .. n

\* Boot: the ring comes into operation under the index N, and stays there unless a
\* node dies.
RingForms == <>[](\/ \A n \in Node : state[n] = "IDLE" /\ index[n] = N
                  \/ Dead # {})

\* Death notices reach every survivor.
DeathIsLearned ==
    \A d, n \in Node : ~alive[d] ~> (~alive[n] \/ death_count[n] > 0)

\* Failover: when the index is dead, some survivor takes the role.
SuccessorElected == ~alive[N] ~> (\E i \in Node : alive[i] /\ index[i] = i)

\* Healing: after a death the survivors are back in operation, all of them
\* following a live index.
RingHeals ==
    (Dead # {}) ~> (\A n \in Node : alive[n] =>
                       state[n] = "IDLE" /\ index[n] \in Node /\ alive[index[n]])
=============================================================================
