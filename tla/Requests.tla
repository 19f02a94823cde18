------------------------------- MODULE Requests -------------------------------
(***************************************************************************)
(* Clients that create and read files in a ring that is in operation: the  *)
(* relay of a creation to the index, the fan-out of its fragments, and a   *)
(* read, in which the index has the holders deliver to the node that asked.*)
(*                                                                         *)
(* A node has one thread.  pc[n] is where it is; in most places it blocks  *)
(* in recv on one connection, and sees nothing of the others.  Every call  *)
(* to another node is a connection of its own.  Nobody dies here (module   *)
(* Ring has deaths), and a client makes one request; back at its prompt it *)
(* may hang up, and what is then read from its connection is the end.      *)
(*                                                                         *)
(* recv returns whatever has arrived, but no more than RECV bytes: a       *)
(* creation and its contents may come together, or the contents be cut.    *)
(* Packets are whole otherwise.                                            *)
(*                                                                         *)
(* Definitions named Mut_... are wrong on purpose: each takes the place of *)
(* the definition that follows it, to see that a property notices.         *)
(***************************************************************************)
EXTENDS Placement, SequencesExt

CONSTANTS
    N,          \* -network-size; node N is the index
    Client,     \* clients
    Leaving,    \* the clients that may hang up
    Size,       \* Size[f]: length of the file named f
    Short,      \* the names of at most 16 characters
    Known,      \* a file that was stored before the first client came
    RECV,       \* what one recv returns at most: the size of xPacket.bytes
    PRESENTATION, CREATION   \* the lengths of a node's PRESENT and of a CREATE_FILE

ASSUME RequestConstants ==
    /\ N \in Nat \ {0, 1}
    /\ Client \subseteq Nat \ {0} /\ IsFiniteSet(Client) /\ Leaving \subseteq Client
    /\ Known \in DOMAIN Size /\ \A f \in DOMAIN Size : Size[f] \in Nat /\ Size[f] < RECV
    /\ Short \subseteq DOMAIN Size
    /\ {RECV, PRESENTATION, CREATION} \subseteq Nat /\ PRESENTATION + CREATION <= RECV

Node  == 1 .. N
Index == N
Name  == DOMAIN Size
Nowhere == 0      \* not a node: a client's end, or an address that nobody has
NoName  == "none"

\* What the index knows when nobody has died.
View == [me |-> Index, peer_ips |-> Node \ {Index}, known_peers |-> N - 1,
         net_size |-> N, death_count |-> 0]

Parts == [f \in Name |-> FragCount(Size[f], N)]

-----------------------------------------------------------------------------
(* Packets and connections *)

\* bytes: what a raw packet carries, as a sequence of parts <<creator, number>>: the
\* fragments of the file that this client's creation makes.
Plain(t) == [type |-> t, name |-> NoName, file |-> 0, frag |-> 0, to |-> Nowhere, bytes |-> <<>>]
Present  == Plain("PRESENT")
Ok       == Plain("OK")
NotOk    == Plain("NOT_OK")
Raw(b)   == [Plain("RAW") EXCEPT !.bytes = b]
CreateFile(f)         == [Plain("CREATE_FILE") EXCEPT !.name = f]
RequestFile(f, n)     == [Plain("REQUEST_FILE") EXCEPT !.name = f, !.to = n]
Mut_ResponseCopies(id, cnt) == [Plain("RESPONSE") EXCEPT !.file = id, !.frag = cnt * REDUNDANCY]
Response(id, cnt)     == [Plain("RESPONSE") EXCEPT !.file = id, !.frag = cnt]
StoreFragment(id, i)  == [Plain("STORE_FRAGMENT") EXCEPT !.file = id, !.frag = i]
RequestFrag(id, i, n) == [Plain("REQUEST_FRAG") EXCEPT !.file = id, !.frag = i, !.to = n]
DeclareFrag(id, i)    == [Plain("DECLARE_FRAG") EXCEPT !.file = id, !.frag = i]
UseLocal(i)           == [Plain("USE_LOCAL") EXCEPT !.frag = i]

\* A connection: made by from (Nowhere: a client) to node to, for the request of
\* client c; i tells the calls of one request apart.
Conn(kind, c, i, from, to) == [kind |-> kind, c |-> c, i |-> i, from |-> from, to |-> to]
NoConn == Conn("none", 0, 0, Nowhere, Nowhere)

VARIABLES
    wire,       \* wire[k]: packets on the way on connection k, up to k.to and down to k.from
    backlog,    \* connections a listener has not accepted yet
    pc,         \* where the thread of a node is
    fd,         \* the connection a node serves
    client_fd,  \* sv.client_fd
    packet,     \* StateReceivedPacket.packet: what one recv returned, a sequence of packets
    ms,         \* sv.machine_state of a request in work
    call,       \* the call a node is making
    todo,       \* fragments the index still has to hand out or to ask for
    fs,         \* fs[n][id]: fragments of file id on node n, at most two
    files,      \* the index's files, in the order of their ids
    complete,   \* creations whose fan-out has ended
    client,     \* where a client is
    at,         \* the node a client is connected to
    got,        \* the parts a client received
    overlap,    \* clients that were connected before another one's request had ended
    closed,     \* clients that have hung up
    merged,     \* a recv has returned more than one packet, or a packet and a part of one
    torn,       \* creations <<client, name>> of whose contents the index gets a part or nothing
    foreign,    \* clients whose read was taken another packet for a fragment
    strayed     \* the effect of such a packet is undefined, and nothing goes on

net  == <<wire, backlog>>
node == <<pc, fd, client_fd, packet, ms, call, todo>>
data == <<fs, files, complete>>
user == <<client, at, got, overlap, closed>>
vars == <<net, node, data, user, merged, torn, foreign, strayed>>

FileId == 1 .. Cardinality(Client) + 1

Idle == [file |-> 0, count |-> 0, found |-> 0, to |-> Nowhere, from |-> NoConn, buffer |-> <<>>]
NoCall == [conn |-> NoConn, script |-> <<>>, confirm |-> FALSE, ret |-> "idle"]

AllCollected(m) == m.found = m.count

\* The direction in which n reads and writes connection k.
In(k, n)  == IF n = k.to THEN "up" ELSE "down"
Out(k, n) == IF n = k.to THEN "down" ELSE "up"

Queue(k, n) == wire[k][In(k, n)]

Opened(w, k, pkts) == [x \in DOMAIN w \cup {k} |-> IF x = k THEN [up |-> pkts, down |-> <<>>] ELSE w[x]]
Sent(w, k, n, pkts) == [w EXCEPT ![k][Out(k, n)] = @ \o pkts]
Read(w, k, n, j)   == [w EXCEPT ![k][In(k, n)] = SubSeq(@, j + 1, Len(@))]

\* The creation of f and its contents, behind x presentations, are more than one recv returns.
TooLong(f, x) == x * PRESENTATION + CREATION + Size[f] > RECV

\* The first j packets of k are no more than one recv can return.  A creation that was
\* read with a part of its contents has been passed on with that part, in RECV bytes.
Fits(k, n, j) ==
    LET q == Queue(k, n) IN
    \A x \in 1 .. j : q[x].type = "CREATE_FILE" =>
        IF <<k.c, q[x].name>> \in torn THEN j = 1
        ELSE x = j \/ ~TooLong(q[x].name, x - 1)

\* server_wait_from_socket: recv returns what has arrived, at least one packet.
\* The caller looks at the first.
Recv(k, n, j) ==
    /\ j \in 1 .. Len(Queue(k, n)) /\ Fits(k, n, j)
    /\ merged' = (merged \/ j > 1) /\ torn' = torn

\* recv returns RECV bytes that end within packet j + 1.  The rest keeps its place: what
\* is left of contents will be taken for the contents.
RecvCut(k, n, j) ==
    LET q == Queue(k, n) IN
    /\ j + 1 \in 2 .. Len(q) /\ Fits(k, n, j) /\ ~Fits(k, n, j + 1)
    /\ merged' = TRUE
    /\ torn' = IF j = 1 /\ q[1].type = "CREATE_FILE" /\ q[2].type = "RAW"
                  THEN torn \cup {<<k.c, q[1].name>>} ELSE torn

\* The client at the other end of k has hung up and all it sent is read: recv returns 0.
AtEnd(k, n) == k.kind = "client" /\ k.c \in closed /\ Queue(k, n) = <<>>

Goto(n, p) == pc' = [pc EXCEPT ![n] = p]
At(n, p)   == ~strayed /\ pc[n] = p

-----------------------------------------------------------------------------
(* The IDLE pass *)

ClientHasData(n) ==
    client_fd[n] # NoConn /\ (Queue(client_fd[n], n) # <<>> \/ AtEnd(client_fd[n], n))

PollClient(n) ==
    /\ At(n, "idle") /\ ClientHasData(n)
    /\ \E j \in 1 .. Len(Queue(client_fd[n], n)) :
         /\ Recv(client_fd[n], n, j) \/ RecvCut(client_fd[n], n, j)
         /\ wire'   = Read(wire, client_fd[n], n, j)
         /\ packet' = [packet EXCEPT ![n] = SubSeq(Queue(client_fd[n], n), 1, j)]
    /\ fd' = [fd EXCEPT ![n] = client_fd[n]]
    /\ Goto(n, "packet")
    /\ UNCHANGED <<backlog, client_fd, ms, call, todo, data, user, foreign, strayed>>

\* A packet of size 0: the client has gone.
ClientGone(n) ==
    /\ At(n, "idle") /\ client_fd[n] # NoConn /\ AtEnd(client_fd[n], n)
    /\ client_fd' = [client_fd EXCEPT ![n] = NoConn]
    /\ UNCHANGED <<net, pc, fd, packet, ms, call, todo, data, user, merged, torn, foreign, strayed>>

Accept(n) ==
    /\ \/ At(n, "idle") /\ ~ClientHasData(n)
       \/ At(n, "collect") /\ ~AllCollected(ms[n])
    /\ backlog[n] # <<>>
    /\ fd'      = [fd EXCEPT ![n] = Head(backlog[n])]
    /\ backlog' = [backlog EXCEPT ![n] = Tail(@)]
    /\ Goto(n, IF pc[n] = "idle" THEN "identify" ELSE "collect_identify")
    /\ UNCHANGED <<wire, client_fd, packet, ms, call, todo, data, user, merged, torn, foreign, strayed>>

\* What is left of a creation whose beginning was read with the presentation.
Remnant == Raw(<<>>)
CutAt(w, k, n, j) ==
    LET r == Read(w, k, n, j) IN
    IF r[k][In(k, n)][1].type = "CREATE_FILE" THEN [r EXCEPT ![k][In(k, n)][1] = Remnant] ELSE r

\* A newcomer that is a client replaces the one before.
Identify(n) ==
    /\ At(n, "identify") \/ At(n, "collect_identify")
    /\ \E j \in 1 .. Len(Queue(fd[n], n)) :
         \/ /\ Recv(fd[n], n, j)
            /\ wire' = Sent(Read(wire, fd[n], n, j), fd[n], n, <<Ok>>)
         \/ /\ RecvCut(fd[n], n, j)
            /\ wire' = Sent(CutAt(wire, fd[n], n, j), fd[n], n, <<Ok>>)
    /\ LET client_came == pc[n] = "identify" /\ fd[n].kind = "client" IN
         /\ client_fd' = IF client_came THEN [client_fd EXCEPT ![n] = fd[n]] ELSE client_fd
         /\ Goto(n, CASE client_came -> "idle"
                      [] pc[n] = "identify" /\ ~client_came -> "receive"
                      [] OTHER -> "collect_packet")
    /\ UNCHANGED <<backlog, fd, packet, ms, call, todo, data, user, foreign, strayed>>

Receive(n) ==
    /\ At(n, "receive")
    /\ \E j \in 1 .. Len(Queue(fd[n], n)) :
         /\ Recv(fd[n], n, j) \/ RecvCut(fd[n], n, j)
         /\ wire'   = Read(wire, fd[n], n, j)
         /\ packet' = [packet EXCEPT ![n] = SubSeq(Queue(fd[n], n), 1, j)]
    /\ Goto(n, "packet")
    /\ UNCHANGED <<backlog, fd, client_fd, ms, call, todo, data, user, foreign, strayed>>

Got(n, t) == Head(packet[n]).type = t

-----------------------------------------------------------------------------
(* Calls to other nodes: dial, present, then one packet per answer *)

\* The dial of call [conn, script, confirm, ret].  Without confirm the caller goes
\* on when the last packet is sent.
Dial(n, w, kk) ==
    /\ wire'    = Opened(w, kk.conn, <<Present>>)
    /\ backlog' = [backlog EXCEPT ![kk.conn.to] = Append(@, kk.conn)]
    /\ call'    = [call EXCEPT ![n] = kk]
    /\ Goto(n, "call")

Answered(n) ==
    LET kk == call[n] IN
    /\ At(n, "call")
    /\ \E j \in 1 .. Len(Queue(kk.conn, n)) :
         /\ Recv(kk.conn, n, j)
         /\ LET w == Read(wire, kk.conn, n, j) IN
            IF kk.script = <<>>
              THEN wire' = w /\ Goto(n, kk.ret) /\ UNCHANGED call
              ELSE /\ wire' = Sent(w, kk.conn, n, <<Head(kk.script)>>)
                   /\ call' = [call EXCEPT ![n].script = Tail(@)]
                   /\ Goto(n, IF Len(kk.script) = 1 /\ ~kk.confirm THEN kk.ret ELSE "call")
    /\ UNCHANGED <<backlog, fd, client_fd, packet, ms, todo, data, user, foreign, strayed>>

FragmentBytes(n, id, i) ==
    LET has == {s \in DOMAIN fs[n][id] : fs[n][id][s].id = i}
    IN fs[n][id][Least(has)].bytes

\* xprocedure_send_fragment, xprocedure_send_use_local and
\* xprocedure_send_request_fragment, for the read of client c.
SendFragment(n, c, id, i, reader, ret) ==
    [conn |-> Conn("deliver", c, i, n, reader), confirm |-> TRUE, ret |-> ret,
     script |-> <<DeclareFrag(id, i), Raw(FragmentBytes(n, id, i))>>]
SendUseLocal(n, c, i, reader) ==
    [conn |-> Conn("deliver", c, i, n, reader), confirm |-> TRUE, ret |-> "ask",
     script |-> <<UseLocal(i)>>]
SendRequestFragment(n, c, id, i, holder, reader) ==
    [conn |-> Conn("ask", c, i, n, holder), confirm |-> TRUE, ret |-> "ask",
     script |-> <<RequestFrag(id, i, reader)>>]

-----------------------------------------------------------------------------
(* Creating a file *)

Mut_RelayToSelf(n) == Conn("relay", fd[n].c, 0, n, n)

\* The node's connection to the index for the request it serves.
Relay(n) == Conn("relay", fd[n].c, 0, n, Index)

\* TYPE_CREATE_FILE: a node that is not the index passes the packet on, behind its
\* presentation, without waiting for an answer to either.
HandleCreateFile(n) ==
    /\ Got(n, "CREATE_FILE")
    /\ IF n = Index THEN UNCHANGED net
       ELSE /\ wire'    = Opened(wire, Relay(n), <<Present>> \o packet[n])
            /\ backlog' = [backlog EXCEPT ![Index] = Append(@, Relay(n))]
    /\ Goto(n, "raw")
    /\ UNCHANGED <<fd, client_fd, packet, ms, call, todo, data, user, merged, torn, foreign, strayed>>

\* TYPE_STORE_FRAGMENT.
HandleStoreFragment(n) ==
    /\ Got(n, "STORE_FRAGMENT")
    /\ wire' = Sent(wire, fd[n], n, <<Ok>>)
    /\ Goto(n, "raw")
    /\ UNCHANGED <<backlog, fd, client_fd, packet, ms, call, todo, data, user, merged, torn, foreign, strayed>>

\* xfileserver_add_fragment: the first slot when free, the second one otherwise.
AddFragment(slots, frag) == IF slots = <<>> THEN <<frag>> ELSE <<slots[1], frag>>

\* The fragment table of a file, and the pointers a read of it follows, as sequences.
Table == [f \in Name |-> [k \in 1 .. Parts[f] * REDUNDANCY |-> Place(View, Size[f])[k - 1]]]
Chosen ==
    [f \in Name |-> [i \in 1 .. Parts[f] |->
       Selected(View, Parts[f], Place(View, Size[f]))[i - 1]]]

\* SERVER_WAITING_RAW_PACKETS and what it leads to: the node forwards the bytes, or,
\* at the index, numbers and places the file, or stores the fragment.
WaitRaw(n) ==
    LET q == Queue(fd[n], n)
        p == Head(packet[n])
    IN /\ At(n, "raw")
       /\ \E j \in 1 .. Len(q) :
            LET w == Read(wire, fd[n], n, j) IN
            /\ Recv(fd[n], n, j)
            /\ CASE p.type = "CREATE_FILE" /\ n # Index ->
                      /\ wire' = Sent(w, Relay(n), n, SubSeq(q, 1, j))
                      /\ Goto(n, "idle")
                      /\ UNCHANGED <<ms, todo, fs, files>>
                 [] p.type = "CREATE_FILE" /\ n = Index ->
                      /\ wire'  = w
                      /\ files' = Append(files, p.name)
                      /\ ms'    = [ms EXCEPT ![n] = [Idle EXCEPT !.file = Len(files) + 1,
                                                                 !.buffer = q[1].bytes]]
                      /\ todo'  = Table[p.name]
                      /\ Goto(n, "fanout")
                      /\ UNCHANGED fs
                 [] p.type = "STORE_FRAGMENT" ->
                      /\ wire' = w
                      /\ fs'   = [fs EXCEPT ![n][p.file] =
                                    AddFragment(@, [id |-> p.frag, bytes |-> q[1].bytes])]
                      /\ Goto(n, "idle")
                      /\ UNCHANGED <<ms, todo, files>>
       /\ UNCHANGED <<backlog, fd, client_fd, packet, call, complete, user, foreign, strayed>>

\* recv returns 0 instead, and the loop counts that as contents: a node has nothing to
\* pass on, and the index numbers a file of what its buffer held before.
WaitRawEnd(n) ==
    LET c == fd[n].c
        f == Head(packet[n]).name
    IN /\ At(n, "raw") /\ AtEnd(fd[n], n)
       /\ IF n # Index
            THEN /\ Goto(n, "idle")
                 /\ UNCHANGED <<ms, todo, files, torn>>
            ELSE /\ files' = Append(files, f)
                 /\ ms'    = [ms EXCEPT ![n] = [Idle EXCEPT !.file = Len(files) + 1,
                                                            !.buffer = [i \in 1 .. Parts[f] |-> <<c, i>>]]]
                 /\ todo'  = Table[f]
                 /\ torn'  = torn \cup {<<c, f>>}
                 /\ Goto(n, "fanout")
       /\ UNCHANGED <<net, fd, client_fd, packet, call, fs, complete, user, merged, foreign, strayed>>

Mut_PieceShifted(buffer, i) == <<buffer[(i % Len(buffer)) + 1]>>

\* The bytes of fragment i.
Piece(buffer, i) == <<buffer[i]>>

\* SERVER_INDEX_FANOUT_FRAGMENTS, one round; the next begins when the bytes are sent.
Fanout(n) ==
    LET p  == Head(todo)
        id == ms[n].file
        bytes == Piece(ms[n].buffer, p.fragment)
    IN /\ At(n, "fanout") /\ todo # <<>>
       /\ todo' = Tail(todo)
       /\ IF p.node_id = n
            THEN /\ fs' = [fs EXCEPT ![n][id] = AddFragment(@, [id |-> p.fragment, bytes |-> bytes])]
                 /\ UNCHANGED <<net, pc, call>>
            ELSE /\ Dial(n, wire, [conn |-> Conn("store", fd[n].c, Len(todo), n, p.node_id),
                                   script |-> <<StoreFragment(id, p.fragment), Raw(bytes)>>,
                                   confirm |-> FALSE, ret |-> "fanout"])
                 /\ UNCHANGED fs
       /\ UNCHANGED <<fd, client_fd, packet, ms, files, complete, user, merged, torn, foreign, strayed>>

FanoutEnd(n) ==
    /\ At(n, "fanout") /\ todo = <<>>
    /\ complete' = complete \cup {fd[n].c}
    /\ Goto(n, "idle")
    /\ UNCHANGED <<net, fd, client_fd, packet, ms, call, todo, fs, files, user, merged, torn, foreign, strayed>>

-----------------------------------------------------------------------------
(* Reading a file *)

\* xfileserver_find_file_by_name at the index: the first file of that name, 0 for NULL.
FindByName(f) ==
    LET hits == {i \in DOMAIN files : files[i] = f}
    IN IF hits = {} THEN 0 ELSE Least(hits)

\* TYPE_REQUEST_FILE at the index.  After a refusal of a client of its own it has
\* closed the client's connection.
HandleRequestFileAtIndex(n) ==
    LET p  == Head(packet[n])
        id == FindByName(p.name)
    IN /\ n = Index /\ Got(n, "REQUEST_FILE")
       /\ IF id = 0
            THEN /\ wire' = Sent(wire, fd[n], n, <<NotOk>>)
                 /\ client_fd' = IF client_fd[n] = fd[n] THEN [client_fd EXCEPT ![n] = NoConn] ELSE client_fd
                 /\ Goto(n, "idle")
                 /\ UNCHANGED <<ms, todo>>
            ELSE /\ wire' = Sent(wire, fd[n], n, <<Response(id, Parts[p.name])>>)
                 /\ ms'   = [ms EXCEPT ![n] = [Idle EXCEPT !.file = id, !.to = p.to]]
                 /\ todo' = Chosen[p.name]
                 /\ Goto(n, "ask")
                 /\ UNCHANGED client_fd
       /\ UNCHANGED <<backlog, fd, packet, call, data, user, merged, torn, foreign, strayed>>

Mut_FragmentCallNoLocal(n, c, id, p, reader) ==
    IF p.node_id = n THEN SendFragment(n, c, id, p.fragment, reader, "ask")
    ELSE SendRequestFragment(n, c, id, p.fragment, p.node_id, reader)

\* Which call fetches a fragment: the reader may hold it, or the index, or a third node.
FragmentCall(n, c, id, p, reader) ==
    CASE p.node_id = reader -> SendUseLocal(n, c, p.fragment, reader)
      [] p.node_id # reader /\ p.node_id = n -> SendFragment(n, c, id, p.fragment, reader, "ask")
      [] p.node_id \notin {reader, n} -> SendRequestFragment(n, c, id, p.fragment, p.node_id, reader)

\* SERVER_INDEX_REQUEST_FRAGMENTS, one fragment.  The request of a client of the
\* index itself names no node to deliver to, and dialling that address fails.
RequestFragments(n) ==
    LET p  == Head(todo)
        kk == FragmentCall(n, fd[n].c, ms[n].file, p, ms[n].to)
    IN /\ At(n, "ask") /\ todo # <<>>
       /\ todo' = Tail(todo)
       /\ IF kk.conn.to = Nowhere THEN UNCHANGED <<net, pc, call>> ELSE Dial(n, wire, kk)
       /\ UNCHANGED <<fd, client_fd, packet, ms, data, user, merged, torn, foreign, strayed>>

RequestFragmentsEnd(n) ==
    /\ At(n, "ask") /\ todo = <<>>
    /\ Goto(n, "idle")
    /\ UNCHANGED <<net, fd, client_fd, packet, ms, call, todo, data, user, merged, torn, foreign, strayed>>

\* TYPE_REQUEST_FRAG: confirm, then deliver to the node named in the request.
HandleRequestFrag(n) ==
    LET p == Head(packet[n])
        w == Sent(wire, fd[n], n, <<Ok>>)
    IN /\ Got(n, "REQUEST_FRAG")
       /\ IF p.to = Nowhere
            THEN wire' = w /\ Goto(n, "idle") /\ UNCHANGED <<backlog, call>>
            ELSE Dial(n, w, SendFragment(n, fd[n].c, p.file, p.frag, p.to, "idle"))
       /\ UNCHANGED <<fd, client_fd, packet, ms, todo, data, user, merged, torn, foreign, strayed>>

\* TYPE_REQUEST_FILE at another node: forward it to the index under its own id.
HandleRequestFile(n) ==
    /\ n # Index /\ Got(n, "REQUEST_FILE")
    /\ Dial(n, wire, [conn |-> Relay(n), confirm |-> FALSE, ret |-> "answer",
                      script |-> <<[Head(packet[n]) EXCEPT !.to = n]>>])
    /\ UNCHANGED <<fd, client_fd, packet, ms, todo, data, user, merged, torn, foreign, strayed>>

\* The answer of the index: pass on a refusal, or confirm and collect the fragments.
Answer(n) ==
    LET k == call[n].conn IN
    /\ At(n, "answer")
    /\ \E j \in 1 .. Len(Queue(k, n)) :
         LET r == Queue(k, n)[1]
             w == Read(wire, k, n, j)
         IN /\ Recv(k, n, j)
            /\ IF r.type = "NOT_OK"
                 THEN /\ wire' = Sent(w, fd[n], n, <<NotOk>>)
                      /\ Goto(n, "idle")
                      /\ UNCHANGED ms
                 ELSE /\ wire' = Sent(w, fd[n], n, <<Response(r.file, r.frag)>>)
                      /\ ms' = [ms EXCEPT ![n] = [Idle EXCEPT
                                  !.file = r.file, !.count = r.frag, !.from = fd[n],
                                  !.buffer = [i \in 1 .. r.frag |-> <<0, 0>>]]]
                      /\ Goto(n, "collect")
    /\ UNCHANGED <<backlog, fd, client_fd, packet, call, todo, data, user, foreign, strayed>>

Mut_LocalFragmentFirst(slots, i) == slots[1]

\* The fragment a node takes from its own store: slot 0 if it has the number asked
\* for, slot 1 otherwise.
LocalFragment(slots, i) == IF slots[1].id = i THEN slots[1] ELSE slots[2]

Mut_ConfirmLocalOnly(p) == IF p.type = "USE_LOCAL" THEN <<Ok>> ELSE <<>>

\* Whatever the packet is, it is confirmed before it is looked at.
Confirmation(p) == <<Ok>>

Collected(m, i, b) == [m EXCEPT !.buffer[i] = b[1], !.found = @ + 1]

\* The packet is not a delivery of the read that n collects for.
Stranger(n, k, p) == p.type \notin {"USE_LOCAL", "DECLARE_FRAG"} \/ k.c # ms[n].from.c

\* Such a packet writes outside the buffers whatever follows: the size field of a
\* REQUEST_FRAG lies in its address.  What the deliveries of another read do, which come
\* late when that read was handed over with a hole, is not followed.
Undefined(n, k, p) == Stranger(n, k, p) /\ p.type \in {"REQUEST_FRAG", "USE_LOCAL", "DECLARE_FRAG"}

\* SERVER_WAIT_REQUEST_FRAGMENTS: the packet after a presentation.  Whatever is not
\* USE_LOCAL is taken for DECLARE_FRAG, with its bytes for a number and a size.
CollectPacket(n) ==
    LET k == fd[n]
        q == Queue(k, n)
        p == q[1]
    IN /\ At(n, "collect_packet")
       /\ \E j \in 1 .. Len(q) :
            /\ Recv(k, n, j) \/ RecvCut(k, n, j)
            /\ wire' = Sent(Read(wire, k, n, j), k, n, Confirmation(p))
       /\ foreign' = IF Stranger(n, k, p) THEN foreign \cup {ms[n].from.c} ELSE foreign
       /\ strayed' = Undefined(n, k, p)
       /\ IF p.type = "USE_LOCAL" /\ ~Stranger(n, k, p)
            THEN LET f == LocalFragment(fs[n][ms[n].file], p.frag) IN
                 /\ ms' = [ms EXCEPT ![n] = Collected(@, f.id, f.bytes)]
                 /\ Goto(n, "collect")
                 /\ UNCHANGED packet
            ELSE /\ packet' = [packet EXCEPT ![n] = <<p>>]
                 /\ Goto(n, "collect_raw")
                 /\ UNCHANGED ms
       /\ UNCHANGED <<backlog, fd, client_fd, call, todo, data, user>>

\* The newcomer was a client that has gone: nothing is counted.
CollectGone(n) ==
    /\ At(n, "collect_packet") /\ AtEnd(fd[n], n)
    /\ Goto(n, "collect")
    /\ UNCHANGED <<net, fd, client_fd, packet, ms, call, todo, data, user, merged, torn, foreign, strayed>>

CollectRaw(n) ==
    LET q == Queue(fd[n], n) IN
    /\ At(n, "collect_raw") /\ Got(n, "DECLARE_FRAG")
    /\ \E j \in 1 .. Len(q) :
         /\ Recv(fd[n], n, j)
         /\ wire' = Sent(Read(wire, fd[n], n, j), fd[n], n, <<Ok>>)
    /\ ms' = [ms EXCEPT ![n] = Collected(@, Head(packet[n]).frag, q[1].bytes)]
    /\ Goto(n, "collect")
    /\ UNCHANGED <<backlog, fd, client_fd, packet, call, todo, data, user, foreign, strayed>>

\* After a packet that begins with a name.  A short one gives the size 0: what arrives
\* then is copied past the end of an empty buffer.  Any other gives a size that no
\* connection carries, and what arrives is swallowed.
CollectForeign(n) ==
    /\ At(n, "collect_raw") /\ ~Got(n, "DECLARE_FRAG")
    /\ \E j \in 1 .. Len(Queue(fd[n], n)) :
         /\ Recv(fd[n], n, j)
         /\ wire' = Read(wire, fd[n], n, j)
    /\ strayed' = (Head(packet[n]).name \in Short)
    /\ UNCHANGED <<backlog, pc, fd, client_fd, packet, ms, call, todo, data, user, foreign>>

\* Or its sender hangs up, which ends the loop whatever the size: of nothing, nothing is
\* copied, and it is counted; of the other, more is copied than there is room for.
CollectForeignEnd(n) ==
    LET short == Head(packet[n]).name \in Short IN
    /\ At(n, "collect_raw") /\ ~Got(n, "DECLARE_FRAG") /\ AtEnd(fd[n], n)
    /\ strayed' = ~short
    /\ ms' = IF short THEN [ms EXCEPT ![n].found = @ + 1] ELSE ms
    /\ Goto(n, "collect")
    /\ UNCHANGED <<net, fd, client_fd, packet, call, todo, data, user, merged, torn, foreign>>

CollectEnd(n) ==
    /\ At(n, "collect") /\ AllCollected(ms[n])
    /\ fd' = [fd EXCEPT ![n] = ms[n].from]
    /\ Goto(n, "hand_over")
    /\ UNCHANGED <<net, client_fd, packet, ms, call, todo, data, user, merged, torn, foreign, strayed>>

\* server_wait_ok on the client, then the whole buffer.
HandOver(n) ==
    /\ At(n, "hand_over")
    /\ \E j \in 1 .. Len(Queue(fd[n], n)) :
         /\ Recv(fd[n], n, j)
         /\ wire' = Sent(Read(wire, fd[n], n, j), fd[n], n, <<Raw(ms[n].buffer)>>)
    /\ Goto(n, "idle")
    /\ UNCHANGED <<backlog, fd, client_fd, packet, ms, call, todo, data, user, foreign, strayed>>

\* Any other packet is printed and dropped.
HandleUnknown(n) ==
    /\ Head(packet[n]).type \notin {"CREATE_FILE", "STORE_FRAGMENT", "REQUEST_FILE", "REQUEST_FRAG"}
    /\ Goto(n, "idle")
    /\ UNCHANGED <<net, fd, client_fd, packet, ms, call, todo, data, user, merged, torn, foreign, strayed>>

-----------------------------------------------------------------------------
(* Clients *)

Ended(c) == client[c] \in {"refused", "done"} \/ (client[c] = "sent" /\ c \in complete)
Pending(c) == client[c] # "off" /\ ~Ended(c)

Line(c) == Conn("client", c, 0, Nowhere, at[c])

\* Clients are numbered in the order in which they connect.
Connect(c, n) ==
    /\ client[c] = "off" /\ ~strayed
    /\ \A d \in Client : d < c => client[d] # "off"
    /\ at'      = [at EXCEPT ![c] = n]
    /\ wire'    = Opened(wire, Conn("client", c, 0, Nowhere, n), <<Present>>)
    /\ backlog' = [backlog EXCEPT ![n] = Append(@, Conn("client", c, 0, Nowhere, n))]
    /\ client'  = [client EXCEPT ![c] = "hello"]
    /\ overlap' = LET busy == {d \in Client : Pending(d)}
                  IN IF busy = {} THEN overlap ELSE overlap \cup busy \cup {c}
    /\ UNCHANGED <<node, data, got, closed, merged, torn, foreign, strayed>>

\* A client reads its packets one by one: they begin with their size.
Hears(c) ==
    /\ ~strayed /\ client[c] \in {"hello", "asked", "fetch"}
    /\ Queue(Line(c), Nowhere) # <<>>

Welcome(c) ==
    /\ Hears(c) /\ client[c] = "hello"
    /\ wire'   = Read(wire, Line(c), Nowhere, 1)
    /\ client' = [client EXCEPT ![c] = "ready"]
    /\ UNCHANGED <<backlog, node, data, at, got, overlap, closed, merged, torn, foreign, strayed>>

SendFile(c, f) ==
    /\ client[c] = "ready" /\ c \notin closed /\ ~strayed
    /\ wire'   = Sent(wire, Line(c), Nowhere, <<CreateFile(f)>>)
    /\ got'    = [got EXCEPT ![c] = [i \in 1 .. Parts[f] |-> <<c, i>>]]
    /\ client' = [client EXCEPT ![c] = "creating"]
    /\ UNCHANGED <<backlog, node, data, at, overlap, closed, merged, torn, foreign, strayed>>

SendContents(c) ==
    /\ client[c] = "creating" /\ ~strayed
    /\ wire'   = Sent(wire, Line(c), Nowhere, <<Raw(got[c])>>)
    /\ client' = [client EXCEPT ![c] = "sent"]
    /\ UNCHANGED <<backlog, node, data, at, got, overlap, closed, merged, torn, foreign, strayed>>

AskFile(c, f) ==
    /\ client[c] = "ready" /\ c \notin closed /\ ~strayed
    /\ wire'   = Sent(wire, Line(c), Nowhere, <<RequestFile(f, Nowhere)>>)
    /\ client' = [client EXCEPT ![c] = "asked"]
    /\ UNCHANGED <<backlog, node, data, at, got, overlap, closed, merged, torn, foreign, strayed>>

ReadResponse(c) ==
    /\ Hears(c) /\ client[c] = "asked"
    /\ LET w == Read(wire, Line(c), Nowhere, 1) IN
       IF Queue(Line(c), Nowhere)[1].type = "RESPONSE"
         THEN /\ wire'   = Sent(w, Line(c), Nowhere, <<Ok>>)
              /\ client' = [client EXCEPT ![c] = "fetch"]
         ELSE /\ wire'   = w
              /\ client' = [client EXCEPT ![c] = "refused"]
    /\ UNCHANGED <<backlog, node, data, at, got, overlap, closed, merged, torn, foreign, strayed>>

\* "close" at the prompt, where a client is once it has sent a file or has been answered.
Close(c) ==
    /\ ~strayed /\ c \in Leaving \ closed
    /\ client[c] \in {"ready", "sent", "refused", "done"}
    /\ closed' = closed \cup {c}
    /\ UNCHANGED <<net, node, data, client, at, got, overlap, merged, torn, foreign, strayed>>

ReadContents(c) ==
    /\ Hears(c) /\ client[c] = "fetch"
    /\ wire'   = Read(wire, Line(c), Nowhere, 1)
    /\ got'    = [got EXCEPT ![c] = Queue(Line(c), Nowhere)[1].bytes]
    /\ client' = [client EXCEPT ![c] = "done"]
    /\ UNCHANGED <<backlog, node, data, at, overlap, closed, merged, torn, foreign, strayed>>

-----------------------------------------------------------------------------
\* What node n keeps of the file that was stored before: its pointers in the order of
\* the table, at most two.
StoredOn(n, f) ==
    LET mine  == {k \in DOMAIN Table[f] : Table[f][k].node_id = n}
        first == Least(mine)
        slot(k) == [id |-> Table[f][k].fragment, bytes |-> <<<<0, Table[f][k].fragment>>>>]
    IN CASE mine = {} -> <<>>
         [] mine = {first} -> <<slot(first)>>
         [] mine \notin {{}, {first}} -> <<slot(first), slot(Least(mine \ {first}))>>

Init ==
    /\ wire      = [k \in {} |-> [up |-> <<>>, down |-> <<>>]]
    /\ backlog   = [n \in Node |-> <<>>]
    /\ pc        = [n \in Node |-> "idle"]
    /\ fd        = [n \in Node |-> NoConn]
    /\ client_fd = [n \in Node |-> NoConn]
    /\ packet    = [n \in Node |-> <<Ok>>]
    /\ ms        = [n \in Node |-> Idle]
    /\ call      = [n \in Node |-> NoCall]
    /\ todo      = <<>>
    /\ fs        = [n \in Node |-> [id \in FileId |-> IF id = 1 THEN StoredOn(n, Known) ELSE <<>>]]
    /\ files     = <<Known>>
    /\ complete  = {}
    /\ client    = [c \in Client |-> "off"]
    /\ at        = [c \in Client |-> Nowhere]
    /\ got       = [c \in Client |-> <<>>]
    /\ overlap   = {}
    /\ closed    = {}
    /\ merged    = FALSE
    /\ torn      = {}
    /\ foreign   = {}
    /\ strayed   = FALSE

\* SERVER_RECEIVED_PACKET: the handler of the packet's type.
Handle(n) ==
    /\ At(n, "packet")
    /\ \/ HandleCreateFile(n) \/ HandleStoreFragment(n) \/ HandleRequestFileAtIndex(n)
       \/ HandleRequestFile(n) \/ HandleRequestFrag(n) \/ HandleUnknown(n)

\* SERVER_WAIT_REQUEST_FRAGMENTS behind its accept.
Collect(n) ==
    \/ CollectPacket(n) \/ CollectGone(n) \/ CollectRaw(n) \/ CollectEnd(n) \/ HandOver(n)
    \/ CollectForeign(n) \/ CollectForeignEnd(n)

NodeStep(n) ==
    \/ Handle(n) \/ Answered(n)
    \/ PollClient(n) \/ ClientGone(n) \/ Accept(n) \/ Identify(n) \/ Receive(n)
    \/ WaitRaw(n) \/ WaitRawEnd(n) \/ Fanout(n) \/ FanoutEnd(n)
    \/ RequestFragments(n) \/ RequestFragmentsEnd(n) \/ Answer(n) \/ Collect(n)

ClientStep(c) == Welcome(c) \/ SendContents(c) \/ ReadResponse(c) \/ ReadContents(c)

Next ==
    \/ \E n \in Node : NodeStep(n)
    \/ \E c \in Client : ClientStep(c) \/ Close(c)
    \/ \E c \in Client, n \in Node : Connect(c, n)
    \/ \E c \in Client, f \in Name : SendFile(c, f) \/ AskFile(c, f)

Spec == Init /\ [][Next]_vars

\* Some process that can go on goes on.  No behaviour here is infinite, so this is
\* no more than every process going on when it can.
FairSpec ==
    Spec /\ WF_vars((\E n \in Node : NodeStep(n)) \/ (\E c \in Client : ClientStep(c)))

-----------------------------------------------------------------------------
(* Properties *)

Part == (Client \cup {0}) \X Nat
Position == {"idle", "identify", "receive", "packet", "raw", "fanout", "ask", "call", "answer",
             "collect", "collect_identify", "collect_packet", "collect_raw", "hand_over"}

\* Type correctness: connections join two processes, a listener's queue holds
\* connections made to it, and no node counts more fragments than it asked for.
TypeOK ==
    /\ \A k \in DOMAIN wire :
         /\ k.to \in Node /\ k.from \in (Node \cup {Nowhere}) \ {k.to} /\ k.c \in Client
    /\ \A n \in Node :
         /\ pc[n] \in Position
         /\ \A i \in DOMAIN backlog[n] : backlog[n][i] \in DOMAIN wire /\ backlog[n][i].to = n
         /\ {fd[n], client_fd[n], call[n].conn} \subseteq DOMAIN wire \cup {NoConn}
         /\ ms[n].found \in 0 .. ms[n].count
         /\ \A i \in DOMAIN ms[n].buffer : ms[n].buffer[i] \in Part
         /\ \A id \in FileId : Len(fs[n][id]) <= REDUNDANCY
    /\ \A i \in DOMAIN files : files[i] \in Name
    /\ complete \subseteq Client /\ overlap \subseteq Client
    /\ closed \subseteq Client /\ foreign \subseteq Client
    /\ merged \in BOOLEAN /\ strayed \in BOOLEAN

Asking(c) == client[c] \in {"creating", "sent", "asked", "fetch"} /\ ~Ended(c)

\* The connection on which n blocks in recv.
Reads(n) ==
    CASE pc[n] \in {"identify", "receive", "raw", "collect_identify", "collect_packet",
                    "collect_raw", "hand_over"} -> fd[n]
      [] pc[n] \in {"call", "answer"} -> call[n].conn
      [] OTHER -> NoConn

\* n blocks on a connection to m, and nothing has been sent to it there.
WaitsFor(n, m) ==
    LET k == Reads(n) IN
    /\ k # NoConn /\ Queue(k, n) = <<>>
    /\ m = (IF k.to = n THEN k.from ELSE k.to)

CircularWait(S) == S # {} /\ \A n \in S : \E m \in S : WaitsFor(n, m)

\* Nodes never block on each other in a circle ("using non-blocking sockets").
NoCircularWait == \A S \in SUBSET Node : ~CircularWait(S)

\* A circle of nodes that block on each other always contains the index: collecting
\* and delivering nodes, which also wait for one another, never block each other,
\* whatever two requests do.
CyclesThroughIndex == \A S \in SUBSET (Node \ {Index}) : ~CircularWait(S)

\* A client that received a file received every part of it, in order, and all parts
\* from one creation: none was left out, none is of another file; unless its node took
\* another client's packet for one of the fragments.
ReadsAreWhole ==
    \A c \in Client : client[c] = "done" /\ c \notin foreign =>
        \E b \in Client \cup {0} : got[c] = [i \in 1 .. Len(got[c]) |-> <<b, i>>]

\* When the nodes are at rest, every copy of every fragment of every file the index has
\* numbered is in place, all of one creation, also when packets of its relay or of the
\* client were read in one recv.  What was stored is what the client sent, unless
\* creation and contents are too long for one recv or the client hung up.
StoredWhole ==
    (\A n \in Node : pc[n] = "idle" /\ backlog[n] = <<>>) =>
        \A id \in DOMAIN files : \E b \in Client \cup {0} :
            /\ \A p \in Range(Table[files[id]]) :
                 [id |-> p.fragment, bytes |-> <<<<b, p.fragment>>>>] \in Range(fs[p.node_id][id])
            /\ <<b, files[id]>> \in torn => TooLong(files[id], 0) \/ b \in closed

\* A node that collects fragments takes another packet for one only if two clients'
\* requests have been under way together; a single request never goes astray.
StraysNeedOverlap == strayed \/ foreign # {} => overlap # {}

\* Every request that no other client's connection overlaps comes to its end (the
\* creation is stored, the read is answered), unless packets were read in one recv;
\* the reads of a client that is connected to the index itself do not.
LoneRequestsEnd ==
    []<>(\A c \in Client :
           Asking(c) => merged \/ c \in overlap \/ (client[c] = "fetch" /\ at[c] = Index))
=============================================================================
