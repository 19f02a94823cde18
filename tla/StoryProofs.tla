----------------------------- MODULE StoryProofs ----------------------------
(***************************************************************************)
(* What the requests of Requests are about, for every number of nodes,     *)
(* clients and files.  A story tells of every client which file it wants,  *)
(* from which node, to read or to create it, and which number the file     *)
(* has; a stage tells of every connection how far it has come.  Story and  *)
(* stages explain a state (Explains) when everything in it follows from    *)
(* them: the packets on the way, the threads, the calls, the buffers, the  *)
(* shelves.  This module has the facts about the parts, the frame lemmas   *)
(* (what a step leaves alone), and the steps that bring a request to the   *)
(* index: every state they lead to is explained again.                     *)
(***************************************************************************)
EXTENDS Requests, PlacementProofs, FiniteSetTheorems, SequenceTheorems

-----------------------------------------------------------------------------
(* Connections and the stories they belong to *)

Kinds == {"client", "relay", "ask", "deliver", "store"}
Conns == [kind : Kinds, c : Client, i : Nat, from : Node \cup {Nowhere}, to : Node]

\* What a story tells of every client: the file it wants, the node it is connected to,
\* what it does, the number of the file; and of every file who created it.
Stories == [want : [Client -> Name], home : [Client -> Node], op : [Client -> {"read", "write"}],
            file : [Client -> Nat], owner : [Nat -> Client \cup {0}]]

CallStages == {"queued", "identify", "hello", "said", "packet", "ok", "raw", "done", "over"}
LineStages == {"queued", "identify", "open", "packet", "raw", "passed", "fanout", "stored", "relay",
               "answer", "collect", "hand_over", "served", "refused", "asking", "asked"}
ReadRelayStages  == {"queued", "identify", "hello", "said", "packet", "asking", "asked", "refused"}
WriteRelayStages == {"queued", "identify", "receive", "lost", "lostpacket", "packet", "raw",
                     "fanout", "stored", "gone"}
Stage == CallStages \cup LineStages \cup ReadRelayStages \cup WriteRelayStages \cup {"none"}

Copies(f)  == Parts[f] * REDUNDANCY
Copy(f, j) == Table[f][Copies(f) + 1 - j]

LineOf(s, c)       == Conn("client", c, 0, Nowhere, s.home[c])
RelayOf(s, c)      == Conn("relay", c, 0, s.home[c], Index)
AskOf(c, i)        == Conn("ask", c, i, Index, i)
DeliverOf(s, c, i) == Conn("deliver", c, i, IF i = s.home[c] THEN Index ELSE i, s.home[c])
StoreOf(s, c, j)   == Conn("store", c, j, Index, Copy(s.want[c], j).node_id)

\* The connection on which the index has the request of client c.
Job(s, c) == IF s.home[c] = Index THEN LineOf(s, c) ELSE RelayOf(s, c)
Reader(s, c) == IF s.home[c] = Index THEN Nowhere ELSE s.home[c]

-----------------------------------------------------------------------------
(* What is said *)

Contents(s, c) == [i \in 1 .. Parts[s.want[c]] |-> <<c, i>>]
Whole(s, c)    == [i \in 1 .. Parts[s.want[c]] |-> <<s.owner[s.file[c]], i>>]
Creation(s, c) == CreateFile(s.want[c])
Bytes(s, c)    == Raw(Contents(s, c))
Wish(s, c)     == RequestFile(s.want[c], Nowhere)
Grant(s, c)    == Response(s.file[c], Parts[s.want[c]])

\* The packets a caller sends on k after its presentation: one, and the bytes behind it.
First(s, k) ==
    IF k.kind = "ask" THEN RequestFrag(s.file[k.c], k.i, Reader(s, k.c))
    ELSE IF k.kind = "store" THEN StoreFragment(s.file[k.c], Copy(s.want[k.c], k.i).fragment)
    ELSE IF k.kind = "relay" THEN RequestFile(s.want[k.c], s.home[k.c])
    ELSE IF k.i = s.home[k.c] THEN UseLocal(k.i) ELSE DeclareFrag(s.file[k.c], k.i)
Second(s, k) ==
    IF k.kind = "deliver" THEN Raw(<<<<s.owner[s.file[k.c]], k.i>>>>)
    ELSE Raw(<<<<k.c, Copy(s.want[k.c], k.i).fragment>>>>)
HasBytes(s, k) == k.kind = "store" \/ (k.kind = "deliver" /\ k.i # s.home[k.c])
Rest(s, k) == IF HasBytes(s, k) THEN <<Second(s, k)>> ELSE <<>>
Full(s, k) == IF HasBytes(s, k) THEN <<First(s, k), Second(s, k)>> ELSE <<First(s, k)>>

Return(k) ==
    IF k.kind = "store" THEN "fanout"
    ELSE IF k.kind = "relay" THEN "answer"
    ELSE IF k.kind = "ask" \/ k.from = Index THEN "ask" ELSE "idle"

IsCall(s, k) == k.kind \in {"ask", "deliver", "store"} \/ (k.kind = "relay" /\ s.op[k.c] = "read")

\* The caller of k is still in the call.
Dialling(s, t, k) ==
    /\ IsCall(s, k)
    /\ \/ t[k] \in {"queued", "identify", "hello", "done"}
       \/ t[k] \in {"said", "packet", "ok"} /\ k.kind # "relay"
       \/ t[k] = "raw" /\ k.kind = "deliver"
Remaining(s, t, k) ==
    IF t[k] \in {"queued", "identify", "hello"} THEN Full(s, k)
    ELSE IF t[k] \in {"said", "packet", "ok"} THEN Rest(s, k) ELSE <<>>

-----------------------------------------------------------------------------
(* One connection *)

Shape(s, t, k) ==
    /\ k.kind = "client"  => k = LineOf(s, k.c) /\ t[k] \in LineStages
    /\ k.kind = "relay"   => /\ k = RelayOf(s, k.c) /\ s.home[k.c] # Index
                             /\ \/ s.op[k.c] = "read" /\ t[k] \in ReadRelayStages
                                \/ s.op[k.c] = "write" /\ t[k] \in WriteRelayStages
    /\ k.kind = "ask"     => /\ k = AskOf(k.c, k.i) /\ k.i \in 1 .. Parts[s.want[k.c]]
                             /\ k.i # Index /\ k.i # s.home[k.c] /\ t[k] \in CallStages \ {"ok", "raw"}
    /\ k.kind = "deliver" => /\ k = DeliverOf(s, k.c, k.i) /\ k.i \in 1 .. Parts[s.want[k.c]]
                             /\ s.home[k.c] # Index /\ t[k] \in CallStages \ {"packet"}
                             /\ t[k] \in {"ok", "raw"} => k.i # s.home[k.c]
    /\ k.kind = "store"   => /\ k = StoreOf(s, k.c, k.i) /\ k.i \in 1 .. Copies(s.want[k.c])
                             /\ k.to # Index /\ t[k] \in CallStages \ {"done"}

Seat(t, k) ==
    LET n == k.to IN
    /\ t[k] = "queued"   => \E x \in DOMAIN backlog[n] : backlog[n][x] = k
    /\ t[k] = "identify" => fd[n] = k /\ pc[n] \in {"identify", "collect_identify"}
    /\ t[k] \in {"hello", "said"} => fd[n] = k /\ pc[n] \in {"receive", "collect_packet"}
    /\ t[k] \in {"receive", "lost"} => fd[n] = k /\ pc[n] = "receive"
    /\ t[k] \in {"packet", "lostpacket"} => fd[n] = k /\ pc[n] = "packet"
    /\ t[k] \in {"ok", "raw"} => fd[n] = k /\ pc[n] = IF k.kind = "deliver" THEN "collect_raw" ELSE "raw"
    /\ t[k] = "fanout" => fd[n] = k /\ pc[n] \in {"fanout", "call"}
    /\ t[k] = "asking" => fd[n] = k /\ pc[n] \in {"ask", "call"}
    /\ t[k] = "relay"  => fd[n] = k /\ pc[n] = "call"
    /\ t[k] = "answer" => fd[n] = k /\ pc[n] = "answer"
    /\ t[k] = "hand_over" => fd[n] = k /\ pc[n] = "hand_over"

Caller(s, t, k) ==
    Dialling(s, t, k) =>
      /\ pc[k.from] = "call"
      /\ call[k.from] = [conn |-> k, script |-> Remaining(s, t, k),
                         confirm |-> k.kind \in {"ask", "deliver"}, ret |-> Return(k)]

Has(k, u, d) == wire[k].up = u /\ wire[k].down = d

CallTalk(s, t, k) ==
    IsCall(s, k) =>
      /\ t[k] \in {"queued", "identify"} => Has(k, <<Present>>, <<>>)
      /\ t[k] = "hello"  => Has(k, <<>>, <<Ok>>)
      /\ t[k] = "said"   => Has(k, <<First(s, k)>>, <<>>)
      /\ t[k] = "packet" => Has(k, <<>>, <<>>) /\ packet[k.to] = <<First(s, k)>>
      /\ t[k] = "ok"     => Has(k, <<>>, <<Ok>>) /\ packet[k.to] = <<First(s, k)>>
      /\ t[k] = "raw"    => Has(k, <<Second(s, k)>>, <<>>) /\ packet[k.to] = <<First(s, k)>>
      /\ t[k] = "done"   => wire[k].down = <<Ok>>

\* Client c is in state p, with u and d on its line.
Is(k, p, u, d) == client[k.c] = p /\ Has(k, u, d)

\* A creation that its node has read from the line k, the contents too or not yet.
Taken(s, k) ==
    \/ Is(k, "creating", <<>>, <<>>) /\ packet[k.to] = <<Creation(s, k.c)>>
    \/ Is(k, "sent", <<Bytes(s, k.c)>>, <<>>) /\ packet[k.to] = <<Creation(s, k.c)>>
    \/ Is(k, "sent", <<>>, <<>>) /\ packet[k.to] = <<Creation(s, k.c), Bytes(s, k.c)>>
Promised(s, k) == Is(k, "asked", <<>>, <<Grant(s, k.c)>>) \/ Is(k, "fetch", <<Ok>>, <<>>)

LineTalk(s, t, k) ==
    k.kind = "client" =>
      /\ t[k] \in {"queued", "identify"} => Is(k, "hello", <<Present>>, <<>>)
      /\ t[k] = "open" => \/ Is(k, "hello", <<>>, <<Ok>>) \/ Is(k, "ready", <<>>, <<>>)
                          \/ Is(k, "creating", <<Creation(s, k.c)>>, <<>>)
                          \/ Is(k, "sent", <<Creation(s, k.c), Bytes(s, k.c)>>, <<>>)
                          \/ Is(k, "asked", <<Wish(s, k.c)>>, <<>>)
      /\ t[k] = "packet" => Taken(s, k) \/ (Is(k, "asked", <<>>, <<>>) /\ packet[k.to] = <<Wish(s, k.c)>>)
      /\ t[k] = "raw" => Taken(s, k)
      /\ t[k] = "passed" => k.to # Index /\ Is(k, "sent", <<>>, <<>>)
      /\ t[k] \in {"fanout", "stored"} => k.to = Index /\ Is(k, "sent", <<>>, <<>>)
      /\ t[k] \in {"relay", "answer"} => /\ k.to # Index /\ Is(k, "asked", <<>>, <<>>)
                                         /\ call[k.to].conn = RelayOf(s, k.c)
      /\ t[k] \in {"collect", "hand_over"} => k.to # Index /\ Promised(s, k)
      /\ t[k] = "hand_over" => ms[k.to].buffer = Whole(s, k.c)
      /\ t[k] = "served" => /\ k.to # Index
                            /\ \/ Is(k, "fetch", <<>>, <<Raw(Whole(s, k.c))>>)
                               \/ Is(k, "done", <<>>, <<>>) /\ got[k.c] = Whole(s, k.c)
      /\ t[k] = "refused" => Is(k, "asked", <<>>, <<NotOk>>) \/ Is(k, "refused", <<>>, <<>>)
      /\ t[k] = "asking" => k.to = Index /\ Promised(s, k)
      /\ t[k] = "asked" => k.to = Index /\ (Promised(s, k) \/ Is(k, "fetch", <<>>, <<>>))

\* The node of client c has read the contents of the file from the client.
Forwarded(s, c) == client[c] = "sent" /\ wire[LineOf(s, c)].up = <<>>

Held(s, k) ==
    \/ packet[k.to] = <<Creation(s, k.c)>> /\ wire[k].up = <<>>
    \/ packet[k.to] = <<Creation(s, k.c)>> /\ wire[k].up = <<Bytes(s, k.c)>> /\ Forwarded(s, k.c)
    \/ packet[k.to] = <<Creation(s, k.c), Bytes(s, k.c)>> /\ wire[k].up = <<>> /\ Forwarded(s, k.c)

RelayTalk(s, t, k) ==
    k.kind = "relay" /\ s.op[k.c] = "write" =>
      LET C == Creation(s, k.c)
          B == Bytes(s, k.c)
          up == wire[k].up
      IN /\ t[k] \in {"queued", "identify"} => up = <<Present, C>> \/ (up = <<Present, C, B>> /\ Forwarded(s, k.c))
         /\ t[k] = "receive" => up = <<C>> \/ (up = <<C, B>> /\ Forwarded(s, k.c))
         /\ t[k] = "lost"    => \/ up \in {<<>>, <<Remnant>>}
                                \/ up \in {<<B>>, <<Remnant, B>>} /\ Forwarded(s, k.c)
         /\ t[k] \in {"packet", "raw"} => Held(s, k)
         /\ t[k] = "lostpacket" => packet[k.to] \in {<<B>>, <<Remnant>>, <<Remnant, B>>}
         /\ t[k] \in {"fanout", "stored"} => Forwarded(s, k.c)

Link(s, t, k) ==
    /\ Shape(s, t, k) /\ Seat(t, k) /\ Caller(s, t, k)
    /\ CallTalk(s, t, k) /\ LineTalk(s, t, k) /\ RelayTalk(s, t, k)
    /\ DOMAIN wire[k] = {"up", "down"}

-----------------------------------------------------------------------------
(* One request *)

Granted(s, t, c)  == t[Job(s, c)] \in {"asking", "asked"}
Numbered(s, t, c) == t[Job(s, c)] \in {"fanout", "stored"}

\* The request is with the client's node, with the index, or with both, in this order.
Progress(s, t, c) ==
    LET l == t[LineOf(s, c)]
        r == t[RelayOf(s, c)]
    IN /\ l # "none"
       /\ l \in {"queued", "identify", "open", "packet"} => r = "none"
       /\ s.op[c] = "read" /\ s.home[c] # Index =>
            /\ l = "relay" <=> r \in {"queued", "identify", "hello"}
            /\ r \in {"said", "packet"} => l = "answer"
            /\ r = "refused" => l \in {"answer", "refused"}
            /\ l = "refused" => r = "refused"
            /\ l = "answer" => r \in {"said", "packet", "asking", "asked", "refused"}
            /\ l \in {"collect", "hand_over", "served"} => r \in {"asking", "asked"}
       /\ s.op[c] = "write" /\ s.home[c] # Index =>
            (l \in {"raw", "passed"} <=> r # "none")

\* The node waits for the answer, and the index has given it.
Answers(s, t, c) ==
    LET r == RelayOf(s, c) IN
    t[LineOf(s, c)] = "answer" =>
      /\ t[r] \in {"asking", "asked"} => wire[r].down = <<Grant(s, c)>>
      /\ t[r] = "refused" => wire[r].down = <<NotOk>>

Doing(s, c) ==
    /\ client[c] \in {"asked", "fetch", "refused", "done"} => s.op[c] = "read"
    /\ client[c] \in {"creating", "sent"} => s.op[c] = "write" /\ got[c] = Contents(s, c)
    /\ at[c] = s.home[c]

Undelivered == {"queued", "identify", "hello", "said", "ok", "raw"}
Delivered   == {"done", "over"}

\* A fragment is asked for, then delivered, then collected, once.
Fetch(s, t, c, i) ==
    LET l == t[LineOf(s, c)]
        d == t[DeliverOf(s, c, i)]
    IN /\ d \in Undelivered => l \in {"answer", "collect"}
       /\ d \in Delivered => l \in {"collect", "hand_over", "served"}
       /\ l \in {"hand_over", "served"} => d \in Delivered
       /\ t[AskOf(c, i)] \in {"queued", "identify", "hello", "said", "packet"} => d = "none"

Arrived(s, t, c) == {i \in 1 .. Parts[s.want[c]] : t[DeliverOf(s, c, i)] \in Delivered}

Collecting == {"collect", "collect_identify", "collect_packet", "collect_raw"}
Tally(s, t, c) ==
    LET n == s.home[c] IN
    t[LineOf(s, c)] = "collect" =>
      /\ pc[n] \in Collecting
      /\ ms[n].from = LineOf(s, c) /\ ms[n].file = s.file[c]
      /\ ms[n].count = Parts[s.want[c]] /\ ms[n].found = Cardinality(Arrived(s, t, c))
      /\ ms[n].buffer = [i \in 1 .. Parts[s.want[c]] |->
                           IF i \in Arrived(s, t, c) THEN <<s.owner[s.file[c]], i>> ELSE <<0, 0>>]

\* What is granted is the number of a file that has been handed out.
Found(s, t, c) ==
    Granted(s, t, c) =>
      /\ s.op[c] = "read"
      /\ s.file[c] \in DOMAIN files /\ files[s.file[c]] = s.want[c]
      /\ s.file[c] = 1 \/ t[Job(s, s.owner[s.file[c]])] = "stored"

\* Fragments are asked for after the grant, and handed out after the numbering.
Bound(s, t, k) ==
    /\ k.kind \in {"ask", "deliver"} => Granted(s, t, k.c)
    /\ k.kind = "store" => Numbered(s, t, k.c)

HandedOut(s, t, c) ==
    t[Job(s, c)] = "stored" =>
      \A j \in 1 .. Copies(s.want[c]) :
        Copy(s.want[c], j).node_id # Index => t[StoreOf(s, c, j)] \in {"raw", "over"}

Request(s, t, c) ==
    client[c] # "off" =>
      /\ Progress(s, t, c) /\ Answers(s, t, c) /\ Doing(s, c)
      /\ \A i \in 1 .. Parts[s.want[c]] : s.home[c] # Index => Fetch(s, t, c, i)
      /\ Tally(s, t, c) /\ Found(s, t, c) /\ HandedOut(s, t, c)
      /\ c \in complete <=> t[Job(s, c)] = "stored"

-----------------------------------------------------------------------------
(* One thread *)

Serves(t, n, S) == fd[n] \in Conns /\ fd[n].to = n /\ t[fd[n]] \in S

Thread(s, t, n) ==
    /\ pc[n] \in Position
    /\ fd[n] # NoConn => fd[n] \in Conns /\ t[fd[n]] # "none"
    /\ client_fd[n] # NoConn =>
         /\ client_fd[n] \in Conns /\ client_fd[n].kind = "client" /\ client_fd[n].to = n
         /\ t[client_fd[n]] \notin {"none", "queued", "identify"}
    /\ call[n].conn # NoConn => call[n].conn \in Conns /\ t[call[n].conn] # "none"
    /\ pc[n] \in {"identify", "collect_identify"} => Serves(t, n, {"identify"})
    /\ pc[n] = "identify" => fd[n].kind # "deliver"
    /\ pc[n] = "receive" => Serves(t, n, {"hello", "said", "receive", "lost"}) /\ fd[n].kind # "deliver"
    /\ pc[n] = "packet" => /\ Serves(t, n, {"packet", "lostpacket", "asked"})
                           /\ t[fd[n]] = "asked" => fd[n].kind = "client" /\ packet[n] = <<Ok>>
    /\ pc[n] = "raw" => Serves(t, n, {"ok", "raw"}) /\ fd[n].kind # "deliver"
    /\ pc[n] = "answer" => Serves(t, n, {"answer"})
    /\ pc[n] = "hand_over" => Serves(t, n, {"hand_over"})
    /\ pc[n] = "collect_packet" => Serves(t, n, {"hello", "said", "open"})
    /\ pc[n] = "collect_raw" => Serves(t, n, {"ok", "raw"}) /\ fd[n].kind = "deliver"
    /\ pc[n] \in Collecting =>
         /\ ms[n].from \in Conns /\ ms[n].from.kind = "client" /\ ms[n].from.to = n
         /\ t[ms[n].from] = "collect"
         /\ pc[n] # "collect" => ms[n].found < ms[n].count
    /\ pc[n] = "call" => call[n].conn \in Conns /\ call[n].conn.from = n /\ Dialling(s, t, call[n].conn)
    /\ pc[n] \in {"ask", "fanout"} => n = Index

Machine == [file : Nat, count : Nat, found : Nat, to : Node \cup {Nowhere},
            from : Conns \cup {NoConn}, buffer : Seq(Part)]
Pointer == [fragment : Nat, size : Nat, node_id : Nat]

Working(p) == pc[Index] = p \/ (pc[Index] = "call" /\ call[Index].ret = p)

\* The index asks for the fragments of a read, or hands out those of a new file.
Inquiry(s, t) ==
    LET c == fd[Index].c
        f == s.want[c]
    IN Working("ask") =>
         /\ Serves(t, Index, {"asking"}) /\ fd[Index] = Job(s, c)
         /\ ms[Index].file = s.file[c] /\ ms[Index].to = Reader(s, c)
         /\ Len(todo) <= Parts[f]
         /\ \A j \in 1 .. Len(todo) : todo[j] = Chosen[f][Parts[f] - Len(todo) + j]
         /\ \A i \in Parts[f] - Len(todo) + 1 .. Parts[f] :
              t[AskOf(c, i)] = "none" /\ t[DeliverOf(s, c, i)] = "none"
Handout(s, t) ==
    LET c == fd[Index].c
        f == s.want[c]
    IN Working("fanout") =>
         /\ Serves(t, Index, {"fanout"}) /\ fd[Index] = Job(s, c)
         /\ ms[Index].file = s.file[c] /\ ms[Index].buffer = Contents(s, c)
         /\ Len(todo) <= Copies(f)
         /\ \A j \in 1 .. Len(todo) : todo[j] = Table[f][Copies(f) - Len(todo) + j]
         /\ pc[Index] = "call" => call[Index].conn.c = c
         /\ \A j \in 1 .. Copies(f) :
              Copy(f, j).node_id # Index => (t[StoreOf(s, c, j)] = "none" <=> j <= Len(todo))

-----------------------------------------------------------------------------
(* Files *)

Left(s, t, c) == IF t[Job(s, c)] = "stored" THEN 0 ELSE Len(todo)
Placed(s, t, id, j) ==
    \/ id = 1
    \/ id # 1 /\ Copy(files[id], j).node_id = Index /\ j > Left(s, t, s.owner[id])
    \/ id # 1 /\ Copy(files[id], j).node_id # Index /\ t[StoreOf(s, s.owner[id], j)] = "over"
Entry(s, id, j) ==
    LET i == Copy(files[id], j).fragment IN [id |-> i, bytes |-> <<<<s.owner[id], i>>>>]
On(s, t, m, id) == {j \in 1 .. Copies(files[id]) : Copy(files[id], j).node_id = m /\ Placed(s, t, id, j)}
Slots(s, t, m, id) ==
    LET on == On(s, t, m, id) IN
    \/ on = {} /\ fs[m][id] = <<>>
    \/ \E j \in on : on = {j} /\ fs[m][id] = <<Entry(s, id, j)>>
    \/ \E j, l \in on : j # l /\ on = {j, l} /\ fs[m][id] = <<Entry(s, id, j), Entry(s, id, l)>>

Numbering(s, t) ==
    /\ files \in Seq(Name) /\ Len(files) >= 1
    /\ s.owner[1] = 0 /\ files[1] = Known
    /\ \A id \in 2 .. Len(files) :
         LET c == s.owner[id] IN
         c \in Client /\ client[c] # "off" /\ Numbered(s, t, c) /\ s.file[c] = id
    /\ \A c \in Client : client[c] # "off" /\ Numbered(s, t, c) =>
         /\ client[c] = "sent" /\ s.file[c] \in 2 .. Len(files)
         /\ s.owner[s.file[c]] = c /\ files[s.file[c]] = s.want[c]

Shelves(s, t) ==
    \A m \in Node, id \in FileId : IF id \in DOMAIN files THEN Slots(s, t, m, id) ELSE fs[m][id] = <<>>

Queues(t) ==
    \A n \in Node :
      /\ backlog[n] \in Seq(Conns)
      /\ \A x \in DOMAIN backlog[n] : backlog[n][x].to = n /\ t[backlog[n][x]] = "queued"
      /\ \A x, y \in DOMAIN backlog[n] : backlog[n][x] = backlog[n][y] => x = y

Typed ==
    /\ DOMAIN pc = Node /\ DOMAIN fd = Node /\ DOMAIN client_fd = Node /\ DOMAIN packet = Node
    /\ DOMAIN call = Node /\ DOMAIN backlog = Node /\ ms \in [Node -> Machine]
    /\ DOMAIN fs = Node /\ \A n \in Node : DOMAIN fs[n] = FileId
    /\ DOMAIN client = Client /\ DOMAIN at = Client /\ DOMAIN got = Client
    /\ todo \in Seq(Pointer) /\ complete \subseteq Client /\ overlap \subseteq Client
    /\ merged \in BOOLEAN /\ strayed \in BOOLEAN
    /\ \A n \in Node : ms[n].found <= ms[n].count

Links(s, t) ==
    \A k \in Conns : t[k] # "none" => client[k.c] # "off" /\ Link(s, t, k) /\ Bound(s, t, k)

\* The state is the one to which the story s has led, with the connections in stages t.
Explains(s, t) ==
    /\ Typed /\ DOMAIN wire = {k \in Conns : t[k] # "none"}
    /\ Links(s, t) /\ Queues(t)
    /\ \A n \in Node : Thread(s, t, n)
    /\ \A c \in Client : Request(s, t, c)
    /\ Inquiry(s, t) /\ Handout(s, t) /\ Numbering(s, t) /\ Shelves(s, t)

-----------------------------------------------------------------------------
(* Constants, connections and packets *)

LEMMA ParameterFacts ==
    /\ N \in Nat /\ N >= 2 /\ Index = N /\ Node = 1 .. N /\ Index \in Node
    /\ Nowhere = 0 /\ Nowhere \notin Node
    /\ \A n \in Node : n \in Nat /\ n > 0 /\ n <= N
    /\ \A f \in Name : Size[f] \in Nat
    /\ \A c \in Client : c \in Nat /\ c # 0
    /\ IsFiniteSet(Client) /\ Known \in Name
  BY RequestConstants DEF Index, Node, Nowhere, Name

LEMMA PartsFacts ==
    ASSUME NEW f \in Name
    PROVE  /\ Parts[f] \in {1, N} /\ Parts[f] \in Nat /\ Parts[f] >= 1 /\ Parts[f] <= N
           /\ Copies(f) = 2 * Parts[f] /\ Copies(f) \in Nat /\ Copies(f) >= 2
           /\ \A i \in 1 .. Parts[f] : i \in Node /\ i \in Nat
  <1>1. Parts[f] = FragCount(Size[f], N)
    BY DEF Parts
  <1>2. Parts[f] \in {1, N}
    BY <1>1 DEF FragCount
  <1>3. Parts[f] \in Nat /\ Parts[f] >= 1 /\ Parts[f] <= N
    BY <1>2, ParameterFacts
  <1> QED BY <1>2, <1>3, ParameterFacts DEF Copies, REDUNDANCY

LEMMA ConnFacts ==
    ASSUME NEW kind, NEW c, NEW i, NEW from, NEW to
    PROVE  LET k == Conn(kind, c, i, from, to) IN
           /\ k.kind = kind /\ k.c = c /\ k.i = i /\ k.from = from /\ k.to = to
           /\ kind \in Kinds /\ c \in Client /\ i \in Nat /\ from \in Node \cup {Nowhere} /\ to \in Node
                => k \in Conns
  BY DEF Conn, Conns

LEMMA ConnType ==
    ASSUME NEW k \in Conns
    PROVE  /\ k.kind \in Kinds /\ k.c \in Client /\ k.i \in Nat
           /\ k.from \in Node \cup {Nowhere} /\ k.to \in Node
           /\ k = Conn(k.kind, k.c, k.i, k.from, k.to)
           /\ k # NoConn
  <1>1. /\ k.kind \in Kinds /\ k.c \in Client /\ k.i \in Nat
        /\ k.from \in Node \cup {Nowhere} /\ k.to \in Node
        /\ k = Conn(k.kind, k.c, k.i, k.from, k.to)
    BY DEF Conns, Conn
  <1>2. NoConn.kind = "none"
    BY ConnFacts DEF NoConn
  <1> QED BY <1>1, <1>2 DEF Kinds

LEMMA StoryType ==
    ASSUME NEW s \in Stories, NEW c \in Client
    PROVE  /\ s.want[c] \in Name /\ s.home[c] \in Node /\ s.op[c] \in {"read", "write"}
           /\ s.file[c] \in Nat /\ \A id \in Nat : s.owner[id] \in Client \cup {0}
  BY DEF Stories

\* The connections of a client have the kinds and the ends that their names say.
LEMMA ConnsOf ==
    ASSUME NEW s \in Stories, NEW c \in Client
    PROVE  /\ LineOf(s, c) \in Conns /\ RelayOf(s, c) \in Conns /\ Job(s, c) \in Conns
           /\ \A i \in Node : AskOf(c, i) \in Conns /\ DeliverOf(s, c, i) \in Conns
           /\ LineOf(s, c).kind = "client" /\ LineOf(s, c).c = c /\ LineOf(s, c).to = s.home[c]
           /\ LineOf(s, c).from = Nowhere /\ LineOf(s, c).i = 0
           /\ RelayOf(s, c).kind = "relay" /\ RelayOf(s, c).c = c /\ RelayOf(s, c).to = Index
           /\ RelayOf(s, c).from = s.home[c] /\ RelayOf(s, c).i = 0
           /\ \A i : /\ AskOf(c, i).kind = "ask" /\ AskOf(c, i).c = c /\ AskOf(c, i).i = i
                     /\ AskOf(c, i).from = Index /\ AskOf(c, i).to = i
                     /\ DeliverOf(s, c, i).kind = "deliver" /\ DeliverOf(s, c, i).c = c
                     /\ DeliverOf(s, c, i).i = i /\ DeliverOf(s, c, i).to = s.home[c]
                     /\ DeliverOf(s, c, i).from = (IF i = s.home[c] THEN Index ELSE i)
           /\ Job(s, c).c = c /\ Job(s, c).to = Index /\ Job(s, c).kind \in {"client", "relay"}
  <1>1. s.home[c] \in Node /\ Index \in Node /\ \A i \in Node : i \in Nat
    BY StoryType, ParameterFacts
  <1>2. LineOf(s, c) \in Conns /\ RelayOf(s, c) \in Conns
    BY <1>1, ConnFacts DEF LineOf, RelayOf, Kinds
  <1>3. \A i \in Node : AskOf(c, i) \in Conns /\ DeliverOf(s, c, i) \in Conns
    BY <1>1, ConnFacts DEF AskOf, DeliverOf, Kinds
  <1>4. /\ LineOf(s, c).kind = "client" /\ LineOf(s, c).c = c /\ LineOf(s, c).to = s.home[c]
        /\ LineOf(s, c).from = Nowhere /\ LineOf(s, c).i = 0
        /\ RelayOf(s, c).kind = "relay" /\ RelayOf(s, c).c = c /\ RelayOf(s, c).to = Index
        /\ RelayOf(s, c).from = s.home[c] /\ RelayOf(s, c).i = 0
    BY ConnFacts DEF LineOf, RelayOf
  <1>5. \A i : /\ AskOf(c, i).kind = "ask" /\ AskOf(c, i).c = c /\ AskOf(c, i).i = i
               /\ AskOf(c, i).from = Index /\ AskOf(c, i).to = i
               /\ DeliverOf(s, c, i).kind = "deliver" /\ DeliverOf(s, c, i).c = c
               /\ DeliverOf(s, c, i).i = i /\ DeliverOf(s, c, i).to = s.home[c]
               /\ DeliverOf(s, c, i).from = (IF i = s.home[c] THEN Index ELSE i)
    BY ConnFacts DEF AskOf, DeliverOf
  <1> QED BY <1>2, <1>3, <1>4, <1>5 DEF Job

LEMMA PacketFacts ==
    /\ Present.type = "PRESENT" /\ Ok.type = "OK" /\ NotOk.type = "NOT_OK"
    /\ \A b : Raw(b).type = "RAW" /\ Raw(b).bytes = b
    /\ \A f : CreateFile(f).type = "CREATE_FILE" /\ CreateFile(f).name = f
    /\ \A f, n : /\ RequestFile(f, n).type = "REQUEST_FILE" /\ RequestFile(f, n).name = f
                 /\ RequestFile(f, n).to = n
                 /\ \A m : [RequestFile(f, n) EXCEPT !.to = m] = RequestFile(f, m)
    /\ \A id, x : /\ Response(id, x).type = "RESPONSE" /\ Response(id, x).file = id
                  /\ Response(id, x).frag = x
                  /\ StoreFragment(id, x).type = "STORE_FRAGMENT" /\ StoreFragment(id, x).file = id
                  /\ StoreFragment(id, x).frag = x
                  /\ DeclareFrag(id, x).type = "DECLARE_FRAG" /\ DeclareFrag(id, x).file = id
                  /\ DeclareFrag(id, x).frag = x
                  /\ \A n : /\ RequestFrag(id, x, n).type = "REQUEST_FRAG"
                            /\ RequestFrag(id, x, n).file = id
                            /\ RequestFrag(id, x, n).frag = x /\ RequestFrag(id, x, n).to = n
    /\ \A i : UseLocal(i).type = "USE_LOCAL" /\ UseLocal(i).frag = i
  <1>1. /\ Present.type = "PRESENT" /\ Ok.type = "OK" /\ NotOk.type = "NOT_OK"
        /\ \A b : Raw(b).type = "RAW" /\ Raw(b).bytes = b
        /\ \A f : CreateFile(f).type = "CREATE_FILE" /\ CreateFile(f).name = f
        /\ \A i : UseLocal(i).type = "USE_LOCAL" /\ UseLocal(i).frag = i
    BY DEF Present, Ok, NotOk, Raw, CreateFile, UseLocal, Plain
  <1>2. ASSUME NEW f, NEW n
        PROVE  /\ RequestFile(f, n).type = "REQUEST_FILE" /\ RequestFile(f, n).name = f
               /\ RequestFile(f, n).to = n
               /\ \A m : [RequestFile(f, n) EXCEPT !.to = m] = RequestFile(f, m)
    <2>1. RequestFile(f, n).type = "REQUEST_FILE" /\ RequestFile(f, n).name = f /\ RequestFile(f, n).to = n
      BY DEF RequestFile, Plain
    <2>2. ASSUME NEW m
          PROVE  [RequestFile(f, n) EXCEPT !.to = m] = RequestFile(f, m)
      <3> DEFINE q == [Plain("REQUEST_FILE") EXCEPT !.name = f]
      <3>1. \A x : RequestFile(f, x) = [q EXCEPT !.to = x]
        BY DEF RequestFile
      <3> HIDE DEF q
      <3>2. [[q EXCEPT !.to = n] EXCEPT !.to = m] = [q EXCEPT !.to = m]
        OBVIOUS
      <3> QED BY <3>1, <3>2
    <2> QED BY <2>1, <2>2
  <1>3. ASSUME NEW id, NEW x
        PROVE  /\ Response(id, x).type = "RESPONSE" /\ Response(id, x).file = id
               /\ Response(id, x).frag = x
               /\ StoreFragment(id, x).type = "STORE_FRAGMENT" /\ StoreFragment(id, x).file = id
               /\ StoreFragment(id, x).frag = x
               /\ DeclareFrag(id, x).type = "DECLARE_FRAG" /\ DeclareFrag(id, x).file = id
               /\ DeclareFrag(id, x).frag = x
               /\ \A n : /\ RequestFrag(id, x, n).type = "REQUEST_FRAG"
                         /\ RequestFrag(id, x, n).file = id
                         /\ RequestFrag(id, x, n).frag = x /\ RequestFrag(id, x, n).to = n
    BY DEF Response, StoreFragment, DeclareFrag, RequestFrag, Plain
  <1> QED BY <1>1, <1>2, <1>3

-----------------------------------------------------------------------------
(* Packets read and sent *)

\* What is left of a short queue when j packets are read, and what has been read.
LEMMA Lengths ==
    ASSUME NEW a, NEW b, NEW d
    PROVE  Len(<<>>) = 0 /\ Len(<<a>>) = 1 /\ Len(<<a, b>>) = 2 /\ Len(<<a, b, d>>) = 3
  OBVIOUS

\* A queue of at most three packets is given by its packets.
LEMMA ShortSeqs ==
    ASSUME NEW S, NEW q \in Seq(S)
    PROVE  /\ Len(q) = 0 => q = <<>>
           /\ Len(q) = 1 => q = <<q[1]>>
           /\ Len(q) = 2 => q = <<q[1], q[2]>>
           /\ Len(q) = 3 => q = <<q[1], q[2], q[3]>>
  <1>1. Len(q) = 0 => q = <<>>
    OBVIOUS
  <1>2. ASSUME Len(q) = 1 PROVE q = <<q[1]>>
    BY <1>2, SeqEqual
  <1>3. ASSUME Len(q) = 2 PROVE q = <<q[1], q[2]>>
    BY <1>3, SeqEqual
  <1>4. ASSUME Len(q) = 3 PROVE q = <<q[1], q[2], q[3]>>
    BY <1>4, SeqEqual
  <1> QED BY <1>1, <1>2, <1>3, <1>4

LEMMA Reading1 ==
    ASSUME NEW a
    PROVE  /\ SubSeq(<<a>>, 1, 1) = <<a>> /\ SubSeq(<<a>>, 2, 1) = <<>>
           /\ Head(<<a>>) = a /\ Tail(<<a>>) = <<>>
  <1>1. <<a>> \in Seq({a}) /\ Len(<<a>>) = 1
    OBVIOUS
  <1>2. SubSeq(<<a>>, 1, 1) = <<a>>
    BY <1>1, SubSeqFull
  <1>3. SubSeq(<<a>>, 2, 1) = <<>>
    BY SubSeqEmpty
  <1> QED BY <1>2, <1>3

LEMMA Reading2 ==
    ASSUME NEW a, NEW b
    PROVE  /\ SubSeq(<<a, b>>, 1, 1) = <<a>> /\ SubSeq(<<a, b>>, 2, 2) = <<b>>
           /\ SubSeq(<<a, b>>, 1, 2) = <<a, b>> /\ SubSeq(<<a, b>>, 3, 2) = <<>>
           /\ Head(<<a, b>>) = a /\ Tail(<<a, b>>) = <<b>>
  <1> DEFINE q == <<a, b>>
             S == {a, b}
  <1>1. q \in Seq(S) /\ Len(q) = 2 /\ q[1] = a /\ q[2] = b
    OBVIOUS
  <1> HIDE DEF q, S
  <1>2. /\ SubSeq(q, 1, 1) \in Seq(S) /\ Len(SubSeq(q, 1, 1)) = 1 /\ SubSeq(q, 1, 1)[1] = a
        /\ SubSeq(q, 2, 2) \in Seq(S) /\ Len(SubSeq(q, 2, 2)) = 1 /\ SubSeq(q, 2, 2)[1] = b
    BY <1>1
  <1>3. SubSeq(q, 1, 1) = <<a>> /\ SubSeq(q, 2, 2) = <<b>>
    BY <1>2, ShortSeqs
  <1>4. SubSeq(q, 1, 2) = q
    BY <1>1, SubSeqFull
  <1>5. SubSeq(q, 3, 2) = <<>>
    BY SubSeqEmpty
  <1>6. Head(q) = a /\ Tail(q) \in Seq(S) /\ Len(Tail(q)) = 1 /\ Tail(q)[1] = b
    BY <1>1
  <1>7. Tail(q) = <<b>>
    BY <1>6, ShortSeqs
  <1> QED BY <1>3, <1>4, <1>5, <1>6, <1>7 DEF q

LEMMA Reading3 ==
    ASSUME NEW a, NEW b, NEW d
    PROVE  /\ SubSeq(<<a, b, d>>, 2, 3) = <<b, d>> /\ SubSeq(<<a, b, d>>, 3, 3) = <<d>>
           /\ SubSeq(<<a, b, d>>, 4, 3) = <<>>
  <1> DEFINE q == <<a, b, d>>
             S == {a, b, d}
  <1>1. q \in Seq(S) /\ Len(q) = 3 /\ q[1] = a /\ q[2] = b /\ q[3] = d
    OBVIOUS
  <1> HIDE DEF q, S
  <1>2. /\ SubSeq(q, 3, 3) \in Seq(S) /\ Len(SubSeq(q, 3, 3)) = 1 /\ SubSeq(q, 3, 3)[1] = d
        /\ SubSeq(q, 2, 3) \in Seq(S) /\ Len(SubSeq(q, 2, 3)) = 2
        /\ SubSeq(q, 2, 3)[1] = b /\ SubSeq(q, 2, 3)[2] = d
    <2>1. \A i \in 2 .. 3 : q[i] \in S
      <3>1. \A i \in 1 .. Len(q) : q[i] \in S
        BY <1>1, ElementOfSeq
      <3> QED BY <1>1, <3>1
    <2>2. /\ SubSeq(q, 2, 3) \in Seq(S) /\ Len(SubSeq(q, 2, 3)) = 2
          /\ \A i \in 1 .. 2 : SubSeq(q, 2, 3)[i] = q[2 + i - 1]
      BY <2>1, SubSeqProperties
    <2>3. SubSeq(q, 2, 3)[1] = b /\ SubSeq(q, 2, 3)[2] = d
      BY <1>1, <2>2
    <2>4. /\ SubSeq(q, 3, 3) \in Seq(S) /\ Len(SubSeq(q, 3, 3)) = 1
          /\ \A i \in 1 .. 1 : SubSeq(q, 3, 3)[i] = q[3 + i - 1]
      BY <2>1, SubSeqProperties
    <2> QED BY <1>1, <2>2, <2>3, <2>4
  <1>3. SubSeq(q, 3, 3) = <<d>> /\ SubSeq(q, 2, 3) = <<b, d>>
    BY <1>2, ShortSeqs
  <1>4. SubSeq(q, 4, 3) = <<>>
    BY SubSeqEmpty
  <1> QED BY <1>3, <1>4 DEF q

\* One recv of j packets takes a from the queue q and leaves b.
Takes(q, j, a, b) == SubSeq(q, 1, j) = a /\ SubSeq(q, j + 1, Len(q)) = b

\* What a recv that takes j packets off a queue of one, two or three has read, and left.
LEMMA TakesOne ==
    ASSUME NEW q, NEW a, q = <<a>>, NEW j \in 1 .. Len(q)
    PROVE  j = 1 /\ Takes(q, j, <<a>>, <<>>) /\ q[1] = a
  <1>1. Len(q) = 1
    BY Lengths
  <1>2. j = 1 /\ q[1] = a
    BY <1>1
  <1> QED BY <1>1, <1>2, Reading1 DEF Takes

LEMMA TakesTwo ==
    ASSUME NEW q, NEW a, NEW b, q = <<a, b>>, NEW j \in 1 .. Len(q)
    PROVE  /\ \/ j = 1 /\ Takes(q, j, <<a>>, <<b>>)
              \/ j = 2 /\ Takes(q, j, <<a, b>>, <<>>)
           /\ q[1] = a
  <1>1. Len(q) = 2
    BY Lengths
  <1>2. (j = 1 \/ j = 2) /\ q[1] = a
    BY <1>1
  <1>3. ASSUME j = 1 PROVE Takes(q, j, <<a>>, <<b>>)
    <2>1. j + 1 = 2
      BY <1>3
    <2>2. SubSeq(<<a, b>>, 1, 1) = <<a>> /\ SubSeq(<<a, b>>, 2, 2) = <<b>>
      BY Reading2
    <2>3. SubSeq(q, 1, j) = <<a>> /\ SubSeq(q, j + 1, Len(q)) = <<b>>
      BY <1>1, <1>3, <2>1, <2>2, Zenon
    <2> QED BY <2>3 DEF Takes
  <1>4. ASSUME j = 2 PROVE Takes(q, j, <<a, b>>, <<>>)
    <2>1. j + 1 = 3
      BY <1>4
    <2>2. SubSeq(<<a, b>>, 1, 2) = <<a, b>> /\ SubSeq(<<a, b>>, 3, 2) = <<>>
      BY Reading2
    <2>3. SubSeq(q, 1, j) = <<a, b>> /\ SubSeq(q, j + 1, Len(q)) = <<>>
      BY <1>1, <1>4, <2>1, <2>2, Zenon
    <2> QED BY <2>3 DEF Takes
  <1> QED BY <1>2, <1>3, <1>4

LEMMA TakesNone ==
    ASSUME NEW q, q = <<>>, NEW j \in 1 .. Len(q)
    PROVE  FALSE
  <1>1. Len(q) = 0
    OBVIOUS
  <1> QED BY <1>1

\* Packets sent behind what is on the way.
LEMMA Sending ==
    ASSUME NEW a, NEW b, NEW d
    PROVE  /\ <<>> \o <<a>> = <<a>> /\ <<a>> \o <<b>> = <<a, b>> /\ <<a>> \o <<>> = <<a>>
           /\ <<>> \o <<a, b>> = <<a, b>> /\ <<a>> \o <<b, d>> = <<a, b, d>>
           /\ <<a, b>> \o <<d>> = <<a, b, d>>
  <1> DEFINE S == {a, b, d}
             q1 == <<a>>
             q2 == <<a, b>>
             r1 == <<b>>
             r2 == <<b, d>>
             e  == <<d>>
  <1>1. /\ q1 \in Seq(S) /\ Len(q1) = 1 /\ q1[1] = a
        /\ r1 \in Seq(S) /\ Len(r1) = 1 /\ r1[1] = b
        /\ e  \in Seq(S) /\ Len(e) = 1 /\ e[1] = d
    OBVIOUS
  <1>2. /\ q2 \in Seq(S) /\ Len(q2) = 2 /\ q2[1] = a /\ q2[2] = b
        /\ r2 \in Seq(S) /\ Len(r2) = 2 /\ r2[1] = b /\ r2[2] = d
    OBVIOUS
  <1> HIDE DEF S, q1, q2, r1, r2, e
  <1>3. <<>> \o q1 = q1 /\ q1 \o <<>> = q1 /\ <<>> \o q2 = q2
    BY <1>1, <1>2, ConcatEmptySeq
  <1>4. /\ q1 \o r1 \in Seq(S) /\ Len(q1 \o r1) = 2 /\ (q1 \o r1)[1] = a /\ (q1 \o r1)[2] = b
    BY <1>1, ConcatProperties
  <1>5. /\ q1 \o r2 \in Seq(S) /\ Len(q1 \o r2) = 3
        /\ (q1 \o r2)[1] = a /\ (q1 \o r2)[2] = b /\ (q1 \o r2)[3] = d
    <2>1. /\ q1 \o r2 \in Seq(S) /\ Len(q1 \o r2) = 3
          /\ \A i \in 1 .. 3 : (q1 \o r2)[i] = IF i <= 1 THEN q1[i] ELSE r2[i - 1]
      <3>1. /\ q1 \o r2 \in Seq(S) /\ Len(q1 \o r2) = Len(q1) + Len(r2)
            /\ \A i \in 1 .. Len(q1) + Len(r2) :
                 (q1 \o r2)[i] = IF i <= Len(q1) THEN q1[i] ELSE r2[i - Len(q1)]
        BY <1>1, <1>2, ConcatProperties, Zenon
      <3> QED BY <1>1, <1>2, <3>1
    <2>2. (q1 \o r2)[1] = q1[1]
      BY <2>1
    <2>3. (q1 \o r2)[2] = r2[1]
      BY <2>1
    <2>4. (q1 \o r2)[3] = r2[2]
      BY <2>1
    <2> QED BY <1>1, <1>2, <2>1, <2>2, <2>3, <2>4
  <1>6. /\ q2 \o e \in Seq(S) /\ Len(q2 \o e) = 3
        /\ (q2 \o e)[1] = a /\ (q2 \o e)[2] = b /\ (q2 \o e)[3] = d
    <2>1. /\ q2 \o e \in Seq(S) /\ Len(q2 \o e) = 3
          /\ \A i \in 1 .. 3 : (q2 \o e)[i] = IF i <= 2 THEN q2[i] ELSE e[i - 2]
      <3>1. /\ q2 \o e \in Seq(S) /\ Len(q2 \o e) = Len(q2) + Len(e)
            /\ \A i \in 1 .. Len(q2) + Len(e) :
                 (q2 \o e)[i] = IF i <= Len(q2) THEN q2[i] ELSE e[i - Len(q2)]
        BY <1>1, <1>2, ConcatProperties, Zenon
      <3> QED BY <1>1, <1>2, <3>1
    <2>2. (q2 \o e)[1] = q2[1]
      BY <2>1
    <2>3. (q2 \o e)[2] = q2[2]
      BY <2>1
    <2>4. (q2 \o e)[3] = e[1]
      BY <2>1
    <2> QED BY <1>1, <1>2, <2>1, <2>2, <2>3, <2>4
  <1>7. q1 \o r1 = <<a, b>> /\ q1 \o r2 = <<a, b, d>> /\ q2 \o e = <<a, b, d>>
    BY <1>4, <1>5, <1>6, ShortSeqs
  <1> QED BY <1>3, <1>7 DEF q1, q2, r1, r2, e

SameBut(f, g, x) == DOMAIN g = DOMAIN f /\ \A y \in DOMAIN f \ {x} : g[y] = f[y]

\* Of connection k only one direction changes.
Flows(w, w2, k, u, d) ==
    /\ SameBut(w, w2, k) /\ DOMAIN w2[k] = {"up", "down"} /\ w2[k].up = u /\ w2[k].down = d

\* What a step of one end of a connection, n, changes: at the far end, and at the caller's.
LEMMA ServerReads ==
    ASSUME NEW w, NEW w2, NEW k \in DOMAIN w, DOMAIN w[k] = {"up", "down"}, NEW n, n = k.to, NEW j,
           w2 = Read(w, k, n, j)
    PROVE  Flows(w, w2, k, SubSeq(w[k].up, j + 1, Len(w[k].up)), w[k].down)
  BY DEF Read, In, SameBut, Flows

LEMMA ServerSends ==
    ASSUME NEW w, NEW w2, NEW k \in DOMAIN w, DOMAIN w[k] = {"up", "down"}, NEW n, n = k.to, NEW pkts,
           w2 = Sent(w, k, n, pkts)
    PROVE  Flows(w, w2, k, w[k].up, w[k].down \o pkts)
  BY DEF Sent, Out, SameBut, Flows

LEMMA CallerReads ==
    ASSUME NEW w, NEW w2, NEW k \in DOMAIN w, DOMAIN w[k] = {"up", "down"}, NEW n, n # k.to, NEW j,
           w2 = Read(w, k, n, j)
    PROVE  Flows(w, w2, k, w[k].up, SubSeq(w[k].down, j + 1, Len(w[k].down)))
  BY DEF Read, In, SameBut, Flows

LEMMA CallerSends ==
    ASSUME NEW w, NEW w2, NEW k \in DOMAIN w, DOMAIN w[k] = {"up", "down"}, NEW n, n # k.to, NEW pkts,
           w2 = Sent(w, k, n, pkts)
    PROVE  Flows(w, w2, k, w[k].up \o pkts, w[k].down)
  BY DEF Sent, Out, SameBut, Flows

LEMMA FlowsTwice ==
    ASSUME NEW w, NEW w1, NEW w2, NEW k \in DOMAIN w, NEW u1, NEW d1, NEW u2, NEW d2,
           Flows(w, w1, k, u1, d1), Flows(w1, w2, k, u2, d2)
    PROVE  Flows(w, w2, k, u2, d2)
  BY DEF Flows, SameBut

\* Reading and then sending on the same connection.
LEMMA ServerReplies ==
    ASSUME NEW w, NEW w2, NEW k \in DOMAIN w, DOMAIN w[k] = {"up", "down"}, NEW n, n = k.to, NEW j,
           NEW pkts, w2 = Sent(Read(w, k, n, j), k, n, pkts)
    PROVE  Flows(w, w2, k, SubSeq(w[k].up, j + 1, Len(w[k].up)), w[k].down \o pkts)
  <1> DEFINE w1 == Read(w, k, n, j)
  <1>1. Flows(w, w1, k, SubSeq(w[k].up, j + 1, Len(w[k].up)), w[k].down)
    BY ServerReads
  <1>2. w2 = Sent(w1, k, n, pkts)
    OBVIOUS
  <1> HIDE DEF w1
  <1>3. /\ k \in DOMAIN w1 /\ DOMAIN w1[k] = {"up", "down"}
        /\ w1[k].up = SubSeq(w[k].up, j + 1, Len(w[k].up)) /\ w1[k].down = w[k].down
    BY <1>1 DEF Flows, SameBut
  <1>4. Flows(w1, w2, k, w1[k].up, w1[k].down \o pkts)
    BY <1>2, <1>3, ServerSends
  <1> QED BY <1>1, <1>3, <1>4, FlowsTwice

\* Reading, when the recv ends within a packet, and then sending.
LEMMA ServerCuts ==
    ASSUME NEW w, NEW w2, NEW k \in DOMAIN w, DOMAIN w[k] = {"up", "down"}, NEW n, n = k.to, NEW j,
           NEW pkts, w2 = Sent(CutAt(w, k, n, j), k, n, pkts)
    PROVE  LET r == SubSeq(w[k].up, j + 1, Len(w[k].up)) IN
           \/ Flows(w, w2, k, r, w[k].down \o pkts)
           \/ /\ r[1].type = "CREATE_FILE"
              /\ Flows(w, w2, k, [r EXCEPT ![1] = Remnant], w[k].down \o pkts)
  <1> DEFINE w1 == Read(w, k, n, j)
             r  == SubSeq(w[k].up, j + 1, Len(w[k].up))
             v  == CutAt(w, k, n, j)
  <1>1. Flows(w, w1, k, r, w[k].down)
    BY ServerReads
  <1>2. v = IF w1[k][In(k, n)][1].type = "CREATE_FILE" THEN [w1 EXCEPT ![k][In(k, n)][1] = Remnant] ELSE w1
    BY DEF CutAt
  <1>3. w2 = Sent(v, k, n, pkts) /\ In(k, n) = "up"
    BY DEF In
  <1> HIDE DEF w1, r, v
  <1>4. k \in DOMAIN w1 /\ DOMAIN w1[k] = {"up", "down"} /\ w1[k].up = r /\ w1[k].down = w[k].down
    BY <1>1 DEF Flows, SameBut
  <1>5. CASE r[1].type # "CREATE_FILE"
    <2>1. v = w1
      BY <1>2, <1>3, <1>4, <1>5
    <2>2. Flows(w1, w2, k, r, w[k].down \o pkts)
      BY <1>3, <1>4, <2>1, ServerSends
    <2> QED BY <1>1, <2>2, FlowsTwice DEF r
  <1>6. CASE r[1].type = "CREATE_FILE"
    <2> DEFINE x == [r EXCEPT ![1] = Remnant]
    <2>1. v = [w1 EXCEPT ![k]["up"][1] = Remnant]
      BY <1>2, <1>3, <1>4, <1>6
    <2>2. v[k].up = x /\ v[k].down = w[k].down /\ DOMAIN v[k] = {"up", "down"} /\ k \in DOMAIN v
          /\ SameBut(w1, v, k)
      BY <1>4, <2>1 DEF SameBut
    <2> HIDE DEF x
    <2>3. Flows(w1, v, k, x, w[k].down)
      BY <1>4, <2>2 DEF Flows
    <2>4. Flows(v, w2, k, x, w[k].down \o pkts)
      BY <1>3, <2>2, ServerSends
    <2>5. Flows(w, w2, k, x, w[k].down \o pkts)
      BY <1>1, <2>3, <2>4, FlowsTwice
    <2> QED BY <1>6, <2>5 DEF r, x
  <1> QED BY <1>5, <1>6

LEMMA CallerReplies ==
    ASSUME NEW w, NEW w2, NEW k \in DOMAIN w, DOMAIN w[k] = {"up", "down"}, NEW n, n # k.to, NEW j,
           NEW pkts, w2 = Sent(Read(w, k, n, j), k, n, pkts)
    PROVE  Flows(w, w2, k, w[k].up \o pkts, SubSeq(w[k].down, j + 1, Len(w[k].down)))
  <1> DEFINE w1 == Read(w, k, n, j)
  <1>1. Flows(w, w1, k, w[k].up, SubSeq(w[k].down, j + 1, Len(w[k].down)))
    BY CallerReads
  <1>2. w2 = Sent(w1, k, n, pkts)
    OBVIOUS
  <1> HIDE DEF w1
  <1>3. /\ k \in DOMAIN w1 /\ DOMAIN w1[k] = {"up", "down"}
        /\ w1[k].down = SubSeq(w[k].down, j + 1, Len(w[k].down)) /\ w1[k].up = w[k].up
    BY <1>1 DEF Flows, SameBut
  <1>4. Flows(w1, w2, k, w1[k].up \o pkts, w1[k].down)
    BY <1>2, <1>3, CallerSends
  <1> QED BY <1>1, <1>3, <1>4, FlowsTwice

Leaves(q, j, b) == SubSeq(q, j + 1, Len(q)) = b

LEMMA TakesThree ==
    ASSUME NEW q, NEW a, NEW b, NEW d, q = <<a, b, d>>, NEW j \in 1 .. Len(q)
    PROVE  \/ j = 1 /\ Leaves(q, j, <<b, d>>)
           \/ j # 1 /\ (Leaves(q, j, <<d>>) \/ Leaves(q, j, <<>>))
  <1>1. Len(q) = 3
    BY Lengths
  <1>2. j = 1 \/ j = 2 \/ j = 3
    BY <1>1
  <1>3. ASSUME j = 1 PROVE SubSeq(q, j + 1, Len(q)) = <<b, d>>
    <2>1. j + 1 = 2
      BY <1>3
    <2>2. SubSeq(<<a, b, d>>, 2, 3) = <<b, d>>
      BY Reading3
    <2> QED BY <1>1, <2>1, <2>2, Zenon
  <1>4. ASSUME j = 2 PROVE SubSeq(q, j + 1, Len(q)) = <<d>>
    <2>1. j + 1 = 3
      BY <1>4
    <2>2. SubSeq(<<a, b, d>>, 3, 3) = <<d>>
      BY Reading3
    <2> QED BY <1>1, <2>1, <2>2, Zenon
  <1>5. ASSUME j = 3 PROVE SubSeq(q, j + 1, Len(q)) = <<>>
    <2>1. j + 1 = 4
      BY <1>5
    <2>2. SubSeq(<<a, b, d>>, 4, 3) = <<>>
      BY Reading3
    <2> QED BY <1>1, <2>1, <2>2, Zenon
  <1> QED BY <1>2, <1>3, <1>4, <1>5 DEF Leaves

Opens(w, w2, k, pkts) ==
    /\ DOMAIN w2 = DOMAIN w \cup {k} /\ \A y \in DOMAIN w \ {k} : w2[y] = w[y]
    /\ w2[k].up = pkts /\ w2[k].down = <<>> /\ DOMAIN w2[k] = {"up", "down"}

\* connect_to_node puts the caller's presentation on a new connection.
LEMMA WireOpened ==
    ASSUME NEW w, NEW w2, NEW k, NEW pkts, w2 = Opened(w, k, pkts)
    PROVE  Opens(w, w2, k, pkts)
  BY DEF Opened, Opens

-----------------------------------------------------------------------------
(* The table of a file when nobody is dead *)

\* The node of a copy of fragment i: the fragment's own node, or the next one.
Home(i, second) == IF ~second THEN i ELSE IF i = N THEN 1 ELSE i + 1

\* What INDEX_HANDLE_NEW_FILE makes of a file when nobody is dead, pointer by pointer.
LEMMA PlaceView ==
    ASSUME NEW f \in Name, NEW k \in 0 .. 2 * Parts[f] - 1
    PROVE  /\ DOMAIN Place(View, Size[f]) = 0 .. 2 * Parts[f] - 1
           /\ Place(View, Size[f])[k] =
                [fragment |-> (k \div 2) + 1, size |-> FragmentSize(Size[f], Parts[f], k \div 2),
                 node_id |-> Home((k \div 2) + 1, k % 2 = 1)]
  <1> DEFINE cnt == Parts[f]
             off == [i \in 0 .. cnt - 1 |-> 0]
             g == InternalOffset(View, cnt)
             i == k \div 2
  <1>1. /\ View.me = N /\ View.peer_ips = 1 .. N - 1 /\ View.known_peers = N - 1
        /\ View.net_size = N /\ View.net_size + View.death_count = N
    BY ParameterFacts DEF View
  <1>2. cnt \in Nat \ {0} /\ cnt <= N /\ N \in Nat /\ N >= 2 /\ N - 1 \in Nat \ {0}
    BY PartsFacts, ParameterFacts
  <1>3. cnt = FragCount(Size[f], View.net_size)
    BY <1>1 DEF Parts
  <1>4. i \in 0 .. cnt - 1 /\ (k % 2 = 0 \/ k % 2 = 1)
    BY <1>2
  <1> HIDE DEF cnt, i
  <1>5. \A x \in 0 .. cnt - 1 : g[x] = 0
    <2>1. \A x \in 0 .. cnt - 1 : off[x] = 0
      OBVIOUS
    <2>2. ASSUME NEW x \in 0 .. cnt - 1 PROVE OffsetStep(View, x, 0) = 0
      <3>1. x \in Nat /\ 0 \in Nat /\ View.known_peers \in Nat \ {0}
        BY <1>1, <1>2
      <3>2. x + 0 >= View.known_peers \/ (x + 0 + 1) \in View.peer_ips
        BY <1>1, <1>2
      <3> QED BY <3>1, <3>2, OffsetStepIs
    <2>3. off \in [0 .. cnt - 1 -> Nat]
      OBVIOUS
    <2>4. \A x \in 0 .. cnt - 1 : off[x] = OffsetStep(View, x, IF x = 0 THEN 0 ELSE off[x - 1])
      <3> SUFFICES ASSUME NEW x \in 0 .. cnt - 1
                   PROVE  off[x] = OffsetStep(View, x, IF x = 0 THEN 0 ELSE off[x - 1])
        OBVIOUS
      <3>1. x # 0 => x - 1 \in 0 .. cnt - 1
        BY <1>2
      <3>2. x # 0 => off[x - 1] = 0
        BY <2>1, <3>1
      <3>3. (IF x = 0 THEN 0 ELSE off[x - 1]) = 0
        BY <3>2
      <3> HIDE DEF off
      <3> QED BY <2>1, <2>2, <3>3
    <2> HIDE DEF off
    <2>5. IsOffsets(View, cnt - 1, off)
      BY <2>3, <2>4 DEF IsOffsets
    <2>6. View.known_peers \in Nat
      BY <1>1, <1>2
    <2> QED BY <1>2, <2>1, <2>5, <2>6, OffsetsAre
  <1>6. CopyNode(View, i, 0) = Home(i + 1, FALSE) /\ CopyNode(View, i, 1) = Home(i + 1, TRUE)
    <2>1. i \in Nat /\ N \in Nat \ {0} /\ 1 \in Nat /\ 0 \in Nat /\ i < N
      BY <1>2, <1>4
    <2>2. TryNode(View, i, 0) = i + 1
      <3>1. i + 0 < N /\ i + 0 + 1 = i + 1
        BY <2>1
      <3>2. i + 0 < N => TryNode(View, i, 0) = i + 0 + 1
        BY <1>1, <2>1, TryAt
      <3> QED BY <3>1, <3>2
    <2>3. /\ i + 1 < N => TryNode(View, i, 1) = i + 1 + 1
          /\ N <= i + 1 /\ i + 1 < N + N => TryNode(View, i, 1) = i + 1 - N + 1
      BY <1>1, <2>1, TryAt
    <2>4. TryNode(View, i, 1) = IF i + 1 = N THEN 1 ELSE i + 2
      BY <2>1, <2>3
    <2>5. ValidNode(View, TryNode(View, i, 0)) /\ ValidNode(View, TryNode(View, i, 1))
      BY <1>1, <1>2, <2>1, <2>2, <2>4 DEF ValidNode
    <2>6. View.known_peers \in Nat /\ 1 \in {1, 2} /\ 1 <= View.known_peers
      BY <1>1, <1>2
    <2>7. /\ CopyNode(View, i, 0) = TryNode(View, i, 0)
          /\ CopyNode(View, i, 1) = TryNode(View, i, 1)
      BY <2>1, <2>5, <2>6, CopiesAt
    <2> QED BY <2>1, <2>2, <2>4, <2>7 DEF Home
  <1>7. i + g[i] = i
    BY <1>4, <1>5
  <1>8. Place(View, Size[f]) =
          [x \in 0 .. cnt * 2 - 1 |->
             LET y == x \div 2
                 n == CopyNode(View, y + g[y], x % 2)
             IN IF n = 0 THEN NullPtr
                ELSE [fragment |-> y + 1, size |-> FragmentSize(Size[f], cnt, y), node_id |-> n]]
    BY <1>3 DEF Place, REDUNDANCY
  <1>9. cnt * 2 - 1 = 2 * cnt - 1 /\ 2 * cnt - 1 = 2 * Parts[f] - 1
    BY <1>2 DEF cnt
  <1> HIDE DEF g
  <1>10. Place(View, Size[f])[k] =
           LET n == CopyNode(View, i + g[i], k % 2)
           IN IF n = 0 THEN NullPtr
              ELSE [fragment |-> i + 1, size |-> FragmentSize(Size[f], cnt, i), node_id |-> n]
    BY <1>8, <1>9, Zenon DEF i
  <1>11. CopyNode(View, i + g[i], k % 2) = Home(i + 1, k % 2 = 1)
    <2>1. CASE k % 2 = 0
      BY <1>6, <1>7, <2>1
    <2>2. CASE k % 2 = 1
      BY <1>6, <1>7, <2>2
    <2> QED BY <1>4, <2>1, <2>2
  <1>12. Home(i + 1, k % 2 = 1) # 0
    BY <1>2, <1>4 DEF Home
  <1> QED BY <1>8, <1>9, <1>10, <1>11, <1>12 DEF i, cnt

\* The table of a file lists each fragment twice, on two nodes; what is asked for is every
\* fragment once, fragment i of node i.
LEMMA TableFacts ==
    ASSUME NEW f \in Name
    PROVE  /\ Table[f] \in Seq(Pointer) /\ Len(Table[f]) = Copies(f)
           /\ \A q \in 1 .. Copies(f) :
                /\ Table[f][q].fragment = ((q - 1) \div 2) + 1
                /\ Table[f][q].node_id = Home(((q - 1) \div 2) + 1, (q - 1) % 2 = 1)
                /\ Table[f][q].node_id \in Node
           /\ Chosen[f] \in Seq(Pointer) /\ Len(Chosen[f]) = Parts[f]
           /\ \A i \in 1 .. Parts[f] : Chosen[f][i].fragment = i /\ Chosen[f][i].node_id = i
  <1> DEFINE cnt == Parts[f]
             P == Place(View, Size[f])
             Ptr(k) == [fragment |-> (k \div 2) + 1, size |-> FragmentSize(Size[f], cnt, k \div 2),
                        node_id |-> Home((k \div 2) + 1, k % 2 = 1)]
  <1>1. /\ cnt \in Nat /\ cnt >= 1 /\ cnt <= N /\ N \in Nat /\ N >= 2 /\ Copies(f) = 2 * cnt
        /\ Node = 1 .. N /\ Size[f] \in Nat
    BY PartsFacts, ParameterFacts
  <1>2. \A k \in 0 .. 2 * cnt - 1 : P[k] = Ptr(k)
    BY PlaceView
  <1>3. ASSUME NEW k \in 0 .. 2 * cnt - 1
        PROVE  /\ P[k] \in Pointer /\ P[k].fragment = (k \div 2) + 1
               /\ P[k].node_id = Home((k \div 2) + 1, k % 2 = 1) /\ P[k].node_id \in Node
    <2> DEFINE i == k \div 2
               h == Home(i + 1, k % 2 = 1)
               z == FragmentSize(Size[f], cnt, i)
    <2>1. i \in 0 .. cnt - 1
      BY <1>1
    <2>2. h \in Node /\ h \in Nat
      BY <1>1, <2>1 DEF Home
    <2>3. z \in Nat
      <3>1. cnt \in Nat \ {0} /\ Size[f] \in Nat
        BY <1>1
      <3> QED BY <2>1, <3>1, FragmentSizeType
    <2>4. P[k] = [fragment |-> i + 1, size |-> z, node_id |-> h]
      BY <1>2
    <2> HIDE DEF i, h, z, P
    <2>5. P[k] \in Pointer /\ P[k].fragment = i + 1 /\ P[k].node_id = h
      BY <2>1, <2>2, <2>3, <2>4 DEF Pointer
    <2> QED BY <2>2, <2>5 DEF i, h
  <1>4. Table[f] = [k \in 1 .. 2 * cnt |-> P[k - 1]]
    BY <1>1 DEF Table, REDUNDANCY
  <1>5. Chosen[f] = [i \in 1 .. cnt |-> P[2 * (i - 1)]]
    <2>1. View.death_count = 0
      BY DEF View
    <2>2. Chosen[f] = [i \in 1 .. cnt |-> Selected(View, cnt, P)[i - 1]]
      BY DEF Chosen
    <2>3. ASSUME NEW i \in 1 .. cnt PROVE Selected(View, cnt, P)[i - 1] = P[2 * (i - 1)]
      <3>1. i - 1 \in 0 .. cnt - 1 /\ (i - 1) * 2 = 2 * (i - 1)
        BY <1>1
      <3> HIDE DEF P
      <3>2. Selected(View, cnt, P)[i - 1] = P[(i - 1) * 2]
        BY <2>1, <3>1 DEF Selected, REDUNDANCY
      <3> QED BY <3>1, <3>2
    <2> QED BY <2>2, <2>3
  <1> HIDE DEF P
  <1>6. ASSUME NEW q \in 1 .. 2 * cnt
        PROVE  /\ Table[f][q] \in Pointer
               /\ Table[f][q].fragment = ((q - 1) \div 2) + 1
               /\ Table[f][q].node_id = Home(((q - 1) \div 2) + 1, (q - 1) % 2 = 1)
               /\ Table[f][q].node_id \in Node
    <2>1. q - 1 \in 0 .. 2 * cnt - 1
      BY <1>1
    <2>2. Table[f][q] = P[q - 1]
      BY <1>4
    <2> QED BY <1>3, <2>1, <2>2
  <1>7. ASSUME NEW i \in 1 .. cnt
        PROVE  Chosen[f][i] \in Pointer /\ Chosen[f][i].fragment = i /\ Chosen[f][i].node_id = i
    <2> DEFINE k == 2 * (i - 1)
    <2>1. k \in 0 .. 2 * cnt - 1 /\ k \div 2 = i - 1 /\ k % 2 = 0 /\ (i - 1) + 1 = i
      BY <1>1
    <2>2. Chosen[f][i] = P[k]
      BY <1>5
    <2> HIDE DEF k
    <2>3. /\ P[k] \in Pointer /\ P[k].fragment = (k \div 2) + 1
          /\ P[k].node_id = Home((k \div 2) + 1, k % 2 = 1)
      BY <1>3, <2>1
    <2> QED BY <2>1, <2>2, <2>3 DEF Home
  <1>8. Table[f] \in [1 .. 2 * cnt -> Pointer] /\ Chosen[f] \in [1 .. cnt -> Pointer]
    BY <1>4, <1>5, <1>6, <1>7
  <1>9. Table[f] \in Seq(Pointer) /\ Len(Table[f]) = 2 * cnt
    <2>1. 2 * cnt \in Nat
      BY <1>1
    <2> HIDE DEF cnt
    <2> QED BY <1>8, <2>1
  <1>10. Chosen[f] \in Seq(Pointer) /\ Len(Chosen[f]) = cnt
    <2> HIDE DEF cnt
    <2> QED BY <1>1, <1>8
  <1> QED BY <1>1, <1>6, <1>7, <1>9, <1>10

\* What an owner of the table may rely on: copy j is of a fragment of the file, on a
\* node; the fragment's own node has one of its copies; no node has three copies.
LEMMA CopyFacts ==
    ASSUME NEW f \in Name
    PROVE  /\ \A j \in 1 .. Copies(f) :
                /\ Copy(f, j).fragment \in 1 .. Parts[f] /\ Copy(f, j).node_id \in Node
                /\ Copy(f, j) = Table[f][Copies(f) + 1 - j]
                /\ Copies(f) + 1 - j \in 1 .. Copies(f)
           /\ \A i \in 1 .. Parts[f] : \E j \in 1 .. Copies(f) :
                Copy(f, j).fragment = i /\ Copy(f, j).node_id = i
           /\ \A a, b, d \in 1 .. Copies(f) :
                /\ Copy(f, a).node_id = Copy(f, b).node_id
                /\ Copy(f, b).node_id = Copy(f, d).node_id
                => a = b \/ b = d \/ a = d
  <1>1. /\ Parts[f] \in Nat /\ Parts[f] >= 1 /\ Parts[f] <= N /\ N \in Nat /\ N >= 2
        /\ Copies(f) = 2 * Parts[f]
    BY PartsFacts, ParameterFacts
  <1>2. \A q \in 1 .. Copies(f) :
          /\ Table[f][q].fragment = ((q - 1) \div 2) + 1
          /\ Table[f][q].node_id = Home(((q - 1) \div 2) + 1, (q - 1) % 2 = 1)
          /\ Table[f][q].node_id \in Node
    BY TableFacts
  <1>3. ASSUME NEW j \in 1 .. Copies(f)
        PROVE  LET q == Copies(f) + 1 - j IN
               /\ q \in 1 .. Copies(f) /\ Copy(f, j) = Table[f][q]
               /\ (q - 1) \div 2 \in 0 .. Parts[f] - 1 /\ (q - 1) % 2 \in {0, 1}
               /\ q - 1 = 2 * ((q - 1) \div 2) + ((q - 1) % 2)
    BY <1>1 DEF Copy
  <1>4. ASSUME NEW j \in 1 .. Copies(f)
        PROVE  /\ Copy(f, j).fragment \in 1 .. Parts[f] /\ Copy(f, j).node_id \in Node
               /\ Copy(f, j) = Table[f][Copies(f) + 1 - j]
               /\ Copies(f) + 1 - j \in 1 .. Copies(f)
    BY <1>1, <1>2, <1>3
  <1>5. ASSUME NEW i \in 1 .. Parts[f]
        PROVE  \E j \in 1 .. Copies(f) : Copy(f, j).fragment = i /\ Copy(f, j).node_id = i
    <2> DEFINE q == 2 * i - 1
               j == Copies(f) + 1 - q
    <2>1. /\ q \in 1 .. Copies(f) /\ j \in 1 .. Copies(f) /\ Copies(f) + 1 - j = q
          /\ (q - 1) \div 2 = i - 1 /\ (q - 1) % 2 = 0 /\ (i - 1) + 1 = i
      BY <1>1
    <2> HIDE DEF q, j
    <2>2. Copy(f, j) = Table[f][q]
      BY <1>3, <2>1
    <2> QED BY <1>2, <2>1, <2>2 DEF Home
  <1>6. ASSUME NEW a \in 1 .. Copies(f), NEW b \in 1 .. Copies(f), NEW d \in 1 .. Copies(f),
               Copy(f, a).node_id = Copy(f, b).node_id, Copy(f, b).node_id = Copy(f, d).node_id
        PROVE  a = b \/ b = d \/ a = d
    <2> DEFINE Q(j) == Copies(f) + 1 - j
               F(j) == (Q(j) - 1) \div 2
               R(j) == (Q(j) - 1) % 2
    <2>1. ASSUME NEW j \in 1 .. Copies(f)
          PROVE  /\ Q(j) - 1 = 2 * F(j) + R(j) /\ R(j) \in {0, 1} /\ F(j) \in 0 .. Parts[f] - 1
                 /\ Copy(f, j).node_id = Home(F(j) + 1, R(j) = 1)
      BY <1>2, <1>3
    <2>2. ASSUME NEW x \in 1 .. Copies(f), NEW y \in 1 .. Copies(f),
                 Copy(f, x).node_id = Copy(f, y).node_id, R(x) = R(y)
          PROVE  x = y
      <3>1. F(x) = F(y)
        <4> HIDE DEF F, R
        <4>1. Home(F(x) + 1, R(x) = 1) = Home(F(y) + 1, R(x) = 1)
          BY <2>1, <2>2
        <4>2. F(x) \in 0 .. N - 1 /\ F(y) \in 0 .. N - 1
          BY <1>1, <2>1
        <4> QED BY <1>1, <4>1, <4>2 DEF Home
      <3> HIDE DEF F, R
      <3> QED BY <1>1, <2>1, <2>2, <3>1
    <2>3. R(a) \in {0, 1} /\ R(b) \in {0, 1} /\ R(d) \in {0, 1}
      BY <2>1
    <2> HIDE DEF F, R
    <2> QED BY <1>6, <2>2, <2>3
  <1> QED BY <1>4, <1>5, <1>6

-----------------------------------------------------------------------------
(* A connection that a step does not touch *)

\* The stages in which the node at the far end has the connection in hand.
Seated == {"identify", "hello", "said", "receive", "lost", "packet", "lostpacket", "ok", "raw",
           "fanout", "asking", "relay", "answer", "hand_over"}

\* A stage in which the node at the far end is busy with the connection says where its thread is.
LEMMA SeatFacts ==
    ASSUME NEW t, NEW k, Seat(t, k), t[k] \in Seated
    PROVE  /\ fd[k.to] = k
           /\ pc[k.to] \in {"identify", "collect_identify", "receive", "collect_packet", "packet",
                            "collect_raw", "raw", "fanout", "ask", "call", "answer", "hand_over"}
  BY DEF Seat, Seated

\* Connection k is as it was, and so are the two ends of it as far as they have to do with it.
LEMMA LinkFrame ==
    ASSUME NEW s, NEW t, NEW t2, NEW k, Link(s, t, k), t2[k] = t[k], wire'[k] = wire[k],
           t[k] \in Seated => /\ pc'[k.to] = pc[k.to] /\ fd'[k.to] = fd[k.to]
                              /\ packet'[k.to] = packet[k.to] /\ call'[k.to] = call[k.to]
                              /\ ms'[k.to] = ms[k.to],
           t[k] = "queued" => \E x \in DOMAIN backlog'[k.to] : backlog'[k.to][x] = k,
           Dialling(s, t, k) => pc'[k.from] = pc[k.from] /\ call'[k.from] = call[k.from],
           k.kind = "client" => client'[k.c] = client[k.c] /\ got'[k.c] = got[k.c],
           k.kind = "relay" /\ Forwarded(s, k.c) => Forwarded(s, k.c)'
    PROVE  Link(s, t2, k)'
  <1>1. Shape(s, t2, k)
    BY DEF Link, Shape
  <1>2. Seat(t2, k)'
    BY DEF Link, Seat, Seated
  <1>3. Caller(s, t2, k)'
    BY DEF Link, Caller, Dialling, Remaining
  <1>4. CallTalk(s, t2, k)'
    BY DEF Link, CallTalk, Has, Seated
  <1>5. LineTalk(s, t2, k)'
    <2>1. LineTalk(s, t, k) /\ Shape(s, t, k)
      BY DEF Link
    <2> QED BY <2>1 DEF LineTalk, Is, Has, Taken, Promised, Seated
  <1>6. RelayTalk(s, t2, k)'
    <2>1. RelayTalk(s, t, k)
      BY DEF Link
    <2> QED BY <2>1 DEF RelayTalk, Held, Seated
  <1> QED BY <1>1, <1>2, <1>3, <1>4, <1>5, <1>6 DEF Link

-----------------------------------------------------------------------------
(* A step of node n *)

\* The other nodes do not move.
Elsewhere(n) ==
    \A m \in Node \ {n} :
      /\ pc'[m] = pc[m] /\ fd'[m] = fd[m] /\ client_fd'[m] = client_fd[m]
      /\ packet'[m] = packet[m] /\ ms'[m] = ms[m] /\ call'[m] = call[m]

\* Outside K no connection changes, and n has nothing to do with the rest.
Moves(s, t, t2, n, K) ==
    /\ Elsewhere(n)
    /\ \A c \in Client : /\ client[c] # "off" => client'[c] # "off"
                         /\ Forwarded(s, c) => Forwarded(s, c)'
    /\ \A k \in Conns \ K :
         /\ t2[k] = t[k]
         /\ t[k] # "none" => wire'[k] = wire[k]
         /\ t[k] = "queued" => \E x \in DOMAIN backlog'[k.to] : backlog'[k.to][x] = k
         /\ t[k] \in Seated => k.to # n
         /\ Dialling(s, t, k) => k.from # n
         /\ k.kind = "client" => client'[k.c] = client[k.c] /\ got'[k.c] = got[k.c]

\* All connections that a step leaves alone stay what they were.
LEMMA LinksFrame ==
    ASSUME NEW s \in Stories, NEW t, NEW t2, NEW n, NEW K,
           Links(s, t), Moves(s, t, t2, n, K), NEW k \in Conns \ K, t2[k] # "none"
    PROVE  client'[k.c] # "off" /\ Link(s, t2, k)'
  <1>1. /\ t2[k] = t[k] /\ wire'[k] = wire[k] /\ t[k] # "none"
        /\ t[k] = "queued" => \E x \in DOMAIN backlog'[k.to] : backlog'[k.to][x] = k
        /\ t[k] \in Seated => k.to # n
        /\ Dialling(s, t, k) => k.from # n
        /\ k.kind = "client" => client'[k.c] = client[k.c] /\ got'[k.c] = got[k.c]
    BY DEF Moves
  <1>2. client[k.c] # "off" /\ Link(s, t, k)
    BY <1>1 DEF Links
  <1>3. k.to \in Node /\ k.c \in Client /\ k.from \in Node \cup {Nowhere}
    BY ConnType
  <1>4. Dialling(s, t, k) => k.from \in Node
    <2>1. Shape(s, t, k)
      BY <1>2 DEF Link
    <2>2. IsCall(s, k) => k.from \in Node
      <3>1. s.home[k.c] \in Node /\ Index \in Node
        BY <1>3, StoryType, ParameterFacts
      <3>2. k.kind = "relay" => k.from = s.home[k.c]
        BY <1>3, <2>1, ConnsOf DEF Shape
      <3>3. k.kind = "ask" => k.from = Index
        BY <1>3, <2>1, ConnsOf DEF Shape
      <3>4. k.kind = "deliver" => k.from = Index \/ k.from = k.i
        BY <1>3, <2>1, ConnsOf DEF Shape
      <3>5. k.kind = "deliver" => k.i \in Node
        BY <1>3, <2>1, StoryType, PartsFacts DEF Shape
      <3>6. k.kind = "store" => k.from = Index
        BY <1>3, <2>1, ConnFacts DEF Shape, StoreOf
      <3> QED BY <3>1, <3>2, <3>3, <3>4, <3>5, <3>6 DEF IsCall
    <2> QED BY <2>2 DEF Dialling
  <1>5. /\ client'[k.c] # "off"
        /\ Forwarded(s, k.c) => Forwarded(s, k.c)'
    BY <1>2, <1>3 DEF Moves
  <1>6. t[k] \in Seated => /\ pc'[k.to] = pc[k.to] /\ fd'[k.to] = fd[k.to]
                           /\ packet'[k.to] = packet[k.to] /\ call'[k.to] = call[k.to]
                           /\ ms'[k.to] = ms[k.to]
    BY <1>1, <1>3 DEF Moves, Elsewhere
  <1>7. Dialling(s, t, k) => pc'[k.from] = pc[k.from] /\ call'[k.from] = call[k.from]
    BY <1>1, <1>4 DEF Moves, Elsewhere
  <1> QED BY <1>1, <1>2, <1>5, <1>6, <1>7, LinkFrame

\* What n can do to a connection whose far end is another node: send the next packet.
Pushed(a, b) ==
    \/ a = "hello" /\ b = "said"
    \/ a = "ok" /\ b = "raw"
    \/ a = "done" /\ b = "over"
    \/ a = "none" /\ b = "queued"

\* How the changes of n look from the other nodes.
Ripple(s, t, t2, n) ==
    \A k \in Conns : t2[k] # t[k] =>
      /\ t2[k] # "none"
      /\ k.to # n => Pushed(t[k], t2[k])
      /\ Dialling(s, t, k) /\ k.from # n => Dialling(s, t2, k)

\* So do the threads of the other nodes.
LEMMA ThreadFrame ==
    ASSUME NEW s, NEW t, NEW t2, NEW n, Elsewhere(n), Ripple(s, t, t2, n),
           NEW m \in Node \ {n}, Thread(s, t, m)
    PROVE  Thread(s, t2, m)'
  <1>1. /\ pc'[m] = pc[m] /\ fd'[m] = fd[m] /\ client_fd'[m] = client_fd[m]
        /\ packet'[m] = packet[m] /\ ms'[m] = ms[m] /\ call'[m] = call[m]
    BY DEF Elsewhere
  <1>2. \A k \in Conns :
          /\ t[k] # "none" => t2[k] # "none"
          /\ k.to = m => t2[k] = t[k] \/ Pushed(t[k], t2[k])
          /\ Dialling(s, t, k) /\ k.from = m => Dialling(s, t2, k)
    BY DEF Ripple, Dialling
  <1>4. /\ pc[m] \in Position
        /\ fd[m] # NoConn => fd[m] \in Conns /\ t2[fd[m]] # "none"
        /\ client_fd[m] # NoConn =>
             /\ client_fd[m] \in Conns /\ client_fd[m].kind = "client" /\ client_fd[m].to = m
             /\ t2[client_fd[m]] \notin {"none", "queued", "identify"}
        /\ call[m].conn # NoConn => call[m].conn \in Conns /\ t2[call[m].conn] # "none"
    BY <1>2 DEF Thread, Pushed
  <1>5. /\ pc[m] \in {"identify", "collect_identify"} => Serves(t2, m, {"identify"})'
        /\ pc[m] = "receive" => Serves(t2, m, {"hello", "said", "receive", "lost"})'
        /\ pc[m] = "packet" => Serves(t2, m, {"packet", "lostpacket", "asked"})'
        /\ pc[m] = "raw" => Serves(t2, m, {"ok", "raw"})'
        /\ pc[m] = "answer" => Serves(t2, m, {"answer"})'
        /\ pc[m] = "hand_over" => Serves(t2, m, {"hand_over"})'
        /\ pc[m] = "collect_packet" => Serves(t2, m, {"hello", "said", "open"})'
        /\ pc[m] = "collect_raw" => Serves(t2, m, {"ok", "raw"})'
    BY <1>1, <1>2 DEF Thread, Serves, Pushed
  <1>6. /\ pc[m] = "identify" => fd[m].kind # "deliver"
        /\ pc[m] = "receive" => fd[m].kind # "deliver"
        /\ pc[m] = "raw" => fd[m].kind # "deliver"
        /\ pc[m] = "collect_raw" => fd[m].kind = "deliver"
        /\ pc[m] \in {"ask", "fanout"} => m = Index
    BY DEF Thread
  <1>7. pc[m] = "packet" /\ t2[fd[m]] = "asked" => fd[m].kind = "client" /\ packet[m] = <<Ok>>
    BY <1>2 DEF Thread, Serves, Pushed
  <1>8. pc[m] \in Collecting =>
          /\ ms[m].from \in Conns /\ ms[m].from.kind = "client" /\ ms[m].from.to = m
          /\ t2[ms[m].from] = "collect"
          /\ pc[m] # "collect" => ms[m].found < ms[m].count
    BY <1>2 DEF Thread, Pushed
  <1>9. pc[m] = "call" => call[m].conn \in Conns /\ call[m].conn.from = m /\ Dialling(s, t2, call[m].conn)
    BY <1>2 DEF Thread
  <1> QED BY <1>1, <1>4, <1>5, <1>6, <1>7, <1>8, <1>9 DEF Thread

-----------------------------------------------------------------------------
(* A request whose connections move on within their class of stages *)

\* Stages a and b of k mean the same for the request that k belongs to.
Within(a, b, S) == a \in S /\ b \in S
Alike(s, a, b, k) ==
    \/ a = b
    \/ /\ k.kind = "client"
       /\ \/ Within(a, b, {"queued", "identify", "open", "packet"})
          \/ Within(a, b, {"raw", "passed"})
          \/ Within(a, b, {"hand_over", "served"}) \/ Within(a, b, {"asking", "asked"})
          \/ s.home[k.c] = Index /\ a = "packet" /\ b = "raw"
    \/ /\ k.kind = "relay" /\ s.op[k.c] = "read"
       /\ \/ Within(a, b, {"queued", "identify", "hello"}) \/ Within(a, b, {"said", "packet"})
          \/ Within(a, b, {"asking", "asked"})
    \/ /\ k.kind = "relay" /\ s.op[k.c] = "write"
       /\ Within(a, b, {"queued", "identify", "receive", "lost", "lostpacket", "packet", "raw", "gone"})
    \/ /\ k.kind = "ask"
       /\ \/ Within(a, b, {"queued", "identify", "hello", "said", "packet"})
          \/ Within(a, b, {"done", "over"})
          \/ a = "packet" /\ b = "done"
    \/ k.kind = "deliver" /\ (Within(a, b, Undelivered) \/ Within(a, b, Delivered))
    \/ k.kind = "store" /\ a # "none" /\ b # "none" /\ (a \in {"raw", "over"} => b \in {"raw", "over"})

\* A request stays where it is while its connections stay in their class of stages.
LEMMA ProgressFrame ==
    ASSUME NEW s \in Stories, NEW t, NEW t2, NEW c \in Client, Progress(s, t, c),
           Alike(s, t[LineOf(s, c)], t2[LineOf(s, c)], LineOf(s, c)),
           Alike(s, t[RelayOf(s, c)], t2[RelayOf(s, c)], RelayOf(s, c))
    PROVE  Progress(s, t2, c)
  <1> DEFINE l  == t[LineOf(s, c)]
             l2 == t2[LineOf(s, c)]
             r  == t[RelayOf(s, c)]
             r2 == t2[RelayOf(s, c)]
  <1>1. /\ LineOf(s, c).kind = "client" /\ LineOf(s, c).c = c
        /\ RelayOf(s, c).kind = "relay" /\ RelayOf(s, c).c = c
    BY ConnsOf
  <1>2. \/ l = l2 \/ Within(l, l2, {"queued", "identify", "open", "packet"})
        \/ Within(l, l2, {"raw", "passed"})
        \/ Within(l, l2, {"hand_over", "served"}) \/ Within(l, l2, {"asking", "asked"})
        \/ s.home[c] = Index /\ l = "packet" /\ l2 = "raw"
    BY <1>1 DEF Alike
  <1>3. \/ r = r2
        \/ /\ s.op[c] = "read"
           /\ \/ Within(r, r2, {"queued", "identify", "hello"}) \/ Within(r, r2, {"said", "packet"})
              \/ Within(r, r2, {"asking", "asked"})
        \/ /\ s.op[c] = "write"
           /\ Within(r, r2, {"queued", "identify", "receive", "lost", "lostpacket", "packet", "raw", "gone"})
    BY <1>1 DEF Alike
  <1>4. Progress(s, t, c)
    OBVIOUS
  <1> QED BY <1>2, <1>3, <1>4 DEF Progress, Within

\* The request's own stage at the index.
LEMMA JobFrame ==
    ASSUME NEW s \in Stories, NEW t, NEW t2, NEW c \in Client,
           Alike(s, t[LineOf(s, c)], t2[LineOf(s, c)], LineOf(s, c)),
           Alike(s, t[RelayOf(s, c)], t2[RelayOf(s, c)], RelayOf(s, c))
    PROVE  /\ Granted(s, t2, c) <=> Granted(s, t, c)
           /\ Numbered(s, t2, c) <=> Numbered(s, t, c)
           /\ t2[Job(s, c)] = "stored" <=> t[Job(s, c)] = "stored"
           /\ t2[Job(s, c)] = "fanout" <=> t[Job(s, c)] = "fanout"
  <1>1. /\ LineOf(s, c).kind = "client" /\ RelayOf(s, c).kind = "relay"
    BY ConnsOf
  <1>2. Alike(s, t[Job(s, c)], t2[Job(s, c)], Job(s, c)) /\ Job(s, c).kind \in {"client", "relay"}
    BY <1>1 DEF Job
  <1> HIDE DEF Job
  <1> QED BY <1>2 DEF Alike, Within, Granted, Numbered

LEMMA FetchFrame ==
    ASSUME NEW s \in Stories, NEW t, NEW t2, NEW c \in Client, NEW i, Fetch(s, t, c, i),
           Alike(s, t[LineOf(s, c)], t2[LineOf(s, c)], LineOf(s, c)),
           Alike(s, t[DeliverOf(s, c, i)], t2[DeliverOf(s, c, i)], DeliverOf(s, c, i)),
           Alike(s, t[AskOf(c, i)], t2[AskOf(c, i)], AskOf(c, i))
    PROVE  /\ Fetch(s, t2, c, i)
           /\ t2[DeliverOf(s, c, i)] \in Delivered <=> t[DeliverOf(s, c, i)] \in Delivered
  <1> DEFINE l  == t[LineOf(s, c)]
             l2 == t2[LineOf(s, c)]
             d  == t[DeliverOf(s, c, i)]
             d2 == t2[DeliverOf(s, c, i)]
             a  == t[AskOf(c, i)]
             a2 == t2[AskOf(c, i)]
  <1>1. /\ LineOf(s, c).kind = "client" /\ LineOf(s, c).c = c /\ DeliverOf(s, c, i).kind = "deliver"
        /\ AskOf(c, i).kind = "ask"
    BY ConnsOf
  <1>2. \/ l = l2 \/ Within(l, l2, {"queued", "identify", "open", "packet"})
        \/ Within(l, l2, {"raw", "passed"})
        \/ Within(l, l2, {"hand_over", "served"}) \/ Within(l, l2, {"asking", "asked"})
        \/ s.home[c] = Index /\ l = "packet" /\ l2 = "raw"
    BY <1>1 DEF Alike
  <1>3. d = d2 \/ Within(d, d2, Undelivered) \/ Within(d, d2, Delivered)
    BY <1>1 DEF Alike
  <1>4. \/ a = a2 \/ Within(a, a2, {"queued", "identify", "hello", "said", "packet"})
        \/ Within(a, a2, {"done", "over"}) \/ (a = "packet" /\ a2 = "done")
    BY <1>1 DEF Alike
  <1>5. Fetch(s, t, c, i)
    OBVIOUS
  <1> QED BY <1>2, <1>3, <1>4, <1>5 DEF Fetch, Within, Undelivered, Delivered

\* The connection on which the index hands out copy j.
LEMMA StoreConn ==
    ASSUME NEW s \in Stories, NEW c \in Client, NEW j \in 1 .. Copies(s.want[c])
    PROVE  /\ StoreOf(s, c, j) \in Conns /\ StoreOf(s, c, j).kind = "store"
           /\ StoreOf(s, c, j).c = c /\ StoreOf(s, c, j).i = j /\ StoreOf(s, c, j).from = Index
           /\ StoreOf(s, c, j).to = Copy(s.want[c], j).node_id
  <1>1. s.want[c] \in Name
    BY StoryType
  <1>2. Copy(s.want[c], j).node_id \in Node /\ j \in Nat /\ Index \in Node
    BY <1>1, CopyFacts, PartsFacts, ParameterFacts
  <1> QED BY <1>2, ConnFacts DEF StoreOf, Kinds

\* A step that moves no connection out of its class leaves all that is said of a request.
LEMMA RequestFrame ==
    ASSUME NEW s \in Stories, NEW t, NEW t2, NEW c \in Client, Request(s, t, c), Numbering(s, t),
           \A k \in Conns : k.c = c => Alike(s, t[k], t2[k], k),
           \A k \in Conns : t[k] = "stored" => t2[k] = "stored",
           client'[c] = client[c] /\ got'[c] = got[c] /\ at'[c] = at[c],
           \A id \in DOMAIN files : id \in DOMAIN files' /\ files'[id] = files[id], c \in complete' <=> c \in complete,
           t[RelayOf(s, c)] \in {"asking", "asked", "refused"} =>
             wire'[RelayOf(s, c)].down = wire[RelayOf(s, c)].down,
           t[LineOf(s, c)] = "collect" => pc'[s.home[c]] \in Collecting /\ ms'[s.home[c]] = ms[s.home[c]]
    PROVE  Request(s, t2, c)'
  <1> SUFFICES ASSUME client[c] # "off"
               PROVE  /\ Progress(s, t2, c) /\ Answers(s, t2, c)' /\ Doing(s, c)'
                      /\ \A i \in 1 .. Parts[s.want[c]] : s.home[c] # Index => Fetch(s, t2, c, i)
                      /\ Tally(s, t2, c)' /\ Found(s, t2, c)' /\ HandedOut(s, t2, c)
                      /\ (c \in complete)' <=> t2[Job(s, c)] = "stored"
    BY DEF Request
  <1>1. /\ Progress(s, t, c) /\ Answers(s, t, c) /\ Doing(s, c)
        /\ \A i \in 1 .. Parts[s.want[c]] : s.home[c] # Index => Fetch(s, t, c, i)
        /\ Tally(s, t, c) /\ Found(s, t, c) /\ HandedOut(s, t, c)
        /\ c \in complete <=> t[Job(s, c)] = "stored"
    BY DEF Request
  <1>2. /\ LineOf(s, c) \in Conns /\ LineOf(s, c).c = c /\ LineOf(s, c).kind = "client"
        /\ RelayOf(s, c) \in Conns /\ RelayOf(s, c).c = c /\ RelayOf(s, c).kind = "relay"
        /\ \A i \in Node : /\ AskOf(c, i) \in Conns /\ AskOf(c, i).c = c
                           /\ DeliverOf(s, c, i) \in Conns /\ DeliverOf(s, c, i).c = c
    BY ConnsOf
  <1>3. /\ Alike(s, t[LineOf(s, c)], t2[LineOf(s, c)], LineOf(s, c))
        /\ Alike(s, t[RelayOf(s, c)], t2[RelayOf(s, c)], RelayOf(s, c))
        /\ \A i \in Node : /\ Alike(s, t[DeliverOf(s, c, i)], t2[DeliverOf(s, c, i)], DeliverOf(s, c, i))
                           /\ Alike(s, t[AskOf(c, i)], t2[AskOf(c, i)], AskOf(c, i))
    BY <1>2
  <1>4. /\ s.want[c] \in Name /\ s.file[c] \in Nat /\ s.home[c] \in Node
        /\ \A i \in 1 .. Parts[s.want[c]] : i \in Node
    BY StoryType, PartsFacts
  <1>5. Progress(s, t2, c)
    BY <1>1, <1>3, ProgressFrame
  <1>6. /\ Granted(s, t2, c) <=> Granted(s, t, c)
        /\ t2[Job(s, c)] = "stored" <=> t[Job(s, c)] = "stored"
    BY <1>3, JobFrame
  <1>7. Answers(s, t2, c)'
    <2> SUFFICES ASSUME t2[LineOf(s, c)] = "answer"
                 PROVE  /\ t2[RelayOf(s, c)] \in {"asking", "asked"} =>
                             wire'[RelayOf(s, c)].down = <<Grant(s, c)>>
                        /\ t2[RelayOf(s, c)] = "refused" => wire'[RelayOf(s, c)].down = <<NotOk>>
      BY DEF Answers
    <2>1. t[LineOf(s, c)] = "answer"
      BY <1>2, <1>3 DEF Alike, Within
    <2>2. /\ t2[RelayOf(s, c)] \in {"asking", "asked"} => t[RelayOf(s, c)] \in {"asking", "asked"}
          /\ t2[RelayOf(s, c)] = "refused" => t[RelayOf(s, c)] = "refused"
      BY <1>2, <1>3 DEF Alike, Within
    <2> QED BY <1>1, <2>1, <2>2 DEF Answers
  <1>8. Doing(s, c)'
    BY <1>1 DEF Doing
  <1>9. \A i \in 1 .. Parts[s.want[c]] : s.home[c] # Index => Fetch(s, t2, c, i)
    BY <1>1, <1>3, <1>4, FetchFrame
  <1>10. ASSUME NEW i \in Node
         PROVE  t2[DeliverOf(s, c, i)] \in Delivered <=> t[DeliverOf(s, c, i)] \in Delivered
    <2>1. DeliverOf(s, c, i).kind = "deliver"
      BY ConnsOf
    <2> QED BY <1>3, <2>1 DEF Alike, Within, Undelivered, Delivered
  <1>11. Tally(s, t2, c)'
    <2>1. Arrived(s, t2, c) = Arrived(s, t, c)
      BY <1>4, <1>10 DEF Arrived
    <2>2. t2[LineOf(s, c)] = "collect" => t[LineOf(s, c)] = "collect"
      BY <1>2, <1>3 DEF Alike, Within
    <2> QED BY <1>1, <2>1, <2>2 DEF Tally
  <1>12. Found(s, t2, c)'
    <2> SUFFICES ASSUME Granted(s, t2, c)
                 PROVE  /\ s.op[c] = "read"
                        /\ s.file[c] \in DOMAIN files /\ files[s.file[c]] = s.want[c]
                        /\ s.file[c] = 1 \/ t2[Job(s, s.owner[s.file[c]])] = "stored"
      BY DEF Found
    <2>1. /\ s.op[c] = "read"
          /\ s.file[c] \in DOMAIN files /\ files[s.file[c]] = s.want[c]
          /\ s.file[c] = 1 \/ t[Job(s, s.owner[s.file[c]])] = "stored"
      BY <1>1, <1>6 DEF Found
    <2>2. CASE s.file[c] # 1
      <3>1. s.file[c] \in 2 .. Len(files)
        BY <1>4, <2>1, <2>2 DEF Numbering
      <3>2. s.owner[s.file[c]] \in Client
        BY <3>1 DEF Numbering
      <3>3. Job(s, s.owner[s.file[c]]) \in Conns
        BY <3>2, ConnsOf
      <3> QED BY <2>1, <3>3
    <2> QED BY <2>1, <2>2
  <1>13. HandedOut(s, t2, c)
    <2> SUFFICES ASSUME t2[Job(s, c)] = "stored", NEW j \in 1 .. Copies(s.want[c]),
                        Copy(s.want[c], j).node_id # Index
                 PROVE  t2[StoreOf(s, c, j)] \in {"raw", "over"}
      BY DEF HandedOut
    <2>1. t[StoreOf(s, c, j)] \in {"raw", "over"}
      BY <1>1, <1>6 DEF HandedOut
    <2>2. Alike(s, t[StoreOf(s, c, j)], t2[StoreOf(s, c, j)], StoreOf(s, c, j))
      BY StoreConn
    <2>3. StoreOf(s, c, j).kind = "store"
      BY StoreConn
    <2> QED BY <2>1, <2>2, <2>3 DEF Alike
  <1> QED BY <1>1, <1>5, <1>6, <1>7, <1>8, <1>9, <1>11, <1>12, <1>13

-----------------------------------------------------------------------------
(* The work of the index and the files *)

\* The index's inquiry and its handout go on when the step is not one of theirs.
LEMMA InquiryFrame ==
    ASSUME NEW s \in Stories, NEW t, NEW t2, Inquiry(s, t), todo \in Seq(Pointer),
           Working("ask")' => /\ Working("ask") /\ fd'[Index] = fd[Index]
                              /\ ms'[Index] = ms[Index] /\ todo' = todo,
           \A k \in Conns : t[k] = "asking" => t2[k] = "asking",
           \A k \in Conns : k.kind \in {"ask", "deliver"} /\ t[k] = "none" => t2[k] = "none"
    PROVE  Inquiry(s, t2)'
  <1> DEFINE c == fd[Index].c
             f == s.want[c]
  <1> SUFFICES ASSUME Working("ask")'
               PROVE  /\ Serves(t2, Index, {"asking"})' /\ fd'[Index] = Job(s, c)
                      /\ ms[Index].file = s.file[c] /\ ms[Index].to = Reader(s, c)
                      /\ Len(todo) <= Parts[f]
                      /\ \A j \in 1 .. Len(todo) : todo[j] = Chosen[f][Parts[f] - Len(todo) + j]
                      /\ \A i \in Parts[f] - Len(todo) + 1 .. Parts[f] :
                           t2[AskOf(c, i)] = "none" /\ t2[DeliverOf(s, c, i)] = "none"
    BY DEF Inquiry
  <1>1. Working("ask") /\ fd'[Index] = fd[Index]
    OBVIOUS
  <1>2. /\ Serves(t, Index, {"asking"}) /\ fd[Index] = Job(s, c)
        /\ ms[Index].file = s.file[c] /\ ms[Index].to = Reader(s, c)
        /\ Len(todo) <= Parts[f]
        /\ \A j \in 1 .. Len(todo) : todo[j] = Chosen[f][Parts[f] - Len(todo) + j]
        /\ \A i \in Parts[f] - Len(todo) + 1 .. Parts[f] :
             t[AskOf(c, i)] = "none" /\ t[DeliverOf(s, c, i)] = "none"
    BY <1>1 DEF Inquiry
  <1>3. Serves(t2, Index, {"asking"})'
    BY <1>1, <1>2 DEF Serves
  <1>4. c \in Client /\ f \in Name
    <2>1. fd[Index] \in Conns
      BY <1>2 DEF Serves
    <2> QED BY <2>1, ConnType, StoryType
  <1> HIDE DEF c, f
  <1>5. ASSUME NEW i \in Parts[f] - Len(todo) + 1 .. Parts[f],
               t[AskOf(c, i)] = "none", t[DeliverOf(s, c, i)] = "none", i \in Node
        PROVE  t2[AskOf(c, i)] = "none" /\ t2[DeliverOf(s, c, i)] = "none"
    BY <1>4, <1>5, ConnsOf
  <1>6. \A i \in Parts[f] - Len(todo) + 1 .. Parts[f] : i \in Node
    <2>1. /\ Parts[f] \in Nat /\ \A i \in 1 .. Parts[f] : i \in Node
      BY <1>4, PartsFacts
    <2> QED BY <1>2, <2>1
  <1> QED BY <1>1, <1>2, <1>3, <1>5, <1>6 DEF c, f

LEMMA HandoutFrame ==
    ASSUME NEW s \in Stories, NEW t, NEW t2, Handout(s, t),
           Working("fanout")' => /\ Working("fanout") /\ fd'[Index] = fd[Index]
                                 /\ ms'[Index] = ms[Index] /\ todo' = todo
                                 /\ pc'[Index] = "call" => /\ pc[Index] = "call"
                                                           /\ call'[Index].conn = call[Index].conn,
           \A k \in Conns : t[k] = "fanout" => t2[k] = "fanout",
           \A k \in Conns : k.kind = "store" => (t2[k] = "none" <=> t[k] = "none")
    PROVE  Handout(s, t2)'
  <1> DEFINE c == fd[Index].c
             f == s.want[c]
  <1> SUFFICES ASSUME Working("fanout")'
               PROVE  /\ Serves(t2, Index, {"fanout"})' /\ fd'[Index] = Job(s, c)
                      /\ ms[Index].file = s.file[c] /\ ms[Index].buffer = Contents(s, c)
                      /\ Len(todo) <= Copies(f)
                      /\ \A j \in 1 .. Len(todo) : todo[j] = Table[f][Copies(f) - Len(todo) + j]
                      /\ pc'[Index] = "call" => call'[Index].conn.c = c
                      /\ \A j \in 1 .. Copies(f) :
                           Copy(f, j).node_id # Index => (t2[StoreOf(s, c, j)] = "none" <=> j <= Len(todo))
    BY DEF Handout
  <1>1. Working("fanout") /\ fd'[Index] = fd[Index]
    OBVIOUS
  <1>2. /\ Serves(t, Index, {"fanout"}) /\ fd[Index] = Job(s, c)
        /\ ms[Index].file = s.file[c] /\ ms[Index].buffer = Contents(s, c)
        /\ Len(todo) <= Copies(f)
        /\ \A j \in 1 .. Len(todo) : todo[j] = Table[f][Copies(f) - Len(todo) + j]
        /\ pc[Index] = "call" => call[Index].conn.c = c
        /\ \A j \in 1 .. Copies(f) :
             Copy(f, j).node_id # Index => (t[StoreOf(s, c, j)] = "none" <=> j <= Len(todo))
    BY <1>1 DEF Handout
  <1>3. Serves(t2, Index, {"fanout"})'
    BY <1>1, <1>2 DEF Serves
  <1>4. c \in Client
    <2>1. fd[Index] \in Conns
      BY <1>2 DEF Serves
    <2> QED BY <2>1, ConnType
  <1>5. \A j \in 1 .. Copies(f) : t2[StoreOf(s, c, j)] = "none" <=> t[StoreOf(s, c, j)] = "none"
    BY <1>4, StoreConn
  <1> HIDE DEF c
  <1> QED BY <1>1, <1>2, <1>3, <1>5 DEF c

\* The numbers of the files, and what the shelves hold, change only with the stages of fan-outs and stores.
LEMMA NumberingFrame ==
    ASSUME NEW s \in Stories, NEW t, NEW t2, Numbering(s, t), files' = files,
           \A c \in Client : /\ client'[c] = "off" <=> client[c] = "off"
                             /\ client[c] = "sent" => client'[c] = "sent",
           \A k \in Conns : t2[k] \in {"fanout", "stored"} <=> t[k] \in {"fanout", "stored"}
    PROVE  Numbering(s, t2)'
  <1>1. \A c \in Client : Numbered(s, t2, c) <=> Numbered(s, t, c)
    BY ConnsOf DEF Numbered
  <1>2. /\ files \in Seq(Name) /\ Len(files) >= 1 /\ s.owner[1] = 0 /\ files[1] = Known
    BY DEF Numbering
  <1>3. \A id \in 2 .. Len(files) :
          LET c == s.owner[id] IN
          c \in Client /\ client'[c] # "off" /\ Numbered(s, t2, c) /\ s.file[c] = id
    BY <1>1 DEF Numbering
  <1>4. \A c \in Client : client'[c] # "off" /\ Numbered(s, t2, c) =>
          /\ client'[c] = "sent" /\ s.file[c] \in 2 .. Len(files)
          /\ s.owner[s.file[c]] = c /\ files[s.file[c]] = s.want[c]
    BY <1>1 DEF Numbering
  <1> QED BY <1>2, <1>3, <1>4 DEF Numbering

LEMMA ShelvesFrame ==
    ASSUME NEW s \in Stories, NEW t, NEW t2, Numbering(s, t), Shelves(s, t), files' = files, fs' = fs,
           \A c \in Client : Numbered(s, t, c) => Left(s, t2, c)' = Left(s, t, c),
           \A k \in Conns : k.kind = "store" => (t2[k] = "over" <=> t[k] = "over")
    PROVE  Shelves(s, t2)'
  <1> SUFFICES ASSUME NEW m \in Node, NEW id \in FileId
               PROVE  IF id \in DOMAIN files THEN Slots(s, t2, m, id)' ELSE fs[m][id] = <<>>
    BY DEF Shelves
  <1>1. IF id \in DOMAIN files THEN Slots(s, t, m, id) ELSE fs[m][id] = <<>>
    BY DEF Shelves
  <1> SUFFICES ASSUME id \in DOMAIN files, Slots(s, t, m, id) PROVE Slots(s, t2, m, id)'
    BY <1>1
  <1>2. \A j \in 1 .. Copies(files[id]) : Placed(s, t2, id, j)' <=> Placed(s, t, id, j)
    <2> SUFFICES ASSUME NEW j \in 1 .. Copies(files[id]), id # 1
                 PROVE  Placed(s, t2, id, j)' <=> Placed(s, t, id, j)
      BY DEF Placed
    <2>1. id \in 2 .. Len(files) /\ id \in Nat
      BY DEF Numbering
    <2> DEFINE c == s.owner[id]
    <2>2. c \in Client /\ Numbered(s, t, c) /\ s.file[c] = id /\ client[c] # "off"
      BY <2>1 DEF Numbering
    <2>3. files[id] = s.want[c]
      BY <2>2 DEF Numbering
    <2>4. Left(s, t2, c)' = Left(s, t, c)
      BY <2>2
    <2>5. StoreOf(s, c, j) \in Conns /\ StoreOf(s, c, j).kind = "store"
      BY <2>2, <2>3, StoreConn
    <2>6. t2[StoreOf(s, c, j)] = "over" <=> t[StoreOf(s, c, j)] = "over"
      BY <2>5
    <2> HIDE DEF c
    <2> QED BY <2>4, <2>6 DEF Placed, c
  <1>3. On(s, t2, m, id)' = On(s, t, m, id)
    BY <1>2 DEF On
  <1>4. \A j : Entry(s, id, j)' = Entry(s, id, j)
    BY DEF Entry
  <1> QED BY <1>3, <1>4 DEF Slots

-----------------------------------------------------------------------------
(* What a node is attached to *)

\* What a connection in use says of the two processes at its ends.
LEMMA Attached ==
    ASSUME NEW s \in Stories, NEW t, Explains(s, t), NEW k \in Conns
    PROVE  /\ t[k] # "none" => /\ client[k.c] # "off" /\ Link(s, t, k) /\ Bound(s, t, k)
                               /\ k \in DOMAIN wire /\ DOMAIN wire[k] = {"up", "down"}
           /\ t[k] \in Seated =>
                /\ fd[k.to] = k /\ pc[k.to] \notin {"idle", "collect"}
           /\ Dialling(s, t, k) => pc[k.from] = "call" /\ call[k.from].conn = k
  <1>1. t[k] # "none" => /\ client[k.c] # "off" /\ Link(s, t, k) /\ Bound(s, t, k)
                         /\ k \in DOMAIN wire /\ DOMAIN wire[k] = {"up", "down"}
    BY DEF Explains, Links, Link
  <1>2. t[k] \in Seated => fd[k.to] = k /\ pc[k.to] \notin {"idle", "collect"}
    <2>1. t[k] \in Seated => t[k] # "none"
      BY DEF Seated
    <2> QED BY <1>1, <2>1, SeatFacts DEF Link
  <1>3. Dialling(s, t, k) => pc[k.from] = "call" /\ call[k.from].conn = k
    <2>1. Dialling(s, t, k) => t[k] # "none"
      BY DEF Dialling
    <2>2. ASSUME Dialling(s, t, k), Caller(s, t, k)
          PROVE  pc[k.from] = "call" /\ call[k.from].conn = k
      BY <2>2 DEF Caller
    <2> QED BY <1>1, <2>1, <2>2 DEF Link
  <1> QED BY <1>1, <1>2, <1>3

\* The conditions of Moves, as a node's step meets them.
LEMMA NodeMoves ==
    ASSUME NEW s \in Stories, NEW t, NEW t2, NEW n, NEW K, Explains(s, t), Elsewhere(n),
           client' = client, got' = got,
           \A k \in Conns \ K : t2[k] = t[k] /\ (t[k] # "none" => wire'[k] = wire[k]),
           \A m \in Node : \A x \in DOMAIN backlog[m] :
              backlog[m][x] \notin K => \E y \in DOMAIN backlog'[m] : backlog'[m][y] = backlog[m][x],
           pc[n] \notin {"idle", "collect"} => fd[n] \in K,
           pc[n] = "call" => call[n].conn \in K,
           \A c \in Client : Forwarded(s, c) /\ LineOf(s, c) \in K => wire'[LineOf(s, c)].up = <<>>
    PROVE  Moves(s, t, t2, n, K)
  <1>1. ASSUME NEW c \in Client, Forwarded(s, c) PROVE Forwarded(s, c)'
    <2>1. client[c] # "off"
      BY <1>1 DEF Forwarded
    <2>2. t[LineOf(s, c)] # "none"
      BY <2>1 DEF Explains, Request, Progress
    <2>3. LineOf(s, c) \in Conns
      BY ConnsOf
    <2> QED BY <1>1, <2>2, <2>3 DEF Forwarded
  <1>2. ASSUME NEW k \in Conns \ K
        PROVE  /\ t[k] = "queued" => \E x \in DOMAIN backlog'[k.to] : backlog'[k.to][x] = k
               /\ t[k] \in Seated => k.to # n
               /\ Dialling(s, t, k) => k.from # n
    <2>1. t[k] = "queued" => \E x \in DOMAIN backlog'[k.to] : backlog'[k.to][x] = k
      <3> SUFFICES ASSUME t[k] = "queued"
                   PROVE  \E x \in DOMAIN backlog'[k.to] : backlog'[k.to][x] = k
        OBVIOUS
      <3>1. Link(s, t, k) /\ k.to \in Node
        BY Attached, ConnType
      <3>2. \E x \in DOMAIN backlog[k.to] : backlog[k.to][x] = k
        BY <3>1 DEF Link, Seat
      <3> QED BY <3>1, <3>2
    <2>2. t[k] \in Seated => k.to # n
      BY Attached
    <2>3. Dialling(s, t, k) => k.from # n
      BY Attached
    <2> QED BY <2>1, <2>2, <2>3
  <1> QED BY <1>1, <1>2 DEF Moves

-----------------------------------------------------------------------------
(* A step that opens no connection and leaves every request where it is *)

\* No connection comes up, and none reaches or leaves the stages that the files hang on.
Steady(t, t2) ==
    \A k \in Conns : t2[k] # t[k] =>
      /\ t[k] \notin {"none", "fanout", "stored"} /\ t2[k] \notin {"none", "fanout", "stored"}

\* A step of node n that opens no connection and keeps the classes: requests, shelves, the index's work.
LEMMA RequestsKept ==
    ASSUME NEW s \in Stories, NEW t, NEW t2, NEW n, Explains(s, t), Elsewhere(n),
           \A k \in Conns : Alike(s, t[k], t2[k], k), Steady(t, t2),
           client' = client, got' = got, at' = at, files' = files, complete' = complete,
           \A k \in Conns : k.kind = "relay" /\ t[k] \in {"asking", "asked", "refused"} =>
                              wire'[k].down = wire[k].down,
           pc[n] \in Collecting => pc'[n] \in Collecting /\ ms'[n] = ms[n]
    PROVE  /\ \A c \in Client : Request(s, t2, c)'
           /\ \A k \in Conns : t2[k] # "none" => Bound(s, t2, k)
           /\ Numbering(s, t2)'
  <1>1. /\ \A c \in Client : Request(s, t, c)
        /\ Numbering(s, t)
    BY DEF Explains
  <1>2. ASSUME NEW c \in Client PROVE Request(s, t2, c)'
    <2>1. LineOf(s, c) \in Conns /\ RelayOf(s, c) \in Conns /\ RelayOf(s, c).kind = "relay"
      BY ConnsOf
    <2>2. \A k \in Conns : t[k] = "stored" => t2[k] = "stored"
      BY DEF Steady
    <2>3. CASE t[LineOf(s, c)] = "collect"
      <3>1. s.home[c] \in Node
        BY StoryType
      <3>2. client[c] # "off"
        BY <2>1, <2>3, Attached, ConnsOf
      <3>3. pc[s.home[c]] \in Collecting
        BY <1>1, <2>3, <3>2 DEF Request, Tally
      <3>4. pc'[s.home[c]] \in Collecting /\ ms'[s.home[c]] = ms[s.home[c]]
        BY <3>1, <3>3 DEF Elsewhere
      <3> QED BY <1>1, <2>1, <2>2, <3>4, RequestFrame
    <2>4. CASE t[LineOf(s, c)] # "collect"
      BY <1>1, <2>1, <2>2, <2>4, RequestFrame
    <2> QED BY <2>3, <2>4
  <1>3. ASSUME NEW k \in Conns, t2[k] # "none" PROVE Bound(s, t2, k)
    <2>1. t[k] # "none"
      BY <1>3 DEF Steady
    <2>2. Bound(s, t, k) /\ k.c \in Client
      BY <2>1, Attached, ConnType
    <2>3. LineOf(s, k.c) \in Conns /\ RelayOf(s, k.c) \in Conns
      BY <2>2, ConnsOf
    <2>4. /\ Granted(s, t2, k.c) <=> Granted(s, t, k.c)
          /\ Numbered(s, t2, k.c) <=> Numbered(s, t, k.c)
      BY <2>2, <2>3, JobFrame
    <2> QED BY <2>2, <2>4 DEF Bound
  <1>4. Numbering(s, t2)'
    <2>1. \A k \in Conns : t2[k] \in {"fanout", "stored"} <=> t[k] \in {"fanout", "stored"}
      BY DEF Steady
    <2> QED BY <1>1, <2>1, NumberingFrame
  <1> QED BY <1>2, <1>3, <1>4

LEMMA ShelvesKept ==
    ASSUME NEW s \in Stories, NEW t, NEW t2, Explains(s, t), Steady(t, t2),
           files' = files, fs' = fs, todo' = todo \/ \A k \in Conns : t[k] # "fanout",
           \A k \in Conns : k.kind = "store" => (t2[k] = "over" <=> t[k] = "over")
    PROVE  Shelves(s, t2)'
  <1>1. Numbering(s, t) /\ Shelves(s, t)
    BY DEF Explains
  <1>2. ASSUME NEW c \in Client, Numbered(s, t, c) PROVE Left(s, t2, c)' = Left(s, t, c)
    <2>1. Job(s, c) \in Conns
      BY ConnsOf
    <2>2. t2[Job(s, c)] = "stored" <=> t[Job(s, c)] = "stored"
      BY <2>1 DEF Steady
    <2> QED BY <1>2, <2>1, <2>2 DEF Left, Numbered
  <1> QED BY <1>1, <1>2, ShelvesFrame

LEMMA IndexKept ==
    ASSUME NEW s \in Stories, NEW t, NEW t2, Explains(s, t), Steady(t, t2),
           \A p \in {"ask", "fanout"} : Working(p)' =>
              /\ Working(p) /\ fd'[Index] = fd[Index] /\ ms'[Index] = ms[Index] /\ todo' = todo
              /\ pc'[Index] = "call" => pc[Index] = "call" /\ call'[Index].conn = call[Index].conn,
           \A k \in Conns : t[k] = "asking" => t2[k] = "asking"
    PROVE  Inquiry(s, t2)' /\ Handout(s, t2)'
  <1>1. Inquiry(s, t) /\ Handout(s, t) /\ todo \in Seq(Pointer)
    BY DEF Explains, Typed
  <1>2. Inquiry(s, t2)'
    <2>1. \A k \in Conns : k.kind \in {"ask", "deliver"} /\ t[k] = "none" => t2[k] = "none"
      BY DEF Steady
    <2> QED BY <1>1, <2>1, InquiryFrame
  <1>3. Handout(s, t2)'
    <2>1. \A k \in Conns : t[k] = "fanout" => t2[k] = "fanout"
      BY DEF Steady
    <2>2. \A k \in Conns : k.kind = "store" => (t2[k] = "none" <=> t[k] = "none")
      BY DEF Steady
    <2> QED BY <1>1, <2>1, <2>2, HandoutFrame
  <1> QED BY <1>2, <1>3

\* A step of a node that is not the index, or of the index outside its work.
LEMMA IndexAside ==
    ASSUME NEW s \in Stories, NEW t, NEW t2, NEW n, Explains(s, t), Steady(t, t2), Elsewhere(n),
           todo' = todo, n = Index => ~Working("ask")' /\ ~Working("fanout")',
           \A k \in Conns : t[k] = "asking" => t2[k] = "asking"
    PROVE  Inquiry(s, t2)' /\ Handout(s, t2)'
  <1>1. ASSUME NEW p \in {"ask", "fanout"}, Working(p)'
        PROVE  /\ Working(p) /\ fd'[Index] = fd[Index] /\ ms'[Index] = ms[Index] /\ todo' = todo
               /\ pc'[Index] = "call" => pc[Index] = "call" /\ call'[Index].conn = call[Index].conn
    <2>1. n # Index /\ Index \in Node
      BY <1>1, ParameterFacts
    <2> QED BY <1>1, <2>1 DEF Elsewhere, Working
  <1> QED BY <1>1, IndexKept

-----------------------------------------------------------------------------
(* Putting the parts together *)

\* The parts of the explanation of the next state, put together.
LEMMA Together ==
    ASSUME NEW s \in Stories, NEW t, NEW t2, NEW n, NEW K, Explains(s, t),
           Moves(s, t, t2, n, K), Ripple(s, t, t2, n),
           Typed', DOMAIN wire' = {k \in Conns : t2[k] # "none"}, Queues(t2)',
           \A k \in Conns : k \in K /\ t2[k] # "none" => client'[k.c] # "off" /\ Link(s, t2, k)',
           \A k \in Conns : t2[k] # "none" => Bound(s, t2, k),
           n \in Node => Thread(s, t2, n)',
           \A c \in Client : Request(s, t2, c)',
           Inquiry(s, t2)', Handout(s, t2)', Numbering(s, t2)', Shelves(s, t2)'
    PROVE  Explains(s, t2)'
  <1>1. Links(s, t) /\ \A m \in Node : Thread(s, t, m)
    BY DEF Explains
  <1>2. Links(s, t2)'
    <2> SUFFICES ASSUME NEW k \in Conns, t2[k] # "none"
                 PROVE  client'[k.c] # "off" /\ Link(s, t2, k)' /\ Bound(s, t2, k)
      BY DEF Links
    <2>1. k \notin K => client'[k.c] # "off" /\ Link(s, t2, k)'
      BY <1>1, LinksFrame
    <2> QED BY <2>1
  <1>3. ASSUME NEW m \in Node PROVE Thread(s, t2, m)'
    <2>1. Elsewhere(n)
      BY DEF Moves
    <2>2. m # n => Thread(s, t2, m)'
      BY <1>1, <2>1, ThreadFrame
    <2> QED BY <2>2
  <1> QED BY <1>2, <1>3 DEF Explains

\* A listener's queue: unchanged, and with one connection more.
LEMMA QueuesKept ==
    ASSUME NEW t, NEW t2, Queues(t), backlog' = backlog,
           \A k \in Conns : t[k] = "queued" => t2[k] = "queued"
    PROVE  Queues(t2)'
  BY DEF Queues

\* Connection k is put into the queue of its far end: all that was in a queue stays in it.
Pushes(k) == backlog' = [backlog EXCEPT ![k.to] = Append(@, k)]
QueuedMore(k) ==
    /\ \A m \in Node : \A x \in DOMAIN backlog[m] :
         \E y \in DOMAIN backlog'[m] : backlog'[m][y] = backlog[m][x]
    /\ \E y \in DOMAIN backlog'[k.to] : backlog'[k.to][y] = k

LEMMA QueuesPush ==
    ASSUME NEW t, NEW t2, Queues(t), DOMAIN backlog = Node, NEW k \in Conns,
           Pushes(k), t[k] # "queued", t2[k] = "queued",
           \A x \in Conns : t[x] = "queued" => t2[x] = "queued"
    PROVE  Queues(t2)' /\ DOMAIN backlog' = Node /\ QueuedMore(k)
  <1>0. backlog' = [backlog EXCEPT ![k.to] = Append(@, k)]
    BY DEF Pushes
  <1>1. k.to \in Node
    BY ConnType
  <1>2. ASSUME NEW m \in Node
        PROVE  /\ backlog'[m] = IF m = k.to THEN Append(backlog[m], k) ELSE backlog[m]
               /\ backlog[m] \in Seq(Conns)
               /\ \A x \in DOMAIN backlog[m] : backlog[m][x].to = m /\ t[backlog[m][x]] = "queued"
               /\ \A x, y \in DOMAIN backlog[m] : backlog[m][x] = backlog[m][y] => x = y
    BY <1>0 DEF Queues
  <1>3. DOMAIN backlog' = Node
    BY <1>0
  <1>4. ASSUME NEW m \in Node
        PROVE  /\ backlog'[m] \in Seq(Conns)
               /\ \A x \in DOMAIN backlog'[m] : backlog'[m][x].to = m /\ t2[backlog'[m][x]] = "queued"
               /\ \A x, y \in DOMAIN backlog'[m] : backlog'[m][x] = backlog'[m][y] => x = y
               /\ \A x \in DOMAIN backlog[m] :
                    \E y \in DOMAIN backlog'[m] : backlog'[m][y] = backlog[m][x]
    <2>1. CASE m # k.to
      BY <1>2, <2>1
    <2>2. CASE m = k.to
      <3> DEFINE q == backlog[m]
                 r == backlog'[m]
      <3>1. /\ r \in Seq(Conns) /\ Len(r) = Len(q) + 1 /\ r[Len(r)] = k /\ Len(q) \in Nat
            /\ \A x \in 1 .. Len(q) : r[x] = q[x]
            /\ DOMAIN q = 1 .. Len(q) /\ DOMAIN r = 1 .. Len(r)
        <4>1. r = Append(q, k) /\ q \in Seq(Conns)
          BY <1>2, <2>2
        <4> HIDE DEF q, r
        <4> QED BY <4>1
      <3>2. \A x \in 1 .. Len(q) : q[x] \in Conns /\ q[x] # k
        BY <1>2, <3>1
      <3> HIDE DEF q, r
      <3>3. \A x \in 1 .. Len(r) : x \in 1 .. Len(q) \/ x = Len(r)
        BY <3>1
      <3>4. /\ \A x \in DOMAIN r : r[x].to = m /\ t2[r[x]] = "queued"
            /\ \A x, y \in DOMAIN r : r[x] = r[y] => x = y
            /\ \A x \in DOMAIN q : \E y \in DOMAIN r : r[y] = q[x]
        <4>1. \A x \in DOMAIN q : q[x].to = m /\ t2[q[x]] = "queued"
          BY <1>2, <3>1, <3>2 DEF q
        <4>2. \A x, y \in DOMAIN q : q[x] = q[y] => x = y
          BY <1>2 DEF q
        <4>3. \A x \in DOMAIN r : r[x].to = m /\ t2[r[x]] = "queued"
          BY <2>2, <3>1, <3>3, <4>1
        <4>4. ASSUME NEW x \in DOMAIN r, NEW y \in DOMAIN r, r[x] = r[y] PROVE x = y
          <5>1. x \in 1 .. Len(q) \/ x = Len(r)
            BY <3>1, <3>3
          <5>2. y \in 1 .. Len(q) \/ y = Len(r)
            BY <3>1, <3>3
          <5> QED BY <3>1, <3>2, <4>2, <4>4, <5>1, <5>2
        <4>5. \A x \in DOMAIN q : \E y \in DOMAIN r : r[y] = q[x]
          BY <3>1
        <4> QED BY <4>3, <4>4, <4>5
      <3> QED BY <3>1, <3>4 DEF q, r
    <2> QED BY <2>1, <2>2
  <1>5. \E y \in DOMAIN backlog'[k.to] : backlog'[k.to][y] = k
    <2>1. backlog'[k.to] = Append(backlog[k.to], k) /\ backlog[k.to] \in Seq(Conns)
      BY <1>1, <1>2
    <2> QED BY <2>1
  <1> QED BY <1>3, <1>4, <1>5 DEF Queues, QueuedMore

-----------------------------------------------------------------------------
(* The two ends of a connection *)

\* The two ends of a connection differ, and the caller of a call is a node.
LEMMA CallEnds ==
    ASSUME NEW s \in Stories, NEW t, NEW k \in Conns, Shape(s, t, k)
    PROVE  /\ IsCall(s, k) => k.from \in Node
           /\ k.from # k.to
           /\ k.kind = "client" => k = LineOf(s, k.c) /\ k.from = Nowhere /\ k.to = s.home[k.c]
           /\ k.kind = "relay" => k = RelayOf(s, k.c) /\ k.from = s.home[k.c] /\ k.to = Index
           /\ k.kind # "client" => k.from \in Node
  <1>1. k.c \in Client /\ s.home[k.c] \in Node /\ Index \in Node /\ k.to \in Node /\ Nowhere \notin Node
    BY ConnType, StoryType, ParameterFacts
  <1>2. k.kind = "client" => k = LineOf(s, k.c) /\ k.from = Nowhere /\ k.to = s.home[k.c]
    BY <1>1, ConnsOf DEF Shape
  <1>3. k.kind = "relay" => /\ k = RelayOf(s, k.c) /\ k.from = s.home[k.c] /\ k.to = Index
                            /\ s.home[k.c] # Index
    BY <1>1, ConnsOf DEF Shape
  <1>4. k.kind = "ask" => k.from = Index /\ k.to = k.i /\ k.i # Index
    BY <1>1, ConnsOf DEF Shape
  <1>5. k.kind = "deliver" => /\ k.from = (IF k.i = s.home[k.c] THEN Index ELSE k.i)
                              /\ k.to = s.home[k.c] /\ s.home[k.c] # Index /\ k.i \in Node
    BY <1>1, ConnsOf, StoryType, PartsFacts DEF Shape
  <1>6. k.kind = "store" => k.from = Index /\ k.to # Index
    BY <1>1, ConnFacts DEF Shape, StoreOf
  <1>7. k.kind \in Kinds
    BY ConnType
  <1> QED BY <1>1, <1>2, <1>3, <1>4, <1>5, <1>6, <1>7 DEF IsCall, Kinds

\* A step of the node at the far end does not change what the caller is waiting for.
LEMMA CallerWaits ==
    ASSUME NEW s \in Stories, NEW t, NEW t2, NEW k \in Conns, Shape(s, t, k), Caller(s, t, k),
           Elsewhere(k.to),
           Dialling(s, t2, k) => Dialling(s, t, k) /\ Remaining(s, t2, k) = Remaining(s, t, k)
    PROVE  Caller(s, t2, k)'
  <1> SUFFICES ASSUME Dialling(s, t2, k)
               PROVE  /\ pc'[k.from] = "call"
                      /\ call'[k.from] = [conn |-> k, script |-> Remaining(s, t2, k),
                                          confirm |-> k.kind \in {"ask", "deliver"}, ret |-> Return(k)]
    BY DEF Caller
  <1>1. k.from \in Node \ {k.to}
    BY CallEnds DEF Dialling
  <1>2. pc'[k.from] = pc[k.from] /\ call'[k.from] = call[k.from]
    BY <1>1 DEF Elsewhere
  <1> QED BY <1>2 DEF Caller

\* What n knows of the connection it serves.
LEMMA Served ==
    ASSUME NEW s \in Stories, NEW t, Explains(s, t), NEW n \in Node, NEW S, Serves(t, n, S),
           "none" \notin S
    PROVE  /\ fd[n] \in Conns /\ fd[n].to = n /\ t[fd[n]] \in S /\ t[fd[n]] # "none"
           /\ Link(s, t, fd[n]) /\ fd[n] \in DOMAIN wire /\ DOMAIN wire[fd[n]] = {"up", "down"}
           /\ client[fd[n].c] # "off" /\ Queue(fd[n], n) = wire[fd[n]].up
  <1>1. fd[n] \in Conns /\ fd[n].to = n /\ t[fd[n]] \in S /\ t[fd[n]] # "none"
    BY DEF Serves
  <1>2. /\ Link(s, t, fd[n]) /\ fd[n] \in DOMAIN wire /\ DOMAIN wire[fd[n]] = {"up", "down"}
        /\ client[fd[n].c] # "off"
    BY <1>1, Attached
  <1>3. Queue(fd[n], n) = wire[fd[n]].up
    BY <1>1 DEF Queue, In
  <1> QED BY <1>1, <1>2, <1>3

\* One connection goes to another stage.
LEMMA Advance ==
    ASSUME NEW t \in [Conns -> Stage], NEW k \in Conns, NEW v \in Stage
    PROVE  \E t2 \in [Conns -> Stage] : t2[k] = v /\ SameBut(t, t2, k)
  <1> DEFINE u == [t EXCEPT ![k] = v]
  <1>1. u \in [Conns -> Stage] /\ u[k] = v /\ SameBut(t, u, k)
    BY DEF SameBut
  <1> HIDE DEF u
  <1> QED BY <1>1

\* A step of n that moves one connection on, within its class of stages.
LEMMA SoftMove ==
    ASSUME NEW s \in Stories, NEW t \in [Conns -> Stage], NEW t2 \in [Conns -> Stage], Explains(s, t),
           NEW n \in Node, NEW k \in Conns, NEW K, Elsewhere(n), Typed',
           UNCHANGED <<client, got, at, files, complete, fs, todo>>,
           DOMAIN wire' = DOMAIN wire, \A y \in DOMAIN wire \ K : wire'[y] = wire[y],
           \A y \in DOMAIN wire :
             /\ y.kind = "client" /\ wire[y].up = <<>> => wire'[y].up = <<>>
             /\ y.kind = "relay" /\ t[y] \in {"asking", "asked", "refused"} => wire'[y].down = wire[y].down,
           Queues(t2)',
           \A m \in Node : \A x \in DOMAIN backlog[m] :
              backlog[m][x] \notin K => \E y \in DOMAIN backlog'[m] : backlog'[m][y] = backlog[m][x],
           SameBut(t, t2, k), k \in K,
           t[k] \notin {"none", "fanout", "stored", "asking", "over"},
           t2[k] \notin {"none", "fanout", "stored"}, k.kind = "store" => t2[k] # "over",
           Alike(s, t[k], t2[k], k),
           pc[n] \notin {"idle", "collect"} => fd[n] \in K, pc[n] = "call" => call[n].conn \in K,
           pc[n] \in Collecting => pc'[n] \in Collecting /\ ms'[n] = ms[n],
           Inquiry(s, t2)' /\ Handout(s, t2)',
           t2[k] # t[k] /\ k.to # n => Pushed(t[k], t2[k]),
           k.from # n => (Dialling(s, t, k) => Dialling(s, t2, k)),
           \A x \in Conns : x \in K /\ t2[x] # "none" => Link(s, t2, x)',
           Thread(s, t2, n)'
    PROVE  Explains(s, t2)'
  <1>1. DOMAIN wire = {x \in Conns : t[x] # "none"}
    BY DEF Explains
  <1>2. \A x \in Conns \ {k} : t2[x] = t[x]
    BY DEF SameBut
  <1>3. DOMAIN wire' = {x \in Conns : t2[x] # "none"}
    BY <1>1, <1>2
  <1>4. \A x \in Conns : Alike(s, t[x], t2[x], x)
    BY <1>2 DEF Alike
  <1>5. Steady(t, t2)
    BY <1>2 DEF Steady
  <1>6. \A x \in Conns : x.kind = "relay" /\ t[x] \in {"asking", "asked", "refused"} =>
                           wire'[x].down = wire[x].down
    BY <1>1
  <1>7. /\ \A c \in Client : Request(s, t2, c)'
        /\ \A x \in Conns : t2[x] # "none" => Bound(s, t2, x)
        /\ Numbering(s, t2)'
    BY <1>4, <1>5, <1>6, RequestsKept
  <1>8. Shelves(s, t2)'
    <2>1. \A x \in Conns : x.kind = "store" => (t2[x] = "over" <=> t[x] = "over")
      BY <1>2
    <2> QED BY <1>5, <2>1, ShelvesKept
  <1>9. Ripple(s, t, t2, n)
    BY <1>2 DEF Ripple
  <1>10. Moves(s, t, t2, n, K)
    <2>1. \A x \in Conns \ K : t2[x] = t[x] /\ (t[x] # "none" => wire'[x] = wire[x])
      BY <1>1, <1>2
    <2>2. ASSUME NEW c \in Client, Forwarded(s, c)
          PROVE  wire'[LineOf(s, c)].up = <<>>
      <3>1. LineOf(s, c) \in Conns /\ LineOf(s, c).kind = "client"
        BY ConnsOf
      <3>2. t[LineOf(s, c)] # "none"
        BY <2>2 DEF Forwarded, Explains, Request, Progress
      <3> QED BY <1>1, <2>2, <3>1, <3>2 DEF Forwarded
    <2> QED BY <2>1, <2>2, NodeMoves
  <1>11. \A x \in Conns : x \in K /\ t2[x] # "none" => client'[x.c] # "off" /\ Link(s, t2, x)'
    <2>1. \A x \in Conns : t2[x] # "none" => t[x] # "none"
      BY <1>2
    <2>2. \A x \in Conns : t[x] # "none" => client[x.c] # "off"
      BY Attached
    <2> QED BY <2>1, <2>2
  <1> QED BY <1>3, <1>7, <1>8, <1>9, <1>10, <1>11, Together

\* The same, when nothing else happens on the wires.
LEMMA SoftStep ==
    ASSUME NEW s \in Stories, NEW t \in [Conns -> Stage], NEW t2 \in [Conns -> Stage], Explains(s, t),
           NEW n \in Node, NEW k \in Conns, NEW K, k \in K, Elsewhere(n), Typed',
           UNCHANGED <<client, got, at, files, complete, fs, todo, backlog>>,
           SameBut(wire, wire', k), SameBut(t, t2, k),
           t[k] \notin {"none", "fanout", "stored", "queued", "asking", "refused", "over"},
           t[k] = "asked" => k.kind = "client",
           t2[k] \notin {"none", "fanout", "stored"}, k.kind = "store" => t2[k] # "over",
           Alike(s, t[k], t2[k], k),
           pc[n] \notin {"idle", "collect"} => fd[n] \in K, pc[n] = "call" => call[n].conn \in K,
           k.kind = "client" /\ wire[k].up = <<>> => wire'[k].up = <<>>,
           pc[n] \in Collecting => pc'[n] \in Collecting /\ ms'[n] = ms[n],
           Inquiry(s, t2)' /\ Handout(s, t2)',
           t2[k] # t[k] /\ k.to # n => Pushed(t[k], t2[k]),
           k.from # n => (Dialling(s, t, k) => Dialling(s, t2, k)),
           \A x \in Conns : x \in K /\ t2[x] # "none" => Link(s, t2, x)',
           Thread(s, t2, n)'
    PROVE  Explains(s, t2)'
  <1>1. DOMAIN wire' = DOMAIN wire /\ \A y \in DOMAIN wire \ {k} : wire'[y] = wire[y]
    BY DEF SameBut
  <1>2. \A y \in DOMAIN wire \ K : wire'[y] = wire[y]
    BY <1>1
  <1>3. \A y \in DOMAIN wire :
          /\ y.kind = "client" /\ wire[y].up = <<>> => wire'[y].up = <<>>
          /\ y.kind = "relay" /\ t[y] \in {"asking", "asked", "refused"} => wire'[y].down = wire[y].down
    BY <1>1
  <1>4. Queues(t2)'
    <2>1. Queues(t) /\ \A x \in Conns : t[x] = "queued" => t2[x] = "queued"
      BY DEF Explains, SameBut
    <2> QED BY <2>1, QueuesKept
  <1>5. \A m \in Node : \A x \in DOMAIN backlog[m] :
           backlog[m][x] \notin K => \E y \in DOMAIN backlog'[m] : backlog'[m][y] = backlog[m][x]
    OBVIOUS
  <1>6. Explains(s, t)
    OBVIOUS
  <1> QED BY <1>1, <1>2, <1>3, <1>4, <1>5, <1>6, SoftMove

\* A soft step that is not about the index's own request leaves its inquiry and its handout.
LEMMA SoftAside ==
    ASSUME NEW s \in Stories, NEW t \in [Conns -> Stage], NEW t2 \in [Conns -> Stage], Explains(s, t),
           NEW n \in Node, NEW k \in Conns, Elsewhere(n), SameBut(t, t2, k), todo' = todo,
           t[k] \notin {"none", "fanout", "stored", "asking"}, t2[k] \notin {"none", "fanout", "stored"},
           pc'[n] \notin {"ask", "fanout", "call"}
    PROVE  Inquiry(s, t2)' /\ Handout(s, t2)'
  <1>1. \A x \in Conns \ {k} : t2[x] = t[x]
    BY DEF SameBut
  <1>2. Steady(t, t2)
    BY <1>1 DEF Steady
  <1>3. \A x \in Conns : t[x] = "asking" => t2[x] = "asking"
    BY <1>1
  <1>4. n = Index => ~Working("ask")' /\ ~Working("fanout")'
    BY DEF Working
  <1> QED BY <1>2, <1>3, <1>4, IndexAside

-----------------------------------------------------------------------------
(* Receive *)

\* server_recv: the node reads the first packet of a connection, and what came with it.
LEMMA ReceiveStep ==
    ASSUME NEW s \in Stories, NEW t \in [Conns -> Stage], Explains(s, t), NEW n \in Node, Receive(n)
    PROVE  \E t2 \in [Conns -> Stage] : Explains(s, t2)'
  <1>1. /\ Thread(s, t, n) /\ Typed /\ Queues(t) /\ DOMAIN wire = {x \in Conns : t[x] # "none"}
    BY DEF Explains
  <1>2. /\ pc[n] = "receive" /\ pc' = [pc EXCEPT ![n] = "packet"]
        /\ UNCHANGED <<backlog, fd, client_fd, ms, call, todo, data, user, strayed>>
    BY DEF Receive, At, Goto
  <1>3. Serves(t, n, {"hello", "said", "receive", "lost"}) /\ fd[n].kind # "deliver"
    BY <1>1, <1>2 DEF Thread
  <1>4. PICK k \in Conns :
          /\ fd[n] = k /\ k.kind # "deliver" /\ k.to = n
          /\ t[k] \in {"hello", "said", "receive", "lost"} /\ t[k] # "none"
          /\ Link(s, t, k) /\ k \in DOMAIN wire /\ DOMAIN wire[k] = {"up", "down"}
          /\ client[k.c] # "off" /\ Queue(k, n) = wire[k].up
    <2>1. "none" \notin {"hello", "said", "receive", "lost"}
      OBVIOUS
    <2> QED BY <1>3, <2>1, Served
  <1>5. PICK j \in 1 .. Len(wire[k].up) :
          /\ wire' = Read(wire, k, n, j) /\ merged' \in BOOLEAN
          /\ packet' = [packet EXCEPT ![n] = SubSeq(wire[k].up, 1, j)]
    <2>1. merged \in BOOLEAN
      BY <1>1 DEF Typed
    <2> QED BY <1>4, <2>1 DEF Receive, Recv, RecvCut
  <1>6. /\ SameBut(wire, wire', k)
        /\ wire'[k].up = SubSeq(wire[k].up, j + 1, Len(wire[k].up)) /\ wire'[k].down = wire[k].down
        /\ DOMAIN wire'[k] = {"up", "down"}
    <2>1. k \in DOMAIN wire /\ DOMAIN wire[k] = {"up", "down"} /\ n = k.to
      BY <1>4
    <2>2. wire' = Read(wire, k, n, j)
      BY <1>5
    <2>3. Flows(wire, wire', k, SubSeq(wire[k].up, j + 1, Len(wire[k].up)), wire[k].down)
      BY <2>1, <2>2, ServerReads
    <2> QED BY <2>3 DEF Flows
  <1>7. /\ DOMAIN pc = Node /\ DOMAIN packet = Node /\ pc'[n] = "packet" /\ DOMAIN pc' = Node
        /\ packet'[n] = SubSeq(wire[k].up, 1, j) /\ DOMAIN packet' = Node
    BY <1>1, <1>2, <1>5 DEF Typed
  <1>8. PICK t2 \in [Conns -> Stage] :
          /\ t2[k] = IF t[k] = "lost" THEN "lostpacket" ELSE "packet"
          /\ SameBut(t, t2, k)
    <2>1. "lostpacket" \in Stage /\ "packet" \in Stage
      BY DEF Stage, CallStages, WriteRelayStages
    <2>2. CASE t[k] = "lost"
      BY <2>1, <2>2, Advance
    <2>3. CASE t[k] # "lost"
      BY <2>1, <2>3, Advance
    <2> QED BY <2>2, <2>3
  <1>9. Elsewhere(n)
    BY <1>1, <1>2, <1>5 DEF Elsewhere, Typed
  <1>10. /\ Shape(s, t, k) /\ Seat(t, k) /\ Caller(s, t, k)
         /\ CallTalk(s, t, k) /\ LineTalk(s, t, k) /\ RelayTalk(s, t, k)
    BY <1>4 DEF Link
  <1>11. k.kind # "client" /\ k.kind # "deliver"
    BY <1>4, <1>10 DEF Shape, LineStages
  <1>12. IsCall(s, k) <=> ~(k.kind = "relay" /\ s.op[k.c] = "write")
    BY <1>4, <1>10, <1>11, ConnType DEF IsCall, Shape, Kinds
  <1>14. IsCall(s, k) => t[k] = "said" /\ wire[k].up = <<First(s, k)>> /\ wire[k].down = <<>>
    <2> SUFFICES ASSUME IsCall(s, k)
                 PROVE  t[k] = "said" /\ wire[k].up = <<First(s, k)>> /\ wire[k].down = <<>>
      OBVIOUS
    <2>1. t[k] \in {"hello", "said"}
      BY <1>4, <1>10, <1>11 DEF Shape, CallStages, ReadRelayStages, IsCall
    <2>2. t[k] = "hello" => wire[k].up = <<>>
      BY <1>10 DEF CallTalk, Has
    <2>3. t[k] # "hello"
      BY <1>5, <2>2
    <2> QED BY <1>10, <2>1, <2>3 DEF CallTalk, Has
  <1>13. Link(s, t2, k)'
    <2>1. Shape(s, t2, k)
      BY <1>4, <1>8, <1>10, <1>11 DEF Shape, CallStages, ReadRelayStages, WriteRelayStages
    <2>2. Seat(t2, k)'
      BY <1>2, <1>4, <1>7, <1>8 DEF Seat
    <2>3. Caller(s, t2, k)'
      <3>1. Dialling(s, t2, k) => Dialling(s, t, k) /\ Remaining(s, t2, k) = Remaining(s, t, k)
        <4>1. Dialling(s, t2, k) => IsCall(s, k)
          BY DEF Dialling
        <4> QED BY <1>8, <1>14, <4>1 DEF Dialling, Remaining
      <3> QED BY <1>4, <1>9, <1>10, <3>1, CallerWaits
    <2>4. LineTalk(s, t2, k)'
      BY <1>11 DEF LineTalk
    <2>5. CASE IsCall(s, k)
      <3>3. wire'[k].up = <<>> /\ wire'[k].down = <<>> /\ packet'[n] = <<First(s, k)>>
        <4>1. Takes(wire[k].up, j, <<First(s, k)>>, <<>>)
          BY <1>14, <2>5, TakesOne
        <4> QED BY <1>6, <1>7, <1>14, <2>5, <4>1 DEF Takes
      <3>4. CallTalk(s, t2, k)'
        BY <1>4, <1>8, <1>14, <2>5, <3>3 DEF CallTalk, Has
      <3>5. RelayTalk(s, t2, k)'
        BY <1>12, <2>5 DEF RelayTalk
      <3> QED BY <1>6, <2>1, <2>2, <2>3, <2>4, <3>4, <3>5 DEF Link
    <2>6. CASE ~IsCall(s, k)
      <3> DEFINE C == Creation(s, k.c)
                 B == Bytes(s, k.c)
      <3>1. t[k] \in {"receive", "lost"}
        BY <1>4, <1>10, <1>12, <2>6 DEF Shape, WriteRelayStages
      <3>2. CallTalk(s, t2, k)'
        BY <2>6 DEF CallTalk
      <3>3. Forwarded(s, k.c) => Forwarded(s, k.c)'
        <4>1. k.c \in Client /\ LineOf(s, k.c) # k
          BY <1>4, <1>11, ConnType, ConnsOf
        <4>2. t[LineOf(s, k.c)] # "none"
          BY <1>4, <4>1 DEF Explains, Request, Progress
        <4>3. LineOf(s, k.c) \in DOMAIN wire
          BY <1>1, <4>1, <4>2, ConnsOf
        <4> QED BY <1>2, <1>6, <4>1, <4>3 DEF Forwarded, user, SameBut
      <3>4. CASE t[k] = "receive"
        <4>1. wire[k].up = <<C>> \/ (wire[k].up = <<C, B>> /\ Forwarded(s, k.c))
          BY <1>10, <1>12, <2>6, <3>4 DEF RelayTalk
        <4>2. ASSUME wire[k].up = <<C>> PROVE RelayTalk(s, t2, k)'
          <5>1. wire'[k].up = <<>> /\ packet'[n] = <<C>>
            BY <1>5, <1>6, <1>7, <4>2, Reading1, Lengths
          <5> QED BY <1>4, <1>8, <3>4, <5>1 DEF RelayTalk, Held
        <4>3. ASSUME wire[k].up = <<C, B>>, Forwarded(s, k.c) PROVE RelayTalk(s, t2, k)'
          <5>1. \/ wire'[k].up = <<B>> /\ packet'[n] = <<C>>
                \/ wire'[k].up = <<>> /\ packet'[n] = <<C, B>>
            <6>1. Takes(wire[k].up, j, <<C>>, <<B>>) \/ Takes(wire[k].up, j, <<C, B>>, <<>>)
              BY <4>3, TakesTwo
            <6> QED BY <1>6, <1>7, <6>1 DEF Takes
          <5> QED BY <1>4, <1>8, <3>3, <3>4, <4>3, <5>1 DEF RelayTalk, Held
        <4>4. RelayTalk(s, t2, k)'
          BY <4>1, <4>2, <4>3
        <4> QED BY <1>6, <2>1, <2>2, <2>3, <2>4, <3>2, <4>4 DEF Link
      <3>5. CASE t[k] = "lost"
        <4>1. wire[k].up \in {<<B>>, <<Remnant>>, <<Remnant, B>>}
          BY <1>5, <1>10, <1>12, <2>6, <3>5, Lengths DEF RelayTalk
        <4>2. packet'[n] \in {<<B>>, <<Remnant>>, <<Remnant, B>>}
          <5>1. ASSUME NEW x, wire[k].up = <<x>> PROVE packet'[n] = <<x>>
            BY <1>5, <1>7, <5>1, Reading1, Lengths
          <5>2. ASSUME wire[k].up = <<Remnant, B>> PROVE packet'[n] \in {<<Remnant>>, <<Remnant, B>>}
            BY <1>7, <5>2, TakesTwo DEF Takes
          <5> QED BY <4>1, <5>1, <5>2
        <4>3. RelayTalk(s, t2, k)'
          BY <1>4, <1>8, <3>5, <4>2 DEF RelayTalk
        <4> QED BY <1>6, <2>1, <2>2, <2>3, <2>4, <3>2, <4>3 DEF Link
      <3> QED BY <3>1, <3>4, <3>5
    <2> QED BY <2>5, <2>6
  <1>15. Typed'
    BY <1>1, <1>2, <1>5, <1>7 DEF Typed, data, user
  <1>16. Thread(s, t2, n)'
    <2>1. \A x \in Conns : /\ t[x] # "none" => t2[x] # "none"
                           /\ x.kind = "client" => t2[x] = t[x]
      BY <1>8, <1>11 DEF SameBut
    <2> QED BY <1>1, <1>2, <1>4, <1>7, <1>8, <2>1 DEF Thread, Serves, Position, Collecting
  <1>17. Inquiry(s, t2)' /\ Handout(s, t2)'
    BY <1>2, <1>4, <1>7, <1>8, <1>9, SoftAside
  <1>18. Alike(s, t[k], t2[k], k)
    <2>1. IsCall(s, k) => t[k] = "said" /\ t2[k] = "packet"
      BY <1>8, <1>14
    <2>2. ~IsCall(s, k) => /\ k.kind = "relay" /\ s.op[k.c] = "write"
                           /\ t[k] \in {"receive", "lost"} /\ t2[k] \in {"packet", "lostpacket"}
      BY <1>4, <1>8, <1>10, <1>12 DEF Shape, WriteRelayStages
    <2>3. k.kind \in {"relay", "ask", "store"}
      BY <1>11, ConnType DEF Kinds
    <2>4. k.kind = "relay" /\ IsCall(s, k) => s.op[k.c] = "read"
      BY DEF IsCall
    <2> QED BY <2>1, <2>2, <2>3, <2>4 DEF Alike, Within
  <1>19. k.from # n => (Dialling(s, t, k) => Dialling(s, t2, k))
    <2>1. k.kind = "relay" /\ t[k] = "said" => ~Dialling(s, t, k)
      BY DEF Dialling
    <2>2. Dialling(s, t, k) => IsCall(s, k)
      BY DEF Dialling
    <2> QED BY <1>8, <1>14, <2>1, <2>2 DEF Dialling
  <1>20. \A x \in Conns : x \in {k} /\ t2[x] # "none" => Link(s, t2, x)'
    BY <1>13
  <1> QED BY <1>2, <1>4, <1>6, <1>7, <1>8, <1>9, <1>11, <1>15, <1>16, <1>17, <1>18, <1>19, <1>20,
             SoftStep DEF data, user, Collecting

-----------------------------------------------------------------------------
(* The packet a node has in hand *)

Handles(s, t, n, k) ==
    /\ fd[n] = k /\ k \in Conns /\ k.to = n /\ t[k] \in {"packet", "lostpacket", "asked"}
    /\ Link(s, t, k) /\ k \in DOMAIN wire /\ DOMAIN wire[k] = {"up", "down"}
    /\ client[k.c] # "off"
    /\ t[k] = "asked" => k.kind = "client" /\ packet[n] = <<Ok>> /\ Got(n, "OK")
    /\ t[k] = "lostpacket" => k.kind = "relay" /\ s.op[k.c] = "write" /\ Got(n, "RAW")
    /\ t[k] = "packet" =>
         \/ k.kind = "client" /\ Taken(s, k) /\ Got(n, "CREATE_FILE")
         \/ /\ k.kind = "client" /\ Is(k, "asked", <<>>, <<>>)
            /\ packet[n] = <<Wish(s, k.c)>> /\ Got(n, "REQUEST_FILE")
         \/ k.kind = "relay" /\ s.op[k.c] = "write" /\ Held(s, k) /\ Got(n, "CREATE_FILE")
         \/ /\ k.kind = "relay" /\ s.op[k.c] = "read"
            /\ packet[n] = <<First(s, k)>> /\ Got(n, "REQUEST_FILE")
         \/ k.kind = "ask" /\ packet[n] = <<First(s, k)>> /\ Got(n, "REQUEST_FRAG")
         \/ k.kind = "store" /\ packet[n] = <<First(s, k)>> /\ Got(n, "STORE_FRAGMENT")

\* The packet of a node in SERVER_RECEIVED_PACKET is the one its connection's stage names.
LEMMA InHand ==
    ASSUME NEW s \in Stories, NEW t \in [Conns -> Stage], Explains(s, t), NEW n \in Node,
           pc[n] = "packet"
    PROVE  \E k \in Conns : Handles(s, t, n, k)
  <1> DEFINE k == fd[n]
  <1> DEFINE S == {"packet", "lostpacket", "asked"}
  <1>1. Serves(t, n, S) /\ (t[k] = "asked" => k.kind = "client" /\ packet[n] = <<Ok>>)
    BY DEF Explains, Thread
  <1>2. /\ k \in Conns /\ k.to = n /\ t[k] \in S
        /\ Link(s, t, k) /\ k \in DOMAIN wire /\ DOMAIN wire[k] = {"up", "down"}
        /\ client[k.c] # "off"
    <2>1. "none" \notin S
      OBVIOUS
    <2> QED BY <1>1, <2>1, Served
  <1>3. Shape(s, t, k) /\ CallTalk(s, t, k) /\ LineTalk(s, t, k) /\ RelayTalk(s, t, k)
    BY <1>2 DEF Link
  <1>4. \A a, b : Head(<<a>>) = a /\ Head(<<a, b>>) = a
    BY Reading1, Reading2
  <1>5. \A x \in Client : /\ Creation(s, x).type = "CREATE_FILE" /\ Bytes(s, x).type = "RAW"
                          /\ Wish(s, x).type = "REQUEST_FILE"
    BY PacketFacts DEF Creation, Bytes, Wish
  <1>6. /\ k.kind = "ask" => First(s, k).type = "REQUEST_FRAG"
        /\ k.kind = "store" => First(s, k).type = "STORE_FRAGMENT"
        /\ k.kind = "relay" => First(s, k).type = "REQUEST_FILE"
    BY PacketFacts DEF First
  <1>7. k.c \in Client /\ k.kind \in Kinds
    BY <1>2, ConnType
  <1>8. t[k] = "asked" => k.kind = "client" /\ packet[n] = <<Ok>> /\ Got(n, "OK")
    BY <1>1, <1>4, PacketFacts DEF Got
  <1>9. t[k] = "lostpacket" => k.kind = "relay" /\ s.op[k.c] = "write" /\ Got(n, "RAW")
    <2> SUFFICES ASSUME t[k] = "lostpacket" PROVE k.kind = "relay" /\ s.op[k.c] = "write" /\ Got(n, "RAW")
      OBVIOUS
    <2>1. k.kind = "relay" /\ s.op[k.c] = "write"
      BY <1>3, <1>7 DEF Shape, LineStages, CallStages, ReadRelayStages, Kinds
    <2>2. packet[n] \in {<<Bytes(s, k.c)>>, <<Remnant>>, <<Remnant, Bytes(s, k.c)>>}
      BY <1>2, <1>3, <2>1 DEF RelayTalk
    <2>3. Remnant.type = "RAW"
      BY PacketFacts DEF Remnant
    <2> QED BY <1>4, <1>5, <1>7, <2>1, <2>2, <2>3 DEF Got
  <1>10. ASSUME t[k] = "packet", k.kind = "client"
         PROVE  \/ k.kind = "client" /\ Taken(s, k) /\ Got(n, "CREATE_FILE")
                \/ /\ k.kind = "client" /\ Is(k, "asked", <<>>, <<>>)
                   /\ packet[n] = <<Wish(s, k.c)>> /\ Got(n, "REQUEST_FILE")
    <2>1. Taken(s, k) \/ (Is(k, "asked", <<>>, <<>>) /\ packet[n] = <<Wish(s, k.c)>>)
      BY <1>2, <1>3, <1>10 DEF LineTalk
    <2>2. Taken(s, k) => packet[n] = <<Creation(s, k.c)>> \/ packet[n] = <<Creation(s, k.c), Bytes(s, k.c)>>
      BY <1>2 DEF Taken
    <2>3. Taken(s, k) => Got(n, "CREATE_FILE")
      BY <1>4, <1>5, <1>7, <2>2 DEF Got
    <2>4. packet[n] = <<Wish(s, k.c)>> => Got(n, "REQUEST_FILE")
      BY <1>4, <1>5, <1>7 DEF Got
    <2> QED BY <1>10, <2>1, <2>3, <2>4
  <1>11. ASSUME t[k] = "packet", k.kind = "relay", s.op[k.c] = "write"
         PROVE  Held(s, k) /\ Got(n, "CREATE_FILE")
    <2>1. Held(s, k)
      BY <1>3, <1>11 DEF RelayTalk
    <2>2. packet[n] = <<Creation(s, k.c)>> \/ packet[n] = <<Creation(s, k.c), Bytes(s, k.c)>>
      BY <1>2, <2>1 DEF Held
    <2> QED BY <1>4, <1>5, <1>7, <2>1, <2>2 DEF Got
  <1>12. ASSUME t[k] = "packet", k.kind # "client", ~(k.kind = "relay" /\ s.op[k.c] = "write")
         PROVE  /\ packet[n] = <<First(s, k)>> /\ Head(packet[n]) = First(s, k)
                /\ k.kind = "relay" => s.op[k.c] = "read"
                /\ k.kind \in {"relay", "ask", "store"}
    <2>1. k.kind = "relay" => s.op[k.c] = "read"
      BY <1>3, <1>12 DEF Shape
    <2>2. k.kind \in {"relay", "ask", "store"}
      BY <1>3, <1>7, <1>12 DEF Shape, Kinds
    <2>3. IsCall(s, k)
      BY <2>1, <2>2 DEF IsCall
    <2>4. packet[n] = <<First(s, k)>>
      BY <1>2, <1>3, <1>12, <2>3 DEF CallTalk
    <2> QED BY <1>4, <2>1, <2>2, <2>4
  <1>13. k.kind = "relay" => s.op[k.c] \in {"read", "write"}
    BY <1>3 DEF Shape
  <1>14. t[k] = "packet" =>
                \/ k.kind = "client" /\ Taken(s, k) /\ Got(n, "CREATE_FILE")
                \/ /\ k.kind = "client" /\ Is(k, "asked", <<>>, <<>>)
                   /\ packet[n] = <<Wish(s, k.c)>> /\ Got(n, "REQUEST_FILE")
                \/ k.kind = "relay" /\ s.op[k.c] = "write" /\ Held(s, k) /\ Got(n, "CREATE_FILE")
                \/ /\ k.kind = "relay" /\ s.op[k.c] = "read"
                   /\ packet[n] = <<First(s, k)>> /\ Got(n, "REQUEST_FILE")
                \/ k.kind = "ask" /\ packet[n] = <<First(s, k)>> /\ Got(n, "REQUEST_FRAG")
                \/ k.kind = "store" /\ packet[n] = <<First(s, k)>> /\ Got(n, "STORE_FRAGMENT")
    BY <1>6, <1>10, <1>11, <1>12, <1>13 DEF Got
  <1>15. Handles(s, t, n, k)
    BY <1>2, <1>8, <1>9, <1>14 DEF Handles
  <1> QED BY <1>2, <1>15

-----------------------------------------------------------------------------
(* HandleStoreFragment *)

\* STORE_FRAGMENT is confirmed; the bytes are to follow.
LEMMA HandleStoreFragmentStep ==
    ASSUME NEW s \in Stories, NEW t \in [Conns -> Stage], Explains(s, t), NEW n \in Node,
           At(n, "packet"), HandleStoreFragment(n)
    PROVE  \E t2 \in [Conns -> Stage] : Explains(s, t2)'
  <1>1. /\ Thread(s, t, n) /\ Typed
    BY DEF Explains
  <1>2. /\ pc[n] = "packet" /\ pc' = [pc EXCEPT ![n] = "raw"] /\ Got(n, "STORE_FRAGMENT")
        /\ wire' = Sent(wire, fd[n], n, <<Ok>>)
        /\ UNCHANGED <<backlog, fd, client_fd, packet, ms, call, todo, data, user, merged, strayed>>
    BY DEF HandleStoreFragment, At, Goto
  <1>3. PICK k \in Conns :
          /\ fd[n] = k /\ k.kind = "store" /\ k.to = n /\ t[k] = "packet"
          /\ Link(s, t, k) /\ k \in DOMAIN wire /\ DOMAIN wire[k] = {"up", "down"}
    <2>1. PICK k \in Conns : Handles(s, t, n, k)
      BY <1>2, InHand
    <2> QED BY <1>2, <2>1 DEF Handles, Got
  <1>4. /\ Shape(s, t, k) /\ Seat(t, k) /\ Caller(s, t, k) /\ CallTalk(s, t, k)
    BY <1>3 DEF Link
  <1>5. IsCall(s, k)
    BY <1>3 DEF IsCall
  <1>6. wire[k].up = <<>> /\ wire[k].down = <<>> /\ packet[n] = <<First(s, k)>>
    BY <1>3, <1>4, <1>5 DEF CallTalk, Has
  <1>7. /\ SameBut(wire, wire', k) /\ DOMAIN wire'[k] = {"up", "down"}
        /\ wire'[k].up = <<>> /\ wire'[k].down = <<Ok>>
    <2>1. wire' = Sent(wire, k, n, <<Ok>>)
      BY <1>2, <1>3
    <2>2. Flows(wire, wire', k, wire[k].up, wire[k].down \o <<Ok>>)
      BY <1>3, <2>1, ServerSends
    <2> QED BY <1>6, <2>2, Sending DEF Flows
  <1>8. /\ DOMAIN pc = Node /\ pc'[n] = "raw" /\ DOMAIN pc' = Node
    BY <1>1, <1>2 DEF Typed
  <1>9. PICK t2 \in [Conns -> Stage] : t2[k] = "ok" /\ SameBut(t, t2, k)
    <2>1. "ok" \in Stage
      BY DEF Stage, CallStages
    <2> QED BY <2>1, Advance
  <1>10. Elsewhere(n)
    BY <1>1, <1>2 DEF Elsewhere, Typed
  <1>11. Link(s, t2, k)'
    <2>1. Shape(s, t2, k)
      BY <1>3, <1>4, <1>9 DEF Shape, CallStages
    <2>2. Seat(t2, k)'
      BY <1>2, <1>3, <1>8, <1>9 DEF Seat
    <2>3. Caller(s, t2, k)'
      <3>1. Dialling(s, t2, k) => Dialling(s, t, k) /\ Remaining(s, t2, k) = Remaining(s, t, k)
        BY <1>3, <1>9 DEF Dialling, Remaining
      <3> QED BY <1>3, <1>4, <1>10, <3>1, CallerWaits
    <2>4. LineTalk(s, t2, k)' /\ RelayTalk(s, t2, k)'
      BY <1>3 DEF LineTalk, RelayTalk
    <2>5. CallTalk(s, t2, k)'
      BY <1>2, <1>3, <1>6, <1>7, <1>9 DEF CallTalk, Has
    <2> QED BY <1>7, <2>1, <2>2, <2>3, <2>4, <2>5 DEF Link
  <1>12. Typed'
    BY <1>1, <1>2, <1>8 DEF Typed, data, user
  <1>13. Thread(s, t2, n)'
    <2>1. \A x \in Conns : /\ t[x] # "none" => t2[x] # "none"
                           /\ x.kind = "client" => t2[x] = t[x]
      BY <1>3, <1>9 DEF SameBut
    <2> QED BY <1>1, <1>2, <1>3, <1>8, <1>9, <2>1 DEF Thread, Serves, Position, Collecting
  <1>14. Inquiry(s, t2)' /\ Handout(s, t2)'
    BY <1>2, <1>3, <1>8, <1>9, <1>10, SoftAside
  <1>15. Alike(s, t[k], t2[k], k)
    BY <1>3, <1>9 DEF Alike
  <1>16. Dialling(s, t, k) => Dialling(s, t2, k)
    BY <1>3, <1>9 DEF Dialling
  <1>17. \A x \in Conns : x \in {k} /\ t2[x] # "none" => Link(s, t2, x)'
    BY <1>11
  <1> QED BY <1>2, <1>3, <1>7, <1>8, <1>9, <1>10, <1>12, <1>13, <1>14, <1>15, <1>16, <1>17,
             SoftStep DEF data, user, Collecting

-----------------------------------------------------------------------------
(* HandleUnknown *)

\* Packets for which there is no handler, those that followed another one among them, are dropped.
LEMMA HandleUnknownStep ==
    ASSUME NEW s \in Stories, NEW t \in [Conns -> Stage], Explains(s, t), NEW n \in Node,
           At(n, "packet"), HandleUnknown(n)
    PROVE  \E t2 \in [Conns -> Stage] : Explains(s, t2)'
  <1>1. /\ Thread(s, t, n) /\ Typed
    BY DEF Explains
  <1>2. /\ pc[n] = "packet" /\ pc' = [pc EXCEPT ![n] = "idle"]
        /\ ~Got(n, "CREATE_FILE") /\ ~Got(n, "STORE_FRAGMENT")
        /\ ~Got(n, "REQUEST_FILE") /\ ~Got(n, "REQUEST_FRAG")
        /\ UNCHANGED <<net, fd, client_fd, packet, ms, call, todo, data, user, merged, strayed>>
    BY DEF HandleUnknown, At, Goto, Got
  <1>3. PICK k \in Conns :
          /\ fd[n] = k /\ k.to = n /\ Link(s, t, k)
          /\ k \in DOMAIN wire /\ DOMAIN wire[k] = {"up", "down"}
          /\ \/ t[k] = "asked" /\ k.kind = "client"
             \/ t[k] = "lostpacket" /\ k.kind = "relay" /\ s.op[k.c] = "write"
    <2>1. PICK k \in Conns : Handles(s, t, n, k)
      BY <1>2, InHand
    <2> QED BY <1>2, <2>1 DEF Handles
  <1>4. /\ Shape(s, t, k) /\ Seat(t, k) /\ Caller(s, t, k) /\ CallTalk(s, t, k)
        /\ LineTalk(s, t, k) /\ RelayTalk(s, t, k)
    BY <1>3 DEF Link
  <1>5. ~IsCall(s, k)
    BY <1>3 DEF IsCall
  <1>6. /\ DOMAIN pc = Node /\ pc'[n] = "idle" /\ DOMAIN pc' = Node
    BY <1>1, <1>2 DEF Typed
  <1>7. PICK t2 \in [Conns -> Stage] :
          t2[k] = (IF t[k] = "asked" THEN "asked" ELSE "gone") /\ SameBut(t, t2, k)
    <2>1. "asked" \in Stage /\ "gone" \in Stage
      BY DEF Stage, LineStages, WriteRelayStages
    <2>2. CASE t[k] = "asked"
      BY <2>1, <2>2, Advance
    <2>3. CASE t[k] # "asked"
      BY <2>1, <2>3, Advance
    <2> QED BY <2>2, <2>3
  <1>8. Elsewhere(n)
    BY <1>1, <1>2 DEF Elsewhere, Typed
  <1>9. Link(s, t2, k)'
    <2>1. Shape(s, t2, k)
      BY <1>3, <1>4, <1>7 DEF Shape, WriteRelayStages
    <2>2. Seat(t2, k)'
      BY <1>3, <1>7 DEF Seat
    <2>3. Caller(s, t2, k)' /\ CallTalk(s, t2, k)'
      BY <1>5 DEF Caller, Dialling, CallTalk
    <2>4. LineTalk(s, t2, k)'
      BY <1>2, <1>3, <1>4, <1>7 DEF LineTalk, Promised, Is, Has, net, user
    <2>5. RelayTalk(s, t2, k)'
      BY <1>2, <1>3, <1>4, <1>7 DEF RelayTalk, Forwarded, net, user
    <2>6. DOMAIN wire'[k] = {"up", "down"}
      BY <1>2, <1>3 DEF net
    <2> QED BY <2>1, <2>2, <2>3, <2>4, <2>5, <2>6 DEF Link
  <1>10. Typed'
    BY <1>1, <1>2, <1>6 DEF Typed, data, user, net
  <1>11. Thread(s, t2, n)'
    <2>1. \A x \in Conns : /\ t[x] # "none" => t2[x] # "none"
                           /\ x.kind = "client" => t2[x] = t[x]
      BY <1>3, <1>7 DEF SameBut
    <2> QED BY <1>1, <1>2, <1>3, <1>6, <2>1 DEF Thread, Position, Collecting
  <1>12. Inquiry(s, t2)' /\ Handout(s, t2)'
    BY <1>2, <1>3, <1>6, <1>7, <1>8, SoftAside
  <1>13. Alike(s, t[k], t2[k], k)
    BY <1>3, <1>7 DEF Alike, Within
  <1>14. ~Dialling(s, t, k)
    BY <1>5 DEF Dialling
  <1>15. \A x \in Conns : x \in {k} /\ t2[x] # "none" => Link(s, t2, x)'
    BY <1>9
  <1>16. SameBut(wire, wire', k)
    BY <1>2 DEF SameBut, net
  <1> QED BY <1>2, <1>3, <1>6, <1>7, <1>8, <1>10, <1>11, <1>12, <1>13, <1>14, <1>15, <1>16,
             SoftStep DEF data, user, net, Collecting

-----------------------------------------------------------------------------
(* PollClient *)

\* An idle node finds that its client has sent something.
LEMMA PollClientStep ==
    ASSUME NEW s \in Stories, NEW t \in [Conns -> Stage], Explains(s, t), NEW n \in Node, PollClient(n)
    PROVE  \E t2 \in [Conns -> Stage] : Explains(s, t2)'
  <1>1. /\ Thread(s, t, n) /\ Typed /\ DOMAIN wire = {x \in Conns : t[x] # "none"}
    BY DEF Explains
  <1>2. /\ pc[n] = "idle" /\ pc' = [pc EXCEPT ![n] = "packet"]
        /\ fd' = [fd EXCEPT ![n] = client_fd[n]]
        /\ UNCHANGED <<backlog, client_fd, ms, call, todo, data, user, strayed>>
    BY DEF PollClient, At, Goto
  <1>3. PICK k \in Conns :
          /\ client_fd[n] = k /\ k.kind = "client" /\ k.to = n /\ t[k] \notin {"none", "queued", "identify"}
          /\ Link(s, t, k) /\ k \in DOMAIN wire /\ DOMAIN wire[k] = {"up", "down"}
          /\ client[k.c] # "off" /\ Queue(k, n) = wire[k].up /\ wire[k].up # <<>>
    <2>1. /\ client_fd[n] \in Conns /\ client_fd[n].kind = "client" /\ client_fd[n].to = n
          /\ t[client_fd[n]] \notin {"none", "queued", "identify"}
      BY <1>1 DEF PollClient, ClientHasData, Thread
    <2>2. /\ Link(s, t, client_fd[n]) /\ client_fd[n] \in DOMAIN wire
          /\ DOMAIN wire[client_fd[n]] = {"up", "down"} /\ client[client_fd[n].c] # "off"
      BY <2>1, Attached
    <2>3. Queue(client_fd[n], n) = wire[client_fd[n]].up /\ Queue(client_fd[n], n) # <<>>
      BY <2>1 DEF PollClient, ClientHasData, Queue, In
    <2> QED BY <2>1, <2>2, <2>3
  <1>4. PICK j \in 1 .. Len(wire[k].up) :
          /\ wire' = Read(wire, k, n, j) /\ merged' \in BOOLEAN
          /\ packet' = [packet EXCEPT ![n] = SubSeq(wire[k].up, 1, j)]
    <2>1. merged \in BOOLEAN
      BY <1>1 DEF Typed
    <2> QED BY <1>3, <2>1 DEF PollClient, Recv, RecvCut
  <1>5. /\ Shape(s, t, k) /\ Seat(t, k) /\ LineTalk(s, t, k)
    BY <1>3 DEF Link
  <1>6. k.c \in Client /\ k = LineOf(s, k.c) /\ s.home[k.c] = n
    BY <1>3, <1>5, ConnType, CallEnds
  <1>7. t[k] \in {"open", "asked"}
    <2>1. t[k] \notin Seated
      BY <1>2, <1>3, Attached
    <2>2. t[k] # "collect"
      <3>1. Tally(s, t, k.c)
        BY <1>3, <1>6 DEF Explains, Request
      <3> QED BY <1>2, <1>6, <3>1 DEF Tally, Collecting
    <2>3. t[k] \in {"open", "passed", "stored", "served", "refused", "asked"}
      BY <1>3, <1>5, <2>1, <2>2 DEF Shape, LineStages, Seated
    <2>4. t[k] \notin {"passed", "stored", "served", "refused"}
      BY <1>3, <1>5 DEF LineTalk, Is, Has
    <2> QED BY <2>3, <2>4
  <1>8. /\ SameBut(wire, wire', k) /\ DOMAIN wire'[k] = {"up", "down"}
        /\ wire'[k].up = SubSeq(wire[k].up, j + 1, Len(wire[k].up)) /\ wire'[k].down = wire[k].down
    <2>1. Flows(wire, wire', k, SubSeq(wire[k].up, j + 1, Len(wire[k].up)), wire[k].down)
      BY <1>3, <1>4, ServerReads
    <2> QED BY <2>1 DEF Flows
  <1>9. /\ DOMAIN pc = Node /\ DOMAIN packet = Node /\ DOMAIN fd = Node /\ pc'[n] = "packet"
        /\ packet'[n] = SubSeq(wire[k].up, 1, j) /\ fd'[n] = k
        /\ DOMAIN pc' = Node /\ DOMAIN packet' = Node /\ DOMAIN fd' = Node
    BY <1>1, <1>2, <1>3, <1>4 DEF Typed
  <1>10. PICK t2 \in [Conns -> Stage] :
           t2[k] = (IF t[k] = "open" THEN "packet" ELSE "asked") /\ SameBut(t, t2, k)
    <2>1. "asked" \in Stage /\ "packet" \in Stage
      BY DEF Stage, LineStages
    <2>2. CASE t[k] = "open"
      BY <2>1, <2>2, Advance
    <2>3. CASE t[k] # "open"
      BY <2>1, <2>3, Advance
    <2> QED BY <2>2, <2>3
  <1>11. Elsewhere(n)
    BY <1>1, <1>2, <1>4 DEF Elsewhere, Typed
  <1>12. ~IsCall(s, k)
    BY <1>3 DEF IsCall
  <1>13. /\ client' = client
         /\ t[k] = "asked" => packet'[n] = <<Ok>>
         /\ LineTalk(s, t2, k)'
    <2>1. client' = client
      BY <1>2 DEF user
    <2> DEFINE C == Creation(s, k.c)
               B == Bytes(s, k.c)
               W == Wish(s, k.c)
    <2>2. ASSUME t[k] = "open", Is(k, "creating", <<C>>, <<>>) PROVE LineTalk(s, t2, k)'
      <3>1. Takes(wire[k].up, j, <<C>>, <<>>)
        BY <2>2, TakesOne DEF Is, Has
      <3>2. wire'[k].up = <<>> /\ packet'[n] = <<C>> /\ wire'[k].down = <<>> /\ client'[k.c] = "creating"
        BY <1>8, <1>9, <2>1, <2>2, <3>1 DEF Takes, Is, Has
      <3> QED BY <1>3, <1>10, <2>2, <3>2 DEF LineTalk, Taken, Is, Has
    <2>3. ASSUME t[k] = "open", Is(k, "sent", <<C, B>>, <<>>) PROVE LineTalk(s, t2, k)'
      <3>1. Takes(wire[k].up, j, <<C>>, <<B>>) \/ Takes(wire[k].up, j, <<C, B>>, <<>>)
        BY <2>3, TakesTwo DEF Is, Has
      <3>2. /\ wire'[k].down = <<>> /\ client'[k.c] = "sent"
            /\ \/ wire'[k].up = <<B>> /\ packet'[n] = <<C>>
               \/ wire'[k].up = <<>> /\ packet'[n] = <<C, B>>
        BY <1>8, <1>9, <2>1, <2>3, <3>1 DEF Takes, Is, Has
      <3> QED BY <1>3, <1>10, <2>3, <3>2 DEF LineTalk, Taken, Is, Has
    <2>4. ASSUME t[k] = "open", Is(k, "asked", <<W>>, <<>>) PROVE LineTalk(s, t2, k)'
      <3>1. Takes(wire[k].up, j, <<W>>, <<>>)
        BY <2>4, TakesOne DEF Is, Has
      <3>2. wire'[k].up = <<>> /\ packet'[n] = <<W>> /\ wire'[k].down = <<>> /\ client'[k.c] = "asked"
        BY <1>8, <1>9, <2>1, <2>4, <3>1 DEF Takes, Is, Has
      <3> QED BY <1>3, <1>10, <2>4, <3>2 DEF LineTalk, Is, Has
    <2>5. ASSUME t[k] = "asked" PROVE packet'[n] = <<Ok>> /\ LineTalk(s, t2, k)'
      <3>1. k.to = Index /\ Is(k, "fetch", <<Ok>>, <<>>)
        BY <1>3, <1>5, <2>5 DEF LineTalk, Promised, Is, Has
      <3>2. Takes(wire[k].up, j, <<Ok>>, <<>>)
        BY <3>1, TakesOne DEF Is, Has
      <3>3. wire'[k].up = <<>> /\ packet'[n] = <<Ok>> /\ wire'[k].down = <<>> /\ client'[k.c] = "fetch"
        BY <1>8, <1>9, <2>1, <3>1, <3>2 DEF Takes, Is, Has
      <3> QED BY <1>10, <2>5, <3>1, <3>3 DEF LineTalk, Is, Has
    <2>6. t[k] = "open" => \/ Is(k, "creating", <<C>>, <<>>) \/ Is(k, "sent", <<C, B>>, <<>>)
                           \/ Is(k, "asked", <<W>>, <<>>)
      BY <1>3, <1>5 DEF LineTalk, Is, Has
    <2> QED BY <1>7, <2>1, <2>2, <2>3, <2>4, <2>5, <2>6
  <1>14. Link(s, t2, k)'
    <2>1. Shape(s, t2, k)
      BY <1>3, <1>5, <1>7, <1>10 DEF Shape, LineStages
    <2>2. Seat(t2, k)'
      BY <1>3, <1>7, <1>9, <1>10 DEF Seat
    <2>3. Caller(s, t2, k)' /\ CallTalk(s, t2, k)'
      BY <1>12 DEF Caller, Dialling, CallTalk
    <2>4. RelayTalk(s, t2, k)'
      BY <1>3 DEF RelayTalk
    <2> QED BY <1>8, <1>13, <2>1, <2>2, <2>3, <2>4 DEF Link
  <1>15. Typed'
    BY <1>1, <1>2, <1>4, <1>9 DEF Typed, data, user
  <1>16. Thread(s, t2, n)'
    <2>1. \A x \in Conns : /\ t[x] # "none" => t2[x] # "none"
                           /\ t[x] \notin {"none", "queued", "identify"} =>
                                t2[x] \notin {"none", "queued", "identify"}
      BY <1>7, <1>10 DEF SameBut
    <2>2. t2[k] \in {"packet", "asked"} /\ (t2[k] = "asked" => t[k] = "asked")
      BY <1>7, <1>10
    <2> QED BY <1>1, <1>2, <1>3, <1>9, <1>13, <2>1, <2>2 DEF Thread, Serves, Position, Collecting
  <1>17. Inquiry(s, t2)' /\ Handout(s, t2)'
    BY <1>2, <1>7, <1>9, <1>10, <1>11, SoftAside
  <1>18. Alike(s, t[k], t2[k], k)
    BY <1>3, <1>7, <1>10 DEF Alike, Within
  <1>19. ~Dialling(s, t, k)
    BY <1>12 DEF Dialling
  <1>20. \A x \in Conns : x \in {k} /\ t2[x] # "none" => Link(s, t2, x)'
    BY <1>14
  <1> QED BY <1>2, <1>3, <1>7, <1>8, <1>10, <1>11, <1>15, <1>16, <1>17, <1>18, <1>19, <1>20,
             SoftStep DEF data, user, Collecting

-----------------------------------------------------------------------------
(* HandOver *)

\* server_wait_ok, then the whole file goes to the client.
LEMMA HandOverStep ==
    ASSUME NEW s \in Stories, NEW t \in [Conns -> Stage], Explains(s, t), NEW n \in Node, HandOver(n)
    PROVE  \E t2 \in [Conns -> Stage] : Explains(s, t2)'
  <1>1. /\ Thread(s, t, n) /\ Typed
    BY DEF Explains
  <1>2. /\ pc[n] = "hand_over" /\ pc' = [pc EXCEPT ![n] = "idle"]
        /\ UNCHANGED <<backlog, fd, client_fd, packet, ms, call, todo, data, user, strayed>>
    BY DEF HandOver, At, Goto
  <1>3. PICK k \in Conns :
          /\ fd[n] = k /\ k.to = n /\ t[k] = "hand_over" /\ Link(s, t, k)
          /\ k \in DOMAIN wire /\ DOMAIN wire[k] = {"up", "down"} /\ Queue(k, n) = wire[k].up
    <2>1. Serves(t, n, {"hand_over"}) /\ "none" \notin {"hand_over"}
      BY <1>1, <1>2 DEF Thread
    <2> QED BY <2>1, Served
  <1>4. PICK j \in 1 .. Len(wire[k].up) :
          /\ wire' = Sent(Read(wire, k, n, j), k, n, <<Raw(ms[n].buffer)>>) /\ merged' = (merged \/ j > 1)
    BY <1>3 DEF HandOver, Recv
  <1>5. /\ Shape(s, t, k) /\ LineTalk(s, t, k)
    BY <1>3 DEF Link
  <1>6. k.kind = "client"
    BY <1>3, <1>5, ConnType DEF Shape, CallStages, ReadRelayStages, WriteRelayStages, Kinds
  <1>7. /\ k.to # Index /\ ms[n].buffer = Whole(s, k.c)
        /\ client[k.c] = "fetch" /\ wire[k].up = <<Ok>> /\ wire[k].down = <<>>
    <2>1. Promised(s, k) /\ k.to # Index /\ ms[n].buffer = Whole(s, k.c)
      BY <1>3, <1>5, <1>6 DEF LineTalk
    <2>2. wire[k].up # <<>>
      BY <1>4, TakesNone
    <2> QED BY <2>1, <2>2 DEF Promised, Is, Has
  <1>8. /\ SameBut(wire, wire', k) /\ DOMAIN wire'[k] = {"up", "down"}
        /\ wire'[k].up = <<>> /\ wire'[k].down = <<Raw(Whole(s, k.c))>>
    <2>1. Takes(wire[k].up, j, <<Ok>>, <<>>)
      BY <1>7, TakesOne
    <2>2. Flows(wire, wire', k, SubSeq(wire[k].up, j + 1, Len(wire[k].up)),
                wire[k].down \o <<Raw(ms[n].buffer)>>)
      BY <1>3, <1>4, ServerReplies
    <2>7. Flows(wire, wire', k, <<>>, <<Raw(Whole(s, k.c))>>)
      BY <1>7, <2>1, <2>2, Sending DEF Takes
    <2> QED BY <2>7 DEF Flows
  <1>9. /\ DOMAIN pc = Node /\ pc'[n] = "idle" /\ DOMAIN pc' = Node
    BY <1>1, <1>2 DEF Typed
  <1>10. PICK t2 \in [Conns -> Stage] : t2[k] = "served" /\ SameBut(t, t2, k)
    <2>1. "served" \in Stage
      BY DEF Stage, LineStages
    <2> QED BY <2>1, Advance
  <1>11. Elsewhere(n)
    BY <1>1, <1>2 DEF Elsewhere, Typed
  <1>12. Link(s, t2, k)'
    <2>1. Shape(s, t2, k)
      BY <1>5, <1>6, <1>10 DEF Shape, LineStages
    <2>2. Seat(t2, k)'
      BY <1>10 DEF Seat
    <2>3. Caller(s, t2, k)' /\ CallTalk(s, t2, k)' /\ RelayTalk(s, t2, k)'
      BY <1>6 DEF Caller, Dialling, CallTalk, IsCall, RelayTalk
    <2>4. LineTalk(s, t2, k)'
      BY <1>2, <1>6, <1>7, <1>8, <1>10 DEF LineTalk, Is, Has, user
    <2> QED BY <1>8, <2>1, <2>2, <2>3, <2>4 DEF Link
  <1>13. Typed'
    BY <1>1, <1>2, <1>4, <1>9 DEF Typed, data, user
  <1>14. Thread(s, t2, n)'
    <2>1. \A x \in Conns : /\ t[x] # "none" => t2[x] # "none"
                           /\ t[x] \notin {"none", "queued", "identify"} =>
                                t2[x] \notin {"none", "queued", "identify"}
      BY <1>3, <1>10 DEF SameBut
    <2> QED BY <1>1, <1>2, <1>3, <1>9, <2>1 DEF Thread, Position, Collecting
  <1>15. Inquiry(s, t2)' /\ Handout(s, t2)'
    BY <1>2, <1>3, <1>9, <1>10, <1>11, SoftAside
  <1>16. Alike(s, t[k], t2[k], k)
    BY <1>3, <1>6, <1>10 DEF Alike, Within
  <1>17. ~Dialling(s, t, k)
    BY <1>6 DEF Dialling, IsCall
  <1>18. \A x \in Conns : x \in {k} /\ t2[x] # "none" => Link(s, t2, x)'
    BY <1>12
  <1> QED BY <1>2, <1>3, <1>8, <1>10, <1>11, <1>13, <1>14, <1>15, <1>16, <1>17, <1>18,
             SoftStep DEF data, user, Collecting

-----------------------------------------------------------------------------
(* Identify *)

\* The index never collects.
LEMMA CollectorIsNoIndex ==
    ASSUME NEW s \in Stories, NEW t \in [Conns -> Stage], Explains(s, t), NEW n \in Node,
           pc[n] \in Collecting
    PROVE  n # Index
  <1>1. /\ ms[n].from \in Conns /\ ms[n].from.kind = "client" /\ ms[n].from.to = n
        /\ t[ms[n].from] = "collect"
    BY DEF Explains, Thread
  <1>2. LineTalk(s, t, ms[n].from)
    BY <1>1, Attached DEF Link
  <1> QED BY <1>1, <1>2 DEF LineTalk

\* The presentation of a caller is read and answered.
LEMMA IdentifyStep ==
    ASSUME NEW s \in Stories, NEW t \in [Conns -> Stage], Explains(s, t), NEW n \in Node, Identify(n)
    PROVE  \E t2 \in [Conns -> Stage] : Explains(s, t2)'
  <1>1. /\ Thread(s, t, n) /\ Typed
    BY DEF Explains
  <1>2. /\ pc[n] \in {"identify", "collect_identify"}
        /\ UNCHANGED <<backlog, fd, packet, ms, call, todo, data, user, strayed>>
    BY DEF Identify, At
  <1>3. PICK k \in Conns :
          /\ fd[n] = k /\ k.to = n /\ t[k] = "identify" /\ Link(s, t, k)
          /\ k \in DOMAIN wire /\ DOMAIN wire[k] = {"up", "down"} /\ Queue(k, n) = wire[k].up
          /\ client[k.c] # "off"
    <2>1. Serves(t, n, {"identify"}) /\ "none" \notin {"identify"}
      BY <1>1, <1>2 DEF Thread
    <2> QED BY <2>1, Served
  <1>4. PICK j \in 1 .. Len(wire[k].up) :
          /\ \/ wire' = Sent(Read(wire, k, n, j), k, n, <<Ok>>)
             \/ j + 1 \in 2 .. Len(wire[k].up) /\ wire' = Sent(CutAt(wire, k, n, j), k, n, <<Ok>>)
          /\ merged' \in BOOLEAN
    <2>1. merged \in BOOLEAN
      BY <1>1 DEF Typed
    <2> QED BY <1>3, <2>1 DEF Identify, Recv, RecvCut
  <1>5. /\ DOMAIN pc = Node /\ DOMAIN client_fd = Node /\ DOMAIN pc' = Node /\ DOMAIN client_fd' = Node
        /\ pc'[n] = (IF pc[n] = "identify" /\ k.kind = "client" THEN "idle"
                     ELSE IF pc[n] = "identify" THEN "receive" ELSE "collect_packet")
        /\ client_fd'[n] = (IF pc[n] = "identify" /\ k.kind = "client" THEN k ELSE client_fd[n])
        /\ \A m \in Node \ {n} : pc'[m] = pc[m] /\ client_fd'[m] = client_fd[m]
    BY <1>1, <1>3 DEF Identify, Goto, Typed
  <1>6. /\ Shape(s, t, k) /\ Caller(s, t, k) /\ CallTalk(s, t, k) /\ LineTalk(s, t, k) /\ RelayTalk(s, t, k)
    BY <1>3 DEF Link
  <1>7. /\ k.kind \in Kinds /\ k.c \in Client /\ (pc[n] = "identify" => k.kind # "deliver")
    BY <1>1, <1>3, ConnType DEF Thread
  <1>8. k.kind = "client" \/ IsCall(s, k) \/ (k.kind = "relay" /\ s.op[k.c] = "write" /\ pc[n] = "identify")
    <2>1. k.kind = "relay" => s.op[k.c] \in {"read", "write"} /\ n = Index
      BY <1>3, <1>6, CallEnds DEF Shape
    <2>2. k.kind = "relay" => pc[n] = "identify"
      BY <1>2, <2>1, CollectorIsNoIndex DEF Collecting
    <2> QED BY <1>7, <2>1, <2>2 DEF IsCall, Kinds
  <1>9. /\ k.kind = "client" => ~IsCall(s, k)
        /\ k.kind = "relay" /\ s.op[k.c] = "write" => ~IsCall(s, k)
    BY DEF IsCall
  <1> DEFINE r == SubSeq(wire[k].up, j + 1, Len(wire[k].up))
  <1>10. /\ SameBut(wire, wire', k) /\ DOMAIN wire'[k] = {"up", "down"}
         /\ \/ wire'[k].up = r
            \/ /\ j + 1 \in 2 .. Len(wire[k].up) /\ r[1].type = "CREATE_FILE"
               /\ wire'[k].up = [r EXCEPT ![1] = Remnant]
         /\ wire'[k].down = wire[k].down \o <<Ok>>
    <2>3. k \in DOMAIN wire /\ DOMAIN wire[k] = {"up", "down"} /\ n = k.to
      BY <1>3
    <2>1. CASE wire' = Sent(Read(wire, k, n, j), k, n, <<Ok>>)
      <3>1. Flows(wire, wire', k, SubSeq(wire[k].up, j + 1, Len(wire[k].up)), wire[k].down \o <<Ok>>)
        BY <2>1, <2>3, ServerReplies
      <3> QED BY <3>1 DEF Flows
    <2>2. CASE j + 1 \in 2 .. Len(wire[k].up) /\ wire' = Sent(CutAt(wire, k, n, j), k, n, <<Ok>>)
      <3>1. wire' = Sent(CutAt(wire, k, n, j), k, n, <<Ok>>)
        BY <2>2
      <3> HIDE DEF r
      <3>2. \/ Flows(wire, wire', k, r, wire[k].down \o <<Ok>>)
            \/ /\ r[1].type = "CREATE_FILE"
               /\ Flows(wire, wire', k, [r EXCEPT ![1] = Remnant], wire[k].down \o <<Ok>>)
        BY <2>3, <3>1, ServerCuts DEF r
      <3> QED BY <2>2, <3>2 DEF Flows
    <2> QED BY <1>4, <2>1, <2>2
  <1> HIDE DEF r
  <1>11. k.kind = "client" \/ IsCall(s, k) => wire'[k].up = <<>> /\ wire'[k].down = <<Ok>>
    <2> SUFFICES ASSUME k.kind = "client" \/ IsCall(s, k) PROVE wire'[k].up = <<>> /\ wire'[k].down = <<Ok>>
      OBVIOUS
    <2>1. wire[k].up = <<Present>> /\ wire[k].down = <<>>
      BY <1>3, <1>6 DEF LineTalk, CallTalk, Is, Has
    <2>2. j = 1 /\ Takes(wire[k].up, j, <<Present>>, <<>>) /\ Len(wire[k].up) = 1
      BY <2>1, TakesOne, Lengths
    <2>3. wire'[k].up = r
      BY <1>10, <2>2
    <2> QED BY <1>10, <2>1, <2>2, <2>3, Sending DEF Takes, r
  <1> DEFINE C == Creation(s, k.c)
             B == Bytes(s, k.c)
             whole == wire'[k].up \in {<<C>>, <<C, B>>}
  <1>12. PICK t2 \in [Conns -> Stage] :
           /\ t2[k] = (IF k.kind = "client" THEN "open" ELSE IF IsCall(s, k) THEN "hello"
                       ELSE IF whole THEN "receive" ELSE "lost")
           /\ SameBut(t, t2, k)
    <2>1. "open" \in Stage /\ "hello" \in Stage /\ "receive" \in Stage /\ "lost" \in Stage
      BY DEF Stage, LineStages, CallStages, WriteRelayStages
    <2> DEFINE v == IF k.kind = "client" THEN "open" ELSE IF IsCall(s, k) THEN "hello"
                    ELSE IF whole THEN "receive" ELSE "lost"
    <2>2. v \in Stage
      BY <2>1
    <2> HIDE DEF v
    <2>3. \E t2 \in [Conns -> Stage] : t2[k] = v /\ SameBut(t, t2, k)
      BY <2>2, Advance
    <2> QED BY <2>3 DEF v
  <1>13. Elsewhere(n)
    BY <1>2, <1>5 DEF Elsewhere
  <1>14. Link(s, t2, k)'
    <2>1. Shape(s, t2, k)
      <3>1. k.kind = "deliver" \/ k.kind = "ask" \/ k.kind = "store" => t2[k] = "hello"
        BY <1>12 DEF IsCall
      <3>2. k.kind = "relay" /\ s.op[k.c] = "read" => t2[k] = "hello"
        BY <1>12 DEF IsCall
      <3>3. k.kind = "relay" /\ s.op[k.c] = "write" => t2[k] \in {"receive", "lost"}
        BY <1>9, <1>12
      <3> QED BY <1>6, <1>12, <3>1, <3>2, <3>3
            DEF Shape, LineStages, CallStages, ReadRelayStages, WriteRelayStages
    <2>2. Seat(t2, k)'
      <3>1. t2[k] = "hello" => fd'[n] = k /\ pc'[n] \in {"receive", "collect_packet"}
        BY <1>2, <1>3, <1>5, <1>12
      <3>2. t2[k] \in {"receive", "lost"} => fd'[n] = k /\ pc'[n] = "receive"
        BY <1>2, <1>3, <1>5, <1>8, <1>12
      <3>3. t2[k] \in {"open", "hello", "receive", "lost"}
        BY <1>12
      <3> QED BY <1>3, <3>1, <3>2, <3>3 DEF Seat
    <2>3. Caller(s, t2, k)'
      <3>1. Dialling(s, t2, k) => Dialling(s, t, k) /\ Remaining(s, t2, k) = Remaining(s, t, k)
        BY <1>3, <1>9, <1>12 DEF Dialling, Remaining
      <3> QED BY <1>3, <1>6, <1>13, <3>1, CallerWaits
    <2>4. LineTalk(s, t2, k)'
      <3> SUFFICES ASSUME k.kind = "client" PROVE LineTalk(s, t2, k)'
        BY DEF LineTalk
      <3>1. client[k.c] = "hello"
        BY <1>3, <1>6 DEF LineTalk, Is
      <3> QED BY <1>2, <1>11, <1>12, <3>1 DEF LineTalk, Is, Has, user
    <2>5. CallTalk(s, t2, k)'
      BY <1>9, <1>11, <1>12 DEF CallTalk, Has
    <2>6. RelayTalk(s, t2, k)'
      <3> SUFFICES ASSUME k.kind = "relay", s.op[k.c] = "write" PROVE RelayTalk(s, t2, k)'
        BY DEF RelayTalk
      <3>1. t2[k] = IF whole THEN "receive" ELSE "lost"
        BY <1>9, <1>12
      <3>2. Forwarded(s, k.c) => Forwarded(s, k.c)'
        <4>1. LineOf(s, k.c) \in Conns /\ LineOf(s, k.c) # k
          BY <1>7, ConnsOf
        <4>2. t[LineOf(s, k.c)] # "none"
          BY <1>3, <1>7 DEF Explains, Request, Progress
        <4>3. LineOf(s, k.c) \in DOMAIN wire
          BY <4>1, <4>2 DEF Explains
        <4> QED BY <1>2, <1>10, <4>1, <4>3 DEF Forwarded, user, SameBut
      <3>3. B.type # "CREATE_FILE" /\ [<<C>> EXCEPT ![1] = Remnant] = <<Remnant>>
            /\ [<<C, B>> EXCEPT ![1] = Remnant] = <<Remnant, B>> /\ <<B>>[1] = B
        BY PacketFacts DEF Bytes
      <3>4. CASE wire[k].up = <<Present, C>>
        <4>1. \/ j = 1 /\ r = <<C>>
              \/ j = 2 /\ r = <<>>
          <5>1. \/ j = 1 /\ Takes(wire[k].up, j, <<Present>>, <<C>>)
                \/ j = 2 /\ Takes(wire[k].up, j, <<Present, C>>, <<>>)
            BY <3>4, TakesTwo
          <5> QED BY <5>1, Zenon DEF Takes, r
        <4>2. Len(wire[k].up) = 2
          BY <3>4, Lengths
        <4>3. wire'[k].up \in {<<C>>, <<>>, <<Remnant>>}
          <5>1. j + 1 \in 2 .. Len(wire[k].up) => j = 1
            BY <4>2
          <5>2. j + 1 \in 2 .. Len(wire[k].up) => r = <<C>>
            BY <4>1, <5>1
          <5> QED BY <1>10, <3>3, <4>1, <5>2, Zenon
        <4>4. wire'[k].up # <<C, B>>
          <5>1. Len(<<C>>) # Len(<<C, B>>) /\ Len(<<Remnant>>) # Len(<<C, B>>) /\ Len(<<>>) # Len(<<C, B>>)
            BY Lengths
          <5> QED BY <4>3, <5>1, Zenon
        <4>5. t2[k] = "receive" => wire'[k].up = <<C>>
          BY <3>1, <4>4
        <4>6. t2[k] = "lost" => wire'[k].up \in {<<>>, <<Remnant>>}
          BY <3>1, <4>3
        <4>7. t2[k] \in {"receive", "lost"}
          BY <3>1
        <4> QED BY <4>5, <4>6, <4>7 DEF RelayTalk
      <3>5. CASE wire[k].up = <<Present, C, B>> /\ Forwarded(s, k.c)
        <4>1. \/ j = 1 /\ r = <<C, B>>
              \/ j # 1 /\ (r = <<B>> \/ r = <<>>)
          <5>1. \/ j = 1 /\ Leaves(wire[k].up, j, <<C, B>>)
                \/ j # 1 /\ (Leaves(wire[k].up, j, <<B>>) \/ Leaves(wire[k].up, j, <<>>))
            BY <3>5, TakesThree
          <5> QED BY <5>1, Zenon DEF Leaves, r
        <4>2. Len(wire[k].up) = 3 /\ (j = 2 => r = <<B>>)
          <5>1. SubSeq(<<Present, C, B>>, 3, 3) = <<B>> /\ Len(<<Present, C, B>>) = 3
            BY Reading3, Lengths
          <5> QED BY <3>5, <5>1 DEF r
        <4>3. j + 1 \in 2 .. Len(wire[k].up) => j = 1 \/ j = 2
          BY <4>2
        <4>4. wire'[k].up \in {<<C, B>>, <<B>>, <<>>, <<Remnant, B>>}
          BY <1>10, <3>3, <4>1, <4>2, <4>3
        <4>5. t2[k] = "lost" => wire'[k].up \in {<<>>, <<B>>, <<Remnant, B>>}
          BY <3>1, <4>4
        <4>6. Forwarded(s, k.c)'
          BY <3>2, <3>5
        <4>7. t2[k] = "receive" => wire'[k].up \in {<<C>>, <<C, B>>}
          BY <3>1
        <4>8. t2[k] \in {"receive", "lost"}
          BY <3>1
        <4> QED BY <4>5, <4>6, <4>7, <4>8 DEF RelayTalk
      <3>6. wire[k].up = <<Present, C>> \/ (wire[k].up = <<Present, C, B>> /\ Forwarded(s, k.c))
        BY <1>3, <1>6 DEF RelayTalk
      <3> QED BY <3>4, <3>5, <3>6
    <2> QED BY <1>10, <2>1, <2>2, <2>3, <2>4, <2>5, <2>6 DEF Link
  <1>15. Typed'
    BY <1>1, <1>2, <1>4, <1>5 DEF Typed, data, user
  <1>16. Thread(s, t2, n)'
    <2>1. \A x \in Conns : /\ t[x] # "none" => t2[x] # "none"
                           /\ t[x] \notin {"none", "queued", "identify"} =>
                                t2[x] \notin {"none", "queued", "identify"}
                           /\ t[x] = "collect" => t2[x] = "collect"
      BY <1>3, <1>12 DEF SameBut
    <2>2. /\ fd'[n] \in Conns /\ t2[fd'[n]] # "none" /\ fd'[n] = k
          /\ call'[n].conn # NoConn => call'[n].conn \in Conns /\ t2[call'[n].conn] # "none"
          /\ client_fd'[n] # NoConn =>
               /\ client_fd'[n] \in Conns /\ client_fd'[n].kind = "client" /\ client_fd'[n].to = n
               /\ t2[client_fd'[n]] \notin {"none", "queued", "identify"}
      BY <1>1, <1>2, <1>3, <1>5, <1>12, <2>1 DEF Thread
    <2>3. CASE pc'[n] = "idle"
      BY <2>2, <2>3 DEF Thread, Position, Collecting
    <2>4. CASE pc'[n] = "receive"
      <3>1. t2[k] \in {"hello", "receive", "lost"} /\ k.kind # "deliver"
        BY <1>5, <1>7, <1>12, <2>4
      <3> QED BY <1>3, <2>2, <2>4, <3>1 DEF Thread, Position, Collecting, Serves
    <2>5. CASE pc'[n] = "collect_packet"
      <3>1. pc[n] = "collect_identify"
        BY <1>2, <1>5, <2>5
      <3>2. t2[k] \in {"hello", "open"}
        BY <1>8, <1>12, <3>1
      <3>3. /\ ms[n].from \in Conns /\ ms[n].from.kind = "client" /\ ms[n].from.to = n
            /\ t[ms[n].from] = "collect" /\ ms[n].found < ms[n].count
        BY <1>1, <3>1 DEF Thread, Collecting
      <3> QED BY <1>2, <1>3, <2>1, <2>2, <2>5, <3>2, <3>3 DEF Thread, Position, Collecting, Serves
    <2> QED BY <1>5, <2>3, <2>4, <2>5
  <1>17. Inquiry(s, t2)' /\ Handout(s, t2)'
    <2>1. pc'[n] \notin {"ask", "fanout", "call"} /\ t2[k] \notin {"none", "fanout", "stored"}
      BY <1>5, <1>12
    <2> QED BY <1>2, <1>3, <1>12, <1>13, <2>1, SoftAside
  <1>18. Alike(s, t[k], t2[k], k)
    BY <1>3, <1>8, <1>9, <1>12 DEF Alike, Within, IsCall, Undelivered
  <1>19. Dialling(s, t, k) => Dialling(s, t2, k)
    BY <1>9, <1>12 DEF Dialling
  <1>20. \A x \in Conns : x \in {k} /\ t2[x] # "none" => Link(s, t2, x)'
    BY <1>14
  <1>21. k.kind = "client" /\ wire[k].up = <<>> => wire'[k].up = <<>>
    BY <1>11
  <1>22. pc[n] \in Collecting => pc'[n] \in Collecting /\ ms'[n] = ms[n]
    BY <1>2, <1>5 DEF Collecting
  <1>23. t2[k] \notin {"none", "fanout", "stored", "over"}
    BY <1>12
  <1> QED BY <1>2, <1>3, <1>10, <1>12, <1>13, <1>15, <1>16, <1>17, <1>18, <1>19, <1>20, <1>21, <1>22,
             <1>23, SoftStep DEF data, user

-----------------------------------------------------------------------------
(* Accept *)

\* The first connection in the queue of n is k, and is taken out of it.
Pops(n, k) ==
    backlog[n] # <<>> /\ k = Head(backlog[n]) /\ backlog' = [backlog EXCEPT ![n] = Tail(@)]

\* All others stay queued.
QueuedStill(k) ==
    \A m \in Node : \A x \in DOMAIN backlog[m] :
      backlog[m][x] # k => \E y \in DOMAIN backlog'[m] : backlog'[m][y] = backlog[m][x]

\* A listener accepts the first connection of its queue.
LEMMA QueuesPop ==
    ASSUME NEW t, NEW t2, Queues(t), DOMAIN backlog = Node, NEW n \in Node,
           NEW k \in Conns, Pops(n, k), SameBut(t, t2, k), DOMAIN t = Conns
    PROVE  Queues(t2)' /\ QueuedStill(k)
  <1> DEFINE q == backlog[n]
             r == backlog'[n]
  <1>a. backlog[n] # <<>> /\ k = Head(backlog[n]) /\ backlog' = [backlog EXCEPT ![n] = Tail(@)]
    BY DEF Pops
  <1>0. \A x \in Conns \ {k} : t2[x] = t[x]
    BY DEF SameBut
  <1>1. /\ q \in Seq(Conns) /\ \A x \in DOMAIN q : q[x].to = n /\ t[q[x]] = "queued"
        /\ \A x, y \in DOMAIN q : q[x] = q[y] => x = y
    BY DEF Queues
  <1>2. DOMAIN backlog' = Node /\ \A m \in Node \ {n} : backlog'[m] = backlog[m]
    BY <1>a
  <1>3. r = Tail(q)
    BY <1>a
  <1>4. q # <<>> /\ k = Head(q)
    BY <1>a
  <1> HIDE DEF q, r
  <1>5. /\ r \in Seq(Conns) /\ Len(q) \in Nat /\ Len(q) >= 1 /\ Len(r) = Len(q) - 1 /\ q[1] = k
        /\ \A x \in 1 .. Len(r) : r[x] = q[x + 1]
        /\ DOMAIN q = 1 .. Len(q) /\ DOMAIN r = 1 .. Len(r)
    BY <1>1, <1>3, <1>4
  <1>6. \A x \in DOMAIN r : x + 1 \in DOMAIN q /\ x + 1 # 1 /\ 1 \in DOMAIN q
    BY <1>5
  <1>7. \A x \in DOMAIN r : r[x] \in Conns /\ r[x] # k /\ r[x].to = n /\ t2[r[x]] = "queued"
    <2> SUFFICES ASSUME NEW x \in DOMAIN r
                 PROVE  r[x] \in Conns /\ r[x] # k /\ r[x].to = n /\ t2[r[x]] = "queued"
      OBVIOUS
    <2>1. r[x] = q[x + 1] /\ x + 1 \in DOMAIN q /\ x + 1 # 1 /\ 1 \in DOMAIN q
      BY <1>5, <1>6
    <2>2. r[x].to = n /\ t[r[x]] = "queued" /\ r[x] \in Conns
      BY <1>1, <1>5, <2>1
    <2>3. r[x] # k
      BY <1>1, <1>5, <2>1
    <2> QED BY <1>0, <2>2, <2>3
  <1>8. \A x, y \in DOMAIN r : r[x] = r[y] => x = y
    <2> SUFFICES ASSUME NEW x \in DOMAIN r, NEW y \in DOMAIN r, r[x] = r[y] PROVE x = y
      OBVIOUS
    <2>1. q[x + 1] = q[y + 1] /\ x + 1 \in DOMAIN q /\ y + 1 \in DOMAIN q /\ x \in Nat /\ y \in Nat
      BY <1>5, <1>6
    <2>2. x + 1 = y + 1
      BY <1>1, <2>1
    <2> QED BY <2>1, <2>2
  <1>9. \A x \in DOMAIN q : q[x] # k => \E y \in DOMAIN r : r[y] = q[x]
    <2> SUFFICES ASSUME NEW x \in DOMAIN q, q[x] # k PROVE \E y \in DOMAIN r : r[y] = q[x]
      OBVIOUS
    <2>1. x - 1 \in DOMAIN r /\ r[x - 1] = q[x]
      BY <1>5
    <2> QED BY <2>1
  <1>10. ASSUME NEW m \in Node
         PROVE  /\ backlog'[m] \in Seq(Conns)
                /\ \A x \in DOMAIN backlog'[m] : backlog'[m][x].to = m /\ t2[backlog'[m][x]] = "queued"
                /\ \A x, y \in DOMAIN backlog'[m] : backlog'[m][x] = backlog'[m][y] => x = y
                /\ \A x \in DOMAIN backlog[m] :
                     backlog[m][x] # k => \E y \in DOMAIN backlog'[m] : backlog'[m][y] = backlog[m][x]
    <2>1. CASE m = n
      BY <1>5, <1>7, <1>8, <1>9, <2>1 DEF q, r
    <2>2. CASE m # n
      <3>1. k.to = n
        BY <1>1, <1>5
      <3>2. /\ backlog'[m] = backlog[m] /\ backlog[m] \in Seq(Conns)
            /\ \A x \in DOMAIN backlog[m] : backlog[m][x].to = m /\ t[backlog[m][x]] = "queued"
            /\ \A x, y \in DOMAIN backlog[m] : backlog[m][x] = backlog[m][y] => x = y
        BY <1>2, <2>2 DEF Queues
      <3>3. \A x \in DOMAIN backlog[m] : backlog[m][x] \in Conns /\ backlog[m][x] # k
        BY <2>2, <3>1, <3>2
      <3> QED BY <1>0, <3>2, <3>3
    <2> QED BY <2>1, <2>2
  <1> QED BY <1>2, <1>10 DEF Queues, QueuedStill

LEMMA AcceptStep ==
    ASSUME NEW s \in Stories, NEW t \in [Conns -> Stage], Explains(s, t), NEW n \in Node, Accept(n)
    PROVE  \E t2 \in [Conns -> Stage] : Explains(s, t2)'
  <1>1. /\ Thread(s, t, n) /\ Typed /\ Queues(t) /\ DOMAIN wire = {x \in Conns : t[x] # "none"}
    BY DEF Explains
  <1>2. /\ pc[n] \in {"idle", "collect"} /\ (pc[n] = "collect" => ~AllCollected(ms[n]))
        /\ backlog[n] # <<>>
        /\ fd' = [fd EXCEPT ![n] = Head(backlog[n])]
        /\ backlog' = [backlog EXCEPT ![n] = Tail(@)]
        /\ UNCHANGED <<wire, client_fd, packet, ms, call, todo, data, user, merged, strayed>>
    BY DEF Accept, At
  <1>3. /\ DOMAIN pc = Node /\ DOMAIN pc' = Node /\ DOMAIN fd = Node /\ DOMAIN fd' = Node
        /\ DOMAIN backlog = Node /\ DOMAIN backlog' = Node
        /\ fd'[n] = Head(backlog[n]) /\ \A m \in Node \ {n} : pc'[m] = pc[m] /\ fd'[m] = fd[m]
        /\ pc'[n] = (IF pc[n] = "idle" THEN "identify" ELSE "collect_identify")
    BY <1>1, <1>2 DEF Accept, Goto, Typed
  <1>4. PICK k \in Conns : k = Head(backlog[n]) /\ k.to = n /\ t[k] = "queued"
    <2>1. /\ backlog[n] \in Seq(Conns) /\ backlog[n] # <<>>
          /\ \A x \in DOMAIN backlog[n] : backlog[n][x].to = n /\ t[backlog[n][x]] = "queued"
      BY <1>1, <1>2 DEF Queues
    <2>2. Head(backlog[n]) = backlog[n][1] /\ 1 \in DOMAIN backlog[n] /\ backlog[n][1] \in Conns
      BY <2>1
    <2> QED BY <2>1, <2>2
  <1>5. /\ Link(s, t, k) /\ k \in DOMAIN wire /\ DOMAIN wire[k] = {"up", "down"} /\ client[k.c] # "off"
    BY <1>4, Attached
  <1>6. /\ Shape(s, t, k) /\ Caller(s, t, k) /\ CallTalk(s, t, k) /\ LineTalk(s, t, k) /\ RelayTalk(s, t, k)
    BY <1>5 DEF Link
  <1>7. PICK t2 \in [Conns -> Stage] : t2[k] = "identify" /\ SameBut(t, t2, k)
    <2>1. "identify" \in Stage
      BY DEF Stage, LineStages
    <2> QED BY <2>1, Advance
  <1>8. \A x \in Conns \ {k} : t2[x] = t[x]
    BY <1>7 DEF SameBut
  <1>9. /\ Queues(t2)'
        /\ \A m \in Node : \A x \in DOMAIN backlog[m] :
             backlog[m][x] # k => \E y \in DOMAIN backlog'[m] : backlog'[m][y] = backlog[m][x]
    <2>1. DOMAIN t = Conns /\ DOMAIN backlog = Node /\ Pops(n, k)
      BY <1>2, <1>3, <1>4 DEF Pops
    <2>2. Queues(t2)' /\ QueuedStill(k)
      BY <1>1, <1>4, <1>7, <2>1, QueuesPop
    <2> QED BY <2>2 DEF QueuedStill
  <1>10. Elsewhere(n)
    BY <1>2, <1>3 DEF Elsewhere
  <1>11. pc[n] = "idle" => k.kind # "deliver"
    <2> SUFFICES ASSUME pc[n] = "idle", k.kind = "deliver" PROVE FALSE
      OBVIOUS
    <2>1. /\ k.c \in Client /\ k = DeliverOf(s, k.c, k.i) /\ k.i \in 1 .. Parts[s.want[k.c]]
          /\ s.home[k.c] # Index
      BY <1>6, ConnType DEF Shape
    <2>2. s.home[k.c] = n
      BY <1>4, <2>1, ConnsOf
    <2>3. Fetch(s, t, k.c, k.i) /\ Tally(s, t, k.c)
      BY <1>5, <2>1 DEF Explains, Request
    <2>4. t[LineOf(s, k.c)] \in {"answer", "collect"}
      BY <1>4, <2>1, <2>3 DEF Fetch, Undelivered
    <2>5. t[LineOf(s, k.c)] # "collect"
      BY <2>2, <2>3 DEF Tally, Collecting
    <2>6. t[LineOf(s, k.c)] # "answer"
      BY <2>1, <2>2, ConnsOf, Attached DEF Seated
    <2> QED BY <2>4, <2>5, <2>6
  <1>12. Link(s, t2, k)'
    <2>1. Shape(s, t2, k)
      BY <1>4, <1>6, <1>7 DEF Shape, LineStages, CallStages, ReadRelayStages, WriteRelayStages
    <2>2. Seat(t2, k)'
      BY <1>3, <1>4, <1>7 DEF Seat
    <2>3. Caller(s, t2, k)'
      <3>1. Dialling(s, t2, k) => Dialling(s, t, k) /\ Remaining(s, t2, k) = Remaining(s, t, k)
        BY <1>4, <1>7 DEF Dialling, Remaining
      <3> QED BY <1>4, <1>6, <1>10, <3>1, CallerWaits
    <2>4. LineTalk(s, t2, k)'
      BY <1>2, <1>4, <1>6, <1>7 DEF LineTalk, Is, Has, user
    <2>5. CallTalk(s, t2, k)'
      BY <1>2, <1>4, <1>6, <1>7 DEF CallTalk, Has
    <2>6. RelayTalk(s, t2, k)'
      BY <1>2, <1>4, <1>6, <1>7 DEF RelayTalk, Forwarded, user
    <2> QED BY <1>2, <1>5, <2>1, <2>2, <2>3, <2>4, <2>5, <2>6 DEF Link
  <1>13. Typed'
    BY <1>1, <1>2, <1>3 DEF Typed, data, user
  <1>14. Thread(s, t2, n)'
    <2>1. \A x \in Conns : /\ t[x] # "none" => t2[x] # "none"
                           /\ t[x] \notin {"none", "queued", "identify"} =>
                                t2[x] \notin {"none", "queued", "identify"}
                           /\ t[x] = "collect" => t2[x] = "collect"
      BY <1>4, <1>7, <1>8
    <2>2. CASE pc[n] = "idle"
      BY <1>1, <1>2, <1>3, <1>4, <1>7, <1>11, <2>1, <2>2 DEF Thread, Serves, Position, Collecting
    <2>3. CASE pc[n] = "collect"
      <3>1. ms[n].found < ms[n].count
        <4>1. ms[n].found \in Nat /\ ms[n].count \in Nat /\ ms[n].found <= ms[n].count
          BY <1>1 DEF Typed, Machine
        <4> QED BY <1>2, <2>3, <4>1 DEF AllCollected
      <3> QED BY <1>1, <1>2, <1>3, <1>4, <1>7, <2>1, <2>3, <3>1 DEF Thread, Serves, Position, Collecting
    <2> QED BY <1>2, <2>2, <2>3
  <1>15. Inquiry(s, t2)' /\ Handout(s, t2)'
    <2>1. pc'[n] \notin {"ask", "fanout", "call"}
      BY <1>3
    <2> QED BY <1>2, <1>4, <1>7, <1>10, <2>1, SoftAside
  <1>16. Alike(s, t[k], t2[k], k)
    <2>1. k.kind \in Kinds /\ (k.kind = "relay" => s.op[k.c] \in {"read", "write"})
      BY <1>6, ConnType DEF Shape
    <2> QED BY <1>4, <1>7, <2>1 DEF Alike, Within, Kinds, Undelivered
  <1>17. Dialling(s, t, k) => Dialling(s, t2, k)
    BY <1>4, <1>7 DEF Dialling
  <1>18. \A x \in Conns : x \in {k} /\ t2[x] # "none" => Link(s, t2, x)'
    BY <1>12
  <1>19. /\ DOMAIN wire' = DOMAIN wire /\ \A y \in DOMAIN wire \ {k} : wire'[y] = wire[y]
         /\ \A y \in DOMAIN wire :
              /\ y.kind = "client" /\ wire[y].up = <<>> => wire'[y].up = <<>>
              /\ y.kind = "relay" /\ t[y] \in {"asking", "asked", "refused"} => wire'[y].down = wire[y].down
    BY <1>2
  <1>20. pc[n] \in Collecting => pc'[n] \in Collecting /\ ms'[n] = ms[n]
    BY <1>2, <1>3 DEF Collecting
  <1>21. \A m \in Node : \A x \in DOMAIN backlog[m] :
           backlog[m][x] \notin {k} => \E y \in DOMAIN backlog'[m] : backlog'[m][y] = backlog[m][x]
    BY <1>9
  <1>22. /\ UNCHANGED <<client, got, at, files, complete, fs, todo>>
         /\ t[k] \notin {"none", "fanout", "stored", "asking", "over"}
         /\ t2[k] \notin {"none", "fanout", "stored", "over"} /\ k \in {k}
         /\ pc[n] \notin {"idle", "collect"} => fd[n] \in {k}
         /\ pc[n] = "call" => call[n].conn \in {k}
    BY <1>2, <1>4, <1>7 DEF data, user
  <1> QED BY <1>4, <1>7, <1>9, <1>10, <1>13, <1>14, <1>15, <1>16, <1>17, <1>18, <1>19, <1>20,
             <1>21, <1>22, SoftMove

-----------------------------------------------------------------------------
(* A step that concerns one request, and may open a connection for it *)

\* A step that concerns the request of client c leaves the other requests alone.
LEMMA OneRequest ==
    ASSUME NEW s \in Stories, NEW t \in [Conns -> Stage], NEW t2 \in [Conns -> Stage], Explains(s, t),
           NEW n \in Node, NEW c0 \in Client, client[c0] # "off", NEW K, Elsewhere(n), Typed',
           UNCHANGED <<client, got, at>>,
           \A id \in DOMAIN files : id \in DOMAIN files' /\ files'[id] = files[id],
           \A x \in Conns \ K : t2[x] = t[x] /\ (t[x] # "none" => wire'[x] = wire[x]),
           \A x \in Conns : x \in K => x.c = c0 /\ (t[x] = "stored" => t2[x] = "stored"),
           LineOf(s, c0) \in K /\ Forwarded(s, c0) => wire'[LineOf(s, c0)].up = <<>>,
           DOMAIN wire' = {x \in Conns : t2[x] # "none"}, Queues(t2)',
           \A m \in Node : \A x \in DOMAIN backlog[m] :
              backlog[m][x] \notin K => \E y \in DOMAIN backlog'[m] : backlog'[m][y] = backlog[m][x],
           pc[n] \notin {"idle", "collect"} => fd[n] \in K, pc[n] = "call" => call[n].conn \in K,
           \A c \in Client \ {c0} : c \in complete' <=> c \in complete,
           pc[n] \in Collecting => \/ pc'[n] \in Collecting /\ ms'[n] = ms[n]
                                   \/ ms[n].from = LineOf(s, c0),
           Ripple(s, t, t2, n),
           \A x \in Conns : x \in K /\ t2[x] # "none" => Link(s, t2, x)' /\ Bound(s, t2, x),
           Granted(s, t, c0) => Granted(s, t2, c0), Numbered(s, t, c0) => Numbered(s, t2, c0),
           Thread(s, t2, n)', Request(s, t2, c0)',
           Inquiry(s, t2)', Handout(s, t2)', Numbering(s, t2)', Shelves(s, t2)'
    PROVE  Explains(s, t2)'
  <1>1. (\A c \in Client : Request(s, t, c)) /\ Numbering(s, t)
    BY DEF Explains
  <1>2. Moves(s, t, t2, n, K)
    <2>1. ASSUME NEW c \in Client, Forwarded(s, c), LineOf(s, c) \in K
          PROVE  wire'[LineOf(s, c)].up = <<>>
      <3>1. c = c0
        BY <2>1, ConnsOf
      <3> QED BY <2>1, <3>1
    <2> QED BY <2>1, NodeMoves
  <1>3. \A x \in Conns : t[x] = "stored" => t2[x] = "stored"
    OBVIOUS
  <1>4. ASSUME NEW c \in Client \ {c0} PROVE Request(s, t2, c)'
    <2>1. \A x \in Conns : x.c = c => t2[x] = t[x] /\ (t[x] # "none" => wire'[x] = wire[x])
      BY <1>4
    <2>2. \A x \in Conns : x.c = c => Alike(s, t[x], t2[x], x)
      BY <2>1 DEF Alike
    <2>3. t[RelayOf(s, c)] \in {"asking", "asked", "refused"} =>
            wire'[RelayOf(s, c)].down = wire[RelayOf(s, c)].down
      BY <2>1, ConnsOf
    <2>4. t[LineOf(s, c)] = "collect" =>
            pc'[s.home[c]] \in Collecting /\ ms'[s.home[c]] = ms[s.home[c]]
      <3> SUFFICES ASSUME t[LineOf(s, c)] = "collect"
                   PROVE  pc'[s.home[c]] \in Collecting /\ ms'[s.home[c]] = ms[s.home[c]]
        OBVIOUS
      <3>1. s.home[c] \in Node /\ LineOf(s, c) \in Conns /\ LineOf(s, c).c = c /\ LineOf(s, c0).c = c0
        BY StoryType, ConnsOf
      <3>2. client[c] # "off"
        BY <3>1, Attached
      <3>3. pc[s.home[c]] \in Collecting /\ ms[s.home[c]].from = LineOf(s, c)
        BY <1>1, <3>2 DEF Request, Tally
      <3> QED BY <1>4, <3>1, <3>3 DEF Elsewhere
    <2> QED BY <1>1, <1>3, <1>4, <2>2, <2>3, <2>4, RequestFrame
  <1>5. ASSUME NEW x \in Conns, t2[x] # "none" PROVE Bound(s, t2, x)
    <2>1. CASE x \in K
      BY <1>5, <2>1
    <2>2. CASE x \notin K
      <3>1. Bound(s, t, x) /\ x.c \in Client
        BY <1>5, <2>2, Attached, ConnType
      <3>2. CASE x.c = c0
        BY <3>1, <3>2 DEF Bound
      <3>3. CASE x.c # c0
        <4>1. t2[Job(s, x.c)] = t[Job(s, x.c)]
          <5>1. Job(s, x.c) \in Conns /\ Job(s, x.c).c = x.c
            BY <3>1, ConnsOf
          <5> QED BY <3>3, <5>1
        <4> QED BY <3>1, <4>1 DEF Bound, Granted, Numbered
      <3> QED BY <3>2, <3>3
    <2> QED BY <2>1, <2>2
  <1>6. \A c \in Client : Request(s, t2, c)'
    BY <1>4
  <1>7. \A x \in Conns : x \in K /\ t2[x] # "none" => client'[x.c] # "off" /\ Link(s, t2, x)'
    OBVIOUS
  <1> QED BY <1>2, <1>5, <1>6, <1>7, Together

\* It leaves the index's work for another request, the numbers and the shelves alone, too.
LEMMA InquiryApart ==
    ASSUME NEW s \in Stories, NEW t, NEW t2, Explains(s, t), NEW n \in Node, Elsewhere(n), todo' = todo,
           n = Index => ~Working("ask")',
           \A x \in Conns : t[x] = "asking" => t2[x] = "asking",
           \A x \in Conns : x.kind \in {"ask", "deliver"} /\ t[x] = "none" /\ t2[x] # "none" =>
                              x.kind = "deliver" /\ t[AskOf(x.c, x.i)] # "none"
    PROVE  Inquiry(s, t2)'
  <1> DEFINE c == fd[Index].c
             f == s.want[c]
  <1> SUFFICES ASSUME Working("ask")'
               PROVE  /\ Serves(t2, Index, {"asking"})' /\ fd'[Index] = Job(s, c)
                      /\ ms'[Index].file = s.file[c] /\ ms'[Index].to = Reader(s, c)
                      /\ fd'[Index].c = c
                      /\ Len(todo) <= Parts[f]
                      /\ \A j \in 1 .. Len(todo) : todo[j] = Chosen[f][Parts[f] - Len(todo) + j]
                      /\ \A i \in Parts[f] - Len(todo) + 1 .. Parts[f] :
                           t2[AskOf(c, i)] = "none" /\ t2[DeliverOf(s, c, i)] = "none"
    BY DEF Inquiry
  <1>1. Working("ask") /\ fd'[Index] = fd[Index] /\ ms'[Index] = ms[Index]
    <2>1. n # Index /\ Index \in Node
      BY ParameterFacts
    <2> QED BY <2>1 DEF Elsewhere, Working
  <1>2. /\ Serves(t, Index, {"asking"}) /\ fd[Index] = Job(s, c)
        /\ ms[Index].file = s.file[c] /\ ms[Index].to = Reader(s, c)
        /\ Len(todo) <= Parts[f]
        /\ \A j \in 1 .. Len(todo) : todo[j] = Chosen[f][Parts[f] - Len(todo) + j]
        /\ \A i \in Parts[f] - Len(todo) + 1 .. Parts[f] :
             t[AskOf(c, i)] = "none" /\ t[DeliverOf(s, c, i)] = "none"
    BY <1>1 DEF Inquiry, Explains
  <1>3. Serves(t2, Index, {"asking"})'
    BY <1>1, <1>2 DEF Serves
  <1>4. c \in Client /\ f \in Name
    <2>1. fd[Index] \in Conns
      BY <1>2 DEF Serves
    <2> QED BY <2>1, ConnType, StoryType
  <1>7. fd'[Index].c = c
    BY <1>1
  <1> HIDE DEF c, f
  <1>5. ASSUME NEW i \in Parts[f] - Len(todo) + 1 .. Parts[f], i \in Node,
               t[AskOf(c, i)] = "none", t[DeliverOf(s, c, i)] = "none"
        PROVE  t2[AskOf(c, i)] = "none" /\ t2[DeliverOf(s, c, i)] = "none"
    <2>1. /\ AskOf(c, i) \in Conns /\ DeliverOf(s, c, i) \in Conns
          /\ AskOf(c, i).kind = "ask" /\ DeliverOf(s, c, i).kind = "deliver"
          /\ DeliverOf(s, c, i).c = c /\ DeliverOf(s, c, i).i = i
      BY <1>4, <1>5, ConnsOf
    <2> QED BY <1>5, <2>1
  <1>6. \A i \in Parts[f] - Len(todo) + 1 .. Parts[f] : i \in Node
    <2>0. todo \in Seq(Pointer)
      BY DEF Explains, Typed
    <2>1. /\ Parts[f] \in Nat /\ \A i \in 1 .. Parts[f] : i \in Node
      BY <1>4, PartsFacts
    <2> QED BY <1>2, <2>0, <2>1
  <1> QED BY <1>1, <1>2, <1>3, <1>5, <1>6, <1>7

LEMMA HandoutApart ==
    ASSUME NEW s \in Stories, NEW t, NEW t2, Explains(s, t), NEW n \in Node, Elsewhere(n), todo' = todo,
           n = Index => ~Working("fanout")',
           \A x \in Conns : t[x] = "fanout" => t2[x] = "fanout",
           \A x \in Conns : x.kind = "store" => (t2[x] = "none" <=> t[x] = "none")
    PROVE  Handout(s, t2)'
  <1>1. Working("fanout")' =>
          /\ Working("fanout") /\ fd'[Index] = fd[Index] /\ ms'[Index] = ms[Index] /\ todo' = todo
          /\ pc'[Index] = "call" => pc[Index] = "call" /\ call'[Index].conn = call[Index].conn
    <2> SUFFICES ASSUME Working("fanout")'
                 PROVE  /\ Working("fanout") /\ fd'[Index] = fd[Index] /\ ms'[Index] = ms[Index]
                        /\ todo' = todo
                        /\ pc'[Index] = "call" => pc[Index] = "call" /\ call'[Index].conn = call[Index].conn
      OBVIOUS
    <2>1. n # Index /\ Index \in Node
      BY ParameterFacts
    <2> QED BY <2>1 DEF Elsewhere, Working
  <1>2. Handout(s, t)
    BY DEF Explains
  <1> QED BY <1>1, <1>2, HandoutFrame

LEMMA FilesApart ==
    ASSUME NEW s \in Stories, NEW t, NEW t2, Explains(s, t), UNCHANGED <<files, client>>,
           \A x \in Conns : t2[x] \in {"fanout", "stored"} <=> t[x] \in {"fanout", "stored"}
    PROVE  Numbering(s, t2)'
  <1>1. Numbering(s, t)
    BY DEF Explains
  <1> QED BY <1>1, NumberingFrame

LEMMA ShelvesApart ==
    ASSUME NEW s \in Stories, NEW t, NEW t2, Explains(s, t), UNCHANGED <<files, fs>>,
           todo' = todo \/ \A x \in Conns : t[x] # "fanout",
           \A x \in Conns : t2[x] = "stored" <=> t[x] = "stored",
           \A x \in Conns : x.kind = "store" => (t2[x] = "over" <=> t[x] = "over")
    PROVE  Shelves(s, t2)'
  <1>1. Numbering(s, t) /\ Shelves(s, t)
    BY DEF Explains
  <1>2. ASSUME NEW c \in Client, Numbered(s, t, c) PROVE Left(s, t2, c)' = Left(s, t, c)
    <2>1. Job(s, c) \in Conns
      BY ConnsOf
    <2> QED BY <1>2, <2>1 DEF Left, Numbered
  <1> QED BY <1>1, <1>2, ShelvesFrame

\* The same for a step that moves one connection and leaves the queues alone.
LEMMA OneConn ==
    ASSUME NEW s \in Stories, NEW t \in [Conns -> Stage], NEW t2 \in [Conns -> Stage], Explains(s, t),
           NEW n \in Node, NEW c0 \in Client, NEW k \in Conns, k.c = c0, client[c0] # "off",
           Elsewhere(n), Typed', UNCHANGED <<client, got, at, backlog>>,
           \A id \in DOMAIN files : id \in DOMAIN files' /\ files'[id] = files[id],
           SameBut(t, t2, k), SameBut(wire, wire', k), t[k] \notin {"none", "queued", "stored"},
           t2[k] # "none",
           k = LineOf(s, c0) /\ Forwarded(s, c0) => wire'[k].up = <<>>,
           pc[n] \notin {"idle", "collect"} => fd[n] = k, pc[n] = "call" => call[n].conn = k,
           \A c \in Client \ {c0} : c \in complete' <=> c \in complete,
           pc[n] \in Collecting => \/ pc'[n] \in Collecting /\ ms'[n] = ms[n]
                                   \/ ms[n].from = LineOf(s, c0),
           Ripple(s, t, t2, n), Link(s, t2, k)', Bound(s, t2, k),
           Granted(s, t, c0) => Granted(s, t2, c0), Numbered(s, t, c0) => Numbered(s, t2, c0),
           Thread(s, t2, n)', Request(s, t2, c0)',
           Inquiry(s, t2)', Handout(s, t2)', Numbering(s, t2)', Shelves(s, t2)'
    PROVE  Explains(s, t2)'
  <1>1. Queues(t) /\ DOMAIN wire = {x \in Conns : t[x] # "none"}
    BY DEF Explains
  <1>2. \A x \in Conns \ {k} : t2[x] = t[x] /\ (t[x] # "none" => wire'[x] = wire[x])
    BY <1>1 DEF SameBut
  <1>3. DOMAIN wire' = {x \in Conns : t2[x] # "none"}
    BY <1>1, <1>2 DEF SameBut
  <1>4. Queues(t2)'
    <2>1. \A x \in Conns : t[x] = "queued" => t2[x] = "queued"
      BY <1>2
    <2> QED BY <1>1, <2>1, QueuesKept
  <1> DEFINE K == {k}
  <1>5. /\ \A x \in Conns \ K : t2[x] = t[x] /\ (t[x] # "none" => wire'[x] = wire[x])
        /\ \A x \in Conns : x \in K => x.c = c0 /\ (t[x] = "stored" => t2[x] = "stored")
        /\ LineOf(s, c0) \in K /\ Forwarded(s, c0) => wire'[LineOf(s, c0)].up = <<>>
        /\ \A m \in Node : \A x \in DOMAIN backlog[m] :
              backlog[m][x] \notin K => \E y \in DOMAIN backlog'[m] : backlog'[m][y] = backlog[m][x]
        /\ pc[n] \notin {"idle", "collect"} => fd[n] \in K
        /\ pc[n] = "call" => call[n].conn \in K
        /\ \A x \in Conns : x \in K /\ t2[x] # "none" => Link(s, t2, x)' /\ Bound(s, t2, x)
    BY <1>2
  <1> HIDE DEF K
  <1>6. UNCHANGED <<client, got, at>>
    OBVIOUS
  <1> QED BY <1>3, <1>4, <1>5, <1>6, OneRequest, ZenonT(60)

-----------------------------------------------------------------------------
(* Answered *)

\* Node n has called on k, and has an answer.
Called(s, t, n, k) ==
    /\ k.from = n /\ k.to # n /\ call[n].conn = k /\ IsCall(s, k)
    /\ call[n].script = Remaining(s, t, k) /\ call[n].ret = Return(k)
    /\ call[n].confirm = (k.kind \in {"ask", "deliver"})
    /\ Link(s, t, k) /\ k \in DOMAIN wire /\ DOMAIN wire[k] = {"up", "down"} /\ client[k.c] # "off"
    /\ wire[k].down = <<Ok>>
    /\ \/ t[k] = "hello" /\ wire[k].up = <<>>
       \/ t[k] = "ok" /\ k.kind \in {"deliver", "store"} /\ HasBytes(s, k) /\ wire[k].up = <<>>
       \/ t[k] = "done" /\ k.kind \in {"ask", "deliver"}

\* A caller that reads an answer is at one of the three points of its call.
LEMMA OnCall ==
    ASSUME NEW s \in Stories, NEW t \in [Conns -> Stage], Explains(s, t), NEW n \in Node,
           pc[n] = "call", Queue(call[n].conn, n) # <<>>
    PROVE  \E k \in Conns : Called(s, t, n, k)
  <1>1. PICK k \in Conns : call[n].conn = k /\ k.from = n /\ Dialling(s, t, k)
    BY DEF Explains, Thread
  <1>2. t[k] # "none"
    BY <1>1 DEF Dialling
  <1>3. /\ Link(s, t, k) /\ k \in DOMAIN wire /\ DOMAIN wire[k] = {"up", "down"} /\ client[k.c] # "off"
    BY <1>2, Attached
  <1>4. /\ Shape(s, t, k) /\ Caller(s, t, k) /\ CallTalk(s, t, k)
    BY <1>3 DEF Link
  <1>5. k.to # n /\ IsCall(s, k)
    BY <1>1, <1>4, CallEnds DEF Dialling
  <1>6. wire[k].down # <<>>
    BY <1>1, <1>5 DEF Queue, In
  <1>7. t[k] \notin {"queued", "identify", "said", "packet"}
    BY <1>4, <1>5, <1>6 DEF CallTalk, Has
  <1>8. ~(t[k] = "raw" /\ k.kind = "deliver")
    BY <1>4, <1>5, <1>6 DEF CallTalk, Has
  <1>9. t[k] \in {"hello", "done"} \/ (t[k] = "ok" /\ k.kind # "relay")
    BY <1>1, <1>7, <1>8 DEF Dialling
  <1>10. /\ t[k] = "ok" => k.kind \in {"deliver", "store"} /\ HasBytes(s, k)
         /\ t[k] = "done" => k.kind \in {"ask", "deliver"}
    <2>1. k.kind \in {"ask", "deliver", "store"} \/ k.kind = "relay"
      BY <1>5 DEF IsCall
    <2>2. k.kind = "relay" => t[k] \notin {"ok", "done"}
      BY <1>4 DEF Shape, ReadRelayStages, WriteRelayStages
    <2>3. k.kind = "ask" => t[k] # "ok"
      BY <1>4 DEF Shape
    <2>4. k.kind = "store" => t[k] # "done"
      BY <1>4 DEF Shape
    <2>5. k.kind = "deliver" /\ t[k] = "ok" => k.i # s.home[k.c]
      BY <1>4 DEF Shape
    <2> QED BY <2>1, <2>2, <2>3, <2>4, <2>5 DEF HasBytes
  <1>11. wire[k].down = <<Ok>> /\ (t[k] \in {"hello", "ok"} => wire[k].up = <<>>)
    BY <1>4, <1>5, <1>9 DEF CallTalk, Has
  <1>12. /\ call[n].script = Remaining(s, t, k) /\ call[n].ret = Return(k)
         /\ call[n].confirm = (k.kind \in {"ask", "deliver"})
    BY <1>1, <1>4 DEF Caller
  <1> QED BY <1>1, <1>3, <1>5, <1>9, <1>10, <1>11, <1>12 DEF Called

\* What the answer makes of the connection.
AfterOk(a) == IF a = "hello" THEN "said" ELSE IF a = "ok" THEN "raw" ELSE "over"

\* The wire, the call and the place of n behind it.
AnsweredCall(s, t, n, k) ==
    /\ SameBut(wire, wire', k) /\ DOMAIN wire'[k] = {"up", "down"}
    /\ wire'[k].down = <<>>
    /\ t[k] = "hello" => /\ wire'[k].up = <<First(s, k)>>
                         /\ call'[n] = [call[n] EXCEPT !.script = Rest(s, k)]
                         /\ pc'[n] = IF k.kind = "relay" THEN "answer" ELSE "call"
    /\ t[k] = "ok" => /\ wire'[k].up = <<Second(s, k)>>
                      /\ call'[n] = [call[n] EXCEPT !.script = <<>>]
                      /\ pc'[n] = IF k.kind = "store" THEN "fanout" ELSE "call"
    /\ t[k] = "done" => call'[n] = call[n] /\ pc'[n] = Return(k)

\* What the answer does, at each of the three points.
LEMMA CallSteps ==
    ASSUME NEW s \in Stories, NEW t \in [Conns -> Stage], Explains(s, t), NEW n \in Node, Answered(n),
           NEW k \in Conns, Called(s, t, n, k)
    PROVE  AnsweredCall(s, t, n, k)
  <1>1. /\ k.from = n /\ k.to # n /\ call[n].conn = k /\ IsCall(s, k)
        /\ call[n].script = Remaining(s, t, k) /\ call[n].ret = Return(k)
        /\ call[n].confirm = (k.kind \in {"ask", "deliver"})
        /\ k \in DOMAIN wire /\ DOMAIN wire[k] = {"up", "down"}
        /\ wire[k].down = <<Ok>> /\ Queue(k, n) = wire[k].down
    BY DEF Called, Queue, In
  <1>2. DOMAIN pc = Node /\ DOMAIN call = Node
    BY DEF Explains, Typed
  <1>3. PICK j \in 1 .. Len(wire[k].down) :
          LET w == Read(wire, k, n, j) IN
          IF call[n].script = <<>>
            THEN wire' = w /\ Goto(n, call[n].ret) /\ UNCHANGED call
            ELSE /\ wire' = Sent(w, k, n, <<Head(call[n].script)>>)
                 /\ call' = [call EXCEPT ![n].script = Tail(@)]
                 /\ Goto(n, IF Len(call[n].script) = 1 /\ ~call[n].confirm THEN call[n].ret ELSE "call")
    BY <1>1 DEF Answered
  <1>4. Takes(wire[k].down, j, <<Ok>>, <<>>)
    BY <1>1, TakesOne
  <1>5. ASSUME call[n].script # <<>>
        PROVE  /\ Flows(wire, wire', k, wire[k].up \o <<Head(call[n].script)>>, <<>>)
               /\ call'[n] = [call[n] EXCEPT !.script = Tail(call[n].script)]
               /\ pc'[n] = IF Len(call[n].script) = 1 /\ ~call[n].confirm THEN call[n].ret ELSE "call"
    <2>1. wire' = Sent(Read(wire, k, n, j), k, n, <<Head(call[n].script)>>)
      BY <1>3, <1>5
    <2>2. Flows(wire, wire', k, wire[k].up \o <<Head(call[n].script)>>,
                SubSeq(wire[k].down, j + 1, Len(wire[k].down)))
      BY <1>1, <2>1, CallerReplies
    <2>3. Flows(wire, wire', k, wire[k].up \o <<Head(call[n].script)>>, <<>>)
      BY <1>4, <2>2 DEF Takes
    <2> QED BY <1>2, <1>3, <1>5, <2>3 DEF Goto
  <1>6. ASSUME call[n].script = <<>>
        PROVE  /\ Flows(wire, wire', k, wire[k].up, <<>>) /\ call'[n] = call[n] /\ pc'[n] = call[n].ret
    <2>1. wire' = Read(wire, k, n, j)
      BY <1>3, <1>6
    <2>2. Flows(wire, wire', k, wire[k].up, SubSeq(wire[k].down, j + 1, Len(wire[k].down)))
      BY <1>1, <2>1, CallerReads
    <2>3. Flows(wire, wire', k, wire[k].up, <<>>)
      BY <1>4, <2>2 DEF Takes
    <2> QED BY <1>2, <1>3, <1>6, <2>3 DEF Goto
  <1>7. ASSUME t[k] = "hello" PROVE AnsweredCall(s, t, n, k)
    <2>1. call[n].script = Full(s, k) /\ wire[k].up = <<>>
      BY <1>1, <1>7 DEF Remaining, Called
    <2>2. /\ Full(s, k) # <<>> /\ Head(Full(s, k)) = First(s, k) /\ Tail(Full(s, k)) = Rest(s, k)
          /\ HasBytes(s, k) => Len(Full(s, k)) = 2
          /\ ~HasBytes(s, k) => Len(Full(s, k)) = 1
      <3>1. CASE HasBytes(s, k)
        BY <3>1, Reading2, Lengths DEF Full, Rest
      <3>2. CASE ~HasBytes(s, k)
        BY <3>2, Reading1, Lengths DEF Full, Rest
      <3> QED BY <3>1, <3>2
    <2>3. wire[k].up \o <<First(s, k)>> = <<First(s, k)>>
      BY <2>1, Sending
    <2>4. k.kind = "relay" => ~HasBytes(s, k) /\ ~call[n].confirm /\ call[n].ret = "answer"
      BY <1>1 DEF HasBytes, Return
    <2>5. k.kind # "relay" => HasBytes(s, k) \/ call[n].confirm
      BY <1>1 DEF HasBytes, IsCall
    <2>6. Flows(wire, wire', k, <<First(s, k)>>, <<>>)
      BY <1>5, <2>1, <2>2, <2>3
    <2>7. pc'[n] = IF k.kind = "relay" THEN "answer" ELSE "call"
      <3>1. CASE k.kind = "relay"
        <4>1. Len(call[n].script) = 1 /\ ~call[n].confirm /\ call[n].ret = "answer"
          BY <2>1, <2>2, <2>4, <3>1
        <4> QED BY <1>5, <2>1, <2>2, <3>1, <4>1
      <3>2. CASE k.kind # "relay"
        <4>1. Len(call[n].script) = 2 \/ call[n].confirm
          BY <2>1, <2>2, <2>5, <3>2
        <4> QED BY <1>5, <2>1, <2>2, <3>2, <4>1
      <3> QED BY <3>1, <3>2
    <2>8. call'[n] = [call[n] EXCEPT !.script = Rest(s, k)]
      BY <1>5, <2>1, <2>2
    <2> QED BY <1>7, <2>6, <2>7, <2>8 DEF AnsweredCall, Flows
  <1>8. ASSUME t[k] = "ok" PROVE AnsweredCall(s, t, n, k)
    <2>1. call[n].script = <<Second(s, k)>> /\ wire[k].up = <<>> /\ k.kind \in {"deliver", "store"}
      BY <1>1, <1>8 DEF Remaining, Rest, Called
    <2>2. Head(<<Second(s, k)>>) = Second(s, k) /\ Tail(<<Second(s, k)>>) = <<>>
          /\ Len(<<Second(s, k)>>) = 1 /\ <<Second(s, k)>> # <<>>
      BY Reading1, Lengths
    <2>3. wire[k].up \o <<Second(s, k)>> = <<Second(s, k)>>
      BY <2>1, Sending
    <2>4. k.kind = "store" => call[n].ret = "fanout"
      BY <1>1 DEF Return
    <2>5. Flows(wire, wire', k, <<Second(s, k)>>, <<>>)
      BY <1>5, <2>1, <2>2, <2>3
    <2>6. pc'[n] = IF k.kind = "store" THEN "fanout" ELSE "call"
      <3>1. k.kind = "store" => ~call[n].confirm
        BY <1>1
      <3>2. k.kind = "deliver" => call[n].confirm
        BY <1>1
      <3> QED BY <1>5, <2>1, <2>2, <2>4, <3>1, <3>2
    <2>7. call'[n] = [call[n] EXCEPT !.script = <<>>]
      BY <1>5, <2>1, <2>2
    <2> QED BY <1>8, <2>5, <2>6, <2>7 DEF AnsweredCall, Flows
  <1>9. ASSUME t[k] = "done" PROVE AnsweredCall(s, t, n, k)
    <2>1. call[n].script = <<>>
      BY <1>1, <1>9 DEF Remaining
    <2> QED BY <1>1, <1>6, <1>9, <2>1 DEF AnsweredCall, Flows
  <1> QED BY <1>7, <1>8, <1>9 DEF Called

\* server_wait_ok in a call: the next packet of the script goes out, or the call returns.
LEMMA AnsweredStep ==
    ASSUME NEW s \in Stories, NEW t \in [Conns -> Stage], Explains(s, t), NEW n \in Node, Answered(n),
           NEW k \in Conns, Called(s, t, n, k), k.kind # "relay"
    PROVE  \E t2 \in [Conns -> Stage] : Explains(s, t2)'
  <1>1. /\ Thread(s, t, n) /\ Typed /\ Queues(t) /\ Inquiry(s, t)
        /\ DOMAIN wire = {x \in Conns : t[x] # "none"}
    BY DEF Explains
  <1>2. /\ pc[n] = "call"
        /\ UNCHANGED <<backlog, fd, client_fd, packet, ms, todo, data, user, strayed>>
    BY DEF Answered, At
  <1>3. AnsweredCall(s, t, n, k)
    BY CallSteps
  <1>4. /\ k.from = n /\ k.to # n /\ call[n].conn = k /\ IsCall(s, k)
        /\ call[n].script = Remaining(s, t, k) /\ call[n].ret = Return(k)
        /\ call[n].confirm = (k.kind \in {"ask", "deliver"})
        /\ Link(s, t, k) /\ k \in DOMAIN wire /\ client[k.c] # "off"
        /\ t[k] \in {"hello", "ok", "done"}
    BY DEF Called
  <1>5. /\ Shape(s, t, k) /\ Seat(t, k) /\ Caller(s, t, k)
        /\ CallTalk(s, t, k) /\ LineTalk(s, t, k) /\ RelayTalk(s, t, k)
    BY <1>4 DEF Link
  <1>20. call[n] = [conn |-> k, script |-> Remaining(s, t, k),
                    confirm |-> k.kind \in {"ask", "deliver"}, ret |-> Return(k)]
    <2>1. Dialling(s, t, k)
      BY <1>4 DEF Dialling, IsCall, Called
    <2> QED BY <1>4, <1>5, <2>1 DEF Caller
  <1>6. Typed' /\ Elsewhere(n) /\ pc'[n] \in {"call", Return(k)}
    <2>1. /\ DOMAIN pc = Node /\ DOMAIN call = Node /\ merged \in BOOLEAN
          /\ DOMAIN pc' = Node /\ DOMAIN call' = Node /\ merged' \in BOOLEAN
          /\ \A m \in Node \ {n} : pc'[m] = pc[m] /\ call'[m] = call[m]
      <3>1. DOMAIN pc = Node /\ DOMAIN call = Node /\ merged \in BOOLEAN
        BY <1>1 DEF Typed
      <3>2. merged' \in BOOLEAN
        BY <3>1 DEF Answered, Recv
      <3>3. PICK p : pc' = [pc EXCEPT ![n] = p]
        BY DEF Answered, Goto
      <3>4. call' = call \/ call' = [call EXCEPT ![n].script = Tail(@)]
        BY DEF Answered
      <3>5. DOMAIN call' = Node /\ \A m \in Node \ {n} : call'[m] = call[m]
        BY <3>1, <3>4
      <3>6. DOMAIN pc' = Node /\ \A m \in Node \ {n} : pc'[m] = pc[m]
        BY <3>1, <3>3
      <3> QED BY <3>1, <3>2, <3>5, <3>6
    <2>2. Elsewhere(n)
      BY <1>2, <2>1 DEF Elsewhere
    <2>3. Typed'
      BY <1>1, <1>2, <2>1 DEF Typed, data, user
    <2>4. pc'[n] \in {"call", Return(k)}
      BY <1>3, <1>4 DEF AnsweredCall, Return
    <2> QED BY <2>2, <2>3, <2>4
  <1>7. PICK t2 \in [Conns -> Stage] : t2[k] = AfterOk(t[k]) /\ SameBut(t, t2, k)
    <2>1. AfterOk(t[k]) \in Stage
      BY DEF AfterOk, Stage, CallStages
    <2> QED BY <2>1, Advance
  <1>8. \A x \in Conns \ {k} : t2[x] = t[x]
    BY <1>7 DEF SameBut
  <1>9. k.kind \in {"ask", "deliver", "store"} /\ (t[k] = "done" => k.kind \in {"ask", "deliver"})
        /\ (t[k] = "ok" => k.kind \in {"deliver", "store"})
    BY <1>4 DEF IsCall, Called
  <1>10. /\ t[k] = "hello" => t2[k] = "said"
         /\ t[k] = "ok" => t2[k] = "raw"
         /\ t[k] = "done" => t2[k] = "over"
    BY <1>7 DEF AfterOk
  <1>11. Link(s, t2, k)'
    <2>1. Shape(s, t2, k)
      <3>1. t2[k] \in CallStages
        BY <1>4, <1>10 DEF CallStages
      <3> QED BY <1>4, <1>5, <1>9, <1>10, <3>1 DEF Shape
    <2>2. Seat(t2, k)'
      <3>1. fd'[k.to] = fd[k.to] /\ pc'[k.to] = pc[k.to]
        BY <1>4, <1>6, ConnType DEF Elsewhere
      <3> QED BY <1>4, <1>5, <1>10, <3>1 DEF Seat
    <2>3. Caller(s, t2, k)'
      <3> SUFFICES ASSUME Dialling(s, t2, k)
                   PROVE  /\ pc'[n] = "call"
                          /\ call'[n] = [conn |-> k, script |-> Remaining(s, t2, k),
                                         confirm |-> k.kind \in {"ask", "deliver"}, ret |-> Return(k)]
        BY <1>4 DEF Caller
      <3>1. CASE t[k] = "hello"
        BY <1>3, <1>9, <1>10, <1>20, <3>1 DEF AnsweredCall, Remaining
      <3>2. CASE t[k] = "ok"
        <4>1. k.kind = "deliver"
          BY <1>9, <1>10, <3>2 DEF Dialling
        <4> QED BY <1>3, <1>10, <1>20, <3>2, <4>1 DEF AnsweredCall, Remaining
      <3>3. CASE t[k] = "done"
        BY <1>10, <3>3 DEF Dialling
      <3> QED BY <1>4, <3>1, <3>2, <3>3
    <2>4. CallTalk(s, t2, k)'
      <3>1. packet'[k.to] = packet[k.to]
        BY <1>2
      <3> QED BY <1>3, <1>4, <1>5, <1>10, <3>1 DEF CallTalk, Has, AnsweredCall
    <2>5. LineTalk(s, t2, k)' /\ RelayTalk(s, t2, k)'
      BY <1>9 DEF LineTalk, RelayTalk
    <2>6. DOMAIN wire'[k] = {"up", "down"}
      BY <1>3 DEF AnsweredCall
    <2> QED BY <2>1, <2>2, <2>3, <2>4, <2>5, <2>6 DEF Link
  <1>12. Steady(t, t2)
    BY <1>4, <1>8, <1>10 DEF Steady
  <1>13. Inquiry(s, t2)' /\ Handout(s, t2)'
    <2>1. ASSUME NEW p \in {"ask", "fanout"}, Working(p)'
          PROVE  /\ Working(p) /\ fd'[Index] = fd[Index] /\ ms'[Index] = ms[Index] /\ todo' = todo
                 /\ pc'[Index] = "call" => pc[Index] = "call" /\ call'[Index].conn = call[Index].conn
      <3>1. CASE n = Index
        <4>1. call'[n].ret = call[n].ret /\ call'[n].conn = call[n].conn
          BY <1>3, <1>4, <1>20 DEF AnsweredCall
        <4> QED BY <1>2, <1>4, <1>6, <2>1, <3>1, <4>1 DEF Working
      <3>2. CASE n # Index
        BY <1>2, <1>6, <2>1, <3>2, ParameterFacts DEF Elsewhere, Working
      <3> QED BY <3>1, <3>2
    <2>2. \A x \in Conns : t[x] = "asking" => t2[x] = "asking"
      BY <1>4, <1>8
    <2> QED BY <1>12, <2>1, <2>2, IndexKept
  <1>14. ASSUME NEW x \in Conns, x = fd[n], x # k, t2[x] # "none" PROVE Link(s, t2, x)'
    <2>1. t2[x] = t[x] /\ t[x] # "none"
      BY <1>8, <1>14
    <2>2. Link(s, t, x) /\ x \in DOMAIN wire /\ (Dialling(s, t, x) => x.from # n)
      BY <1>4, <1>14, <2>1, Attached
    <2>3. /\ Shape(s, t, x) /\ Seat(t, x) /\ Caller(s, t, x)
          /\ CallTalk(s, t, x) /\ LineTalk(s, t, x) /\ RelayTalk(s, t, x) /\ x.to \in Node
      BY <2>2, ConnType DEF Link
    <2>4. wire'[x] = wire[x]
      BY <1>3, <1>14, <2>2 DEF AnsweredCall, SameBut
    <2>5. /\ t[x] = "queued" => \E y \in DOMAIN backlog'[x.to] : backlog'[x.to][y] = x
          /\ x.kind = "client" => client'[x.c] = client[x.c] /\ got'[x.c] = got[x.c]
          /\ Dialling(s, t, x) => pc'[x.from] = pc[x.from] /\ call'[x.from] = call[x.from]
      <3>1. t[x] = "queued" => \E y \in DOMAIN backlog'[x.to] : backlog'[x.to][y] = x
        BY <1>2, <2>3 DEF Seat
      <3>2. IsCall(s, x) => x.from \in Node
        BY <2>3, CallEnds
      <3> QED BY <1>2, <1>6, <2>2, <3>1, <3>2 DEF Elsewhere, user, Dialling
    <2>6. x.kind = "relay" /\ Forwarded(s, x.c) => Forwarded(s, x.c)'
      <3> SUFFICES ASSUME x.kind = "relay", Forwarded(s, x.c) PROVE Forwarded(s, x.c)'
        OBVIOUS
      <3>1. LineOf(s, x.c) \in Conns /\ LineOf(s, x.c) # k
        BY <1>9, ConnType, ConnsOf
      <3>2. t[LineOf(s, x.c)] # "none"
        BY <1>14, <2>1, Attached, ConnType DEF Explains, Request, Progress
      <3>3. wire'[LineOf(s, x.c)] = wire[LineOf(s, x.c)]
        BY <1>1, <1>3, <3>1, <3>2 DEF AnsweredCall, SameBut
      <3> QED BY <1>2, <3>3 DEF Forwarded, user
    <2>7. CASE t[x] \notin Seated \/ x.to # n
      <3>1. t[x] \in Seated => /\ pc'[x.to] = pc[x.to] /\ fd'[x.to] = fd[x.to]
                               /\ packet'[x.to] = packet[x.to] /\ call'[x.to] = call[x.to]
                               /\ ms'[x.to] = ms[x.to]
        BY <1>6, <2>3, <2>7 DEF Elsewhere
      <3> QED BY <2>1, <2>2, <2>4, <2>5, <2>6, <3>1, LinkFrame
    <2>8. CASE t[x] \in Seated /\ x.to = n
      <3>1. t[x] \in {"fanout", "asking", "relay"}
        BY <1>2, <2>3, <2>8 DEF Seat, Seated
      <3>2. t[x] # "relay"
        <4> SUFFICES ASSUME t[x] = "relay" PROVE FALSE
          OBVIOUS
        <4>1. x.kind = "client"
          BY <2>3, ConnType DEF Shape, Kinds, CallStages, ReadRelayStages, WriteRelayStages
        <4>2. k = RelayOf(s, x.c) /\ x.c \in Client
          BY <1>4, <2>3, <2>8, <4>1, ConnType DEF LineTalk
        <4> QED BY <1>4, <4>2, ConnsOf
      <3>3. x.kind \in {"client", "relay"} /\ x.to = Index
        <4>1. x.kind \in {"client", "relay"}
          BY <2>3, <3>1, <3>2, ConnType DEF Shape, Kinds, CallStages
        <4>2. x.kind = "relay" => x.to = Index
          BY <2>3, CallEnds
        <4>3. x.kind = "client" => x.to = Index
          BY <2>3, <3>1, <3>2 DEF LineTalk
        <4> QED BY <4>1, <4>2, <4>3
      <3>4. Return(k) = (IF t[x] = "fanout" THEN "fanout" ELSE "ask")
        <4>1. Return(k) \in {"fanout", "ask"}
          BY <1>4, <1>9, <2>8, <3>3 DEF Return
        <4>2. Return(k) = "ask" => t[x] = "asking"
          BY <1>1, <1>2, <1>4, <1>14, <2>8, <3>3 DEF Inquiry, Working, Serves
        <4>3. Return(k) = "fanout" => t[x] = "fanout"
          BY <1>2, <1>4, <1>14, <2>8, <3>3 DEF Explains, Handout, Working, Serves
        <4> QED BY <3>1, <3>2, <4>1, <4>2, <4>3
      <3>5. Seat(t2, x)'
        BY <1>2, <1>6, <1>14, <2>1, <2>8, <3>1, <3>2, <3>4 DEF Seat
      <3>6. Shape(s, t2, x)
        BY <2>1, <2>3 DEF Shape
      <3>7. ~Dialling(s, t2, x)
        BY <2>1, <3>1 DEF Dialling
      <3>8. CallTalk(s, t2, x)' /\ LineTalk(s, t2, x)'
        BY <1>2, <2>1, <2>3, <2>4, <3>1, <3>2 DEF CallTalk, LineTalk, Promised, Is, Has, user
      <3>9. RelayTalk(s, t2, x)'
        BY <2>1, <2>3, <2>6, <3>1, <3>2 DEF RelayTalk
      <3> QED BY <2>2, <2>4, <3>5, <3>6, <3>7, <3>8, <3>9 DEF Link, Caller
    <2> QED BY <2>7, <2>8
  <1>15. Thread(s, t2, n)'
    <2>1. \A x \in Conns : /\ t[x] # "none" => t2[x] # "none"
                           /\ t[x] \notin {"none", "queued", "identify"} =>
                                t2[x] \notin {"none", "queued", "identify"}
      BY <1>4, <1>8, <1>10
    <2>2. pc'[n] \in {"call", "ask", "fanout", "idle"} /\ (pc'[n] \in {"ask", "fanout"} => n = Index)
      <3>1. pc'[n] \in {"ask", "fanout"} => n = Index
        <4>1. k.kind \in {"ask", "store"} => k.from = Index
          BY <1>4, <1>5, <1>9, StoreConn, ConnsOf, ConnType DEF Shape, AskOf, Conn
        <4> QED BY <1>4, <1>6, <1>9, <4>1 DEF Return
      <3> QED BY <1>6, <1>9, <3>1 DEF Return
    <2>3. call'[n].conn = k
      BY <1>3, <1>4, <1>20 DEF AnsweredCall
    <2>4. pc'[n] = "call" => Dialling(s, t2, k)
      <3>1. t[k] = "done" => pc'[n] # "call"
        BY <1>3, <1>9 DEF AnsweredCall, Return
      <3>2. t[k] = "ok" /\ pc'[n] = "call" => k.kind = "deliver"
        BY <1>3, <1>9 DEF AnsweredCall
      <3> QED BY <1>4, <1>9, <1>10, <3>1, <3>2 DEF Dialling
    <2> QED BY <1>1, <1>2, <1>4, <2>1, <2>2, <2>3, <2>4 DEF Thread, Position, Collecting
  <1>16. Alike(s, t[k], t2[k], k)
    BY <1>4, <1>9, <1>10 DEF Alike, Within, Undelivered, Delivered
  <1>17. \A x \in Conns : x \in {k, fd[n]} /\ t2[x] # "none" => Link(s, t2, x)'
    BY <1>11, <1>14
  <1>18. k.kind = "store" => t2[k] # "over"
    BY <1>4, <1>9, <1>10
  <1>19. Pushed(t[k], t2[k])
    BY <1>4, <1>10 DEF Pushed
  <1>21. /\ SameBut(wire, wire', k) /\ UNCHANGED <<client, got, at, files, complete, fs, todo, backlog>>
         /\ t[k] \notin {"none", "fanout", "stored", "queued", "asking", "refused", "over"}
         /\ t[k] # "asked" /\ k.kind # "client" /\ pc[n] \notin Collecting
         /\ t2[k] \notin {"none", "fanout", "stored"} /\ k \in {k, fd[n]} /\ fd[n] \in {k, fd[n]}
    BY <1>2, <1>3, <1>4, <1>9, <1>10 DEF AnsweredCall, data, user, Collecting
  <1> QED BY <1>4, <1>6, <1>7, <1>13, <1>15, <1>16, <1>17, <1>18, <1>19, <1>21, SoftStep

-----------------------------------------------------------------------------
(* A node and its relay to the index *)

\* Connection k comes to stage v, and l to w.
Both(t, t2, k, v, l, w) == t2[k] = v /\ t2[l] = w /\ \A x \in Conns \ {k, l} : t2[x] = t[x]

\* A line and its relay go to other stages together.
LEMMA AdvanceTwo ==
    ASSUME NEW t \in [Conns -> Stage], NEW k \in Conns, NEW v \in Stage,
           NEW l \in Conns, NEW w \in Stage, k # l
    PROVE  \E t2 \in [Conns -> Stage] : Both(t, t2, k, v, l, w)
  <1> DEFINE t2 == [t EXCEPT ![k] = v, ![l] = w]
  <1>1. t2 \in [Conns -> Stage] /\ Both(t, t2, k, v, l, w)
    BY DEF Both
  <1> QED BY <1>1

\* The line of a client and the relay of its node move on together.
LEMMA RelayMove ==
    ASSUME NEW s \in Stories, NEW t \in [Conns -> Stage], NEW t2 \in [Conns -> Stage], Explains(s, t),
           NEW n \in Node, NEW c \in Client, client[c] # "off", s.home[c] = n, n # Index, Elsewhere(n),
           Typed', UNCHANGED <<client, got, at, files, complete, fs, todo>>,
           NEW l, NEW r, l = LineOf(s, c), r = RelayOf(s, c),
           \A x \in Conns \ {l, r} : t2[x] = t[x],
           DOMAIN wire' = DOMAIN wire \cup {r}, \A y \in DOMAIN wire \ {r} : wire'[y] = wire[y],
           t[l] \in {"packet", "relay"}, t2[l] \in {"relay", "answer", "raw"},
           (t[r] = "none" /\ t2[r] = "queued") \/ (t[r] = "hello" /\ t2[r] = "said"),
           Queues(t2)',
           \A m \in Node : \A x \in DOMAIN backlog[m] :
              backlog[m][x] # r => \E y \in DOMAIN backlog'[m] : backlog'[m][y] = backlog[m][x],
           pc[n] \in {"packet", "call"}, pc[n] = "call" => call[n].conn = r,
           Link(s, t2, l)', Link(s, t2, r)', Progress(s, t2, c), Thread(s, t2, n)'
    PROVE  Explains(s, t2)'
  <1>1. /\ l \in Conns /\ r \in Conns /\ l.kind = "client" /\ r.kind = "relay" /\ l.c = c /\ r.c = c
        /\ l.to = n /\ r.to = Index /\ r.from = n /\ l.from = Nowhere
    BY ConnsOf
  <1>2. l # r /\ Job(s, c) = r
    BY <1>1 DEF Job
  <1>3. fd[n] = l
    BY <1>1, Attached DEF Seated
  <1>4. DOMAIN wire = {x \in Conns : t[x] # "none"} /\ Request(s, t, c)
    BY DEF Explains
  <1>5. DOMAIN wire' = {x \in Conns : t2[x] # "none"}
    BY <1>1, <1>4
  <1>6. \A x \in Conns \ {l, r} : t2[x] = t[x] /\ (t[x] # "none" => wire'[x] = wire[x])
    BY <1>4
  <1>7. Request(s, t2, c)'
    <2>1. /\ Answers(s, t, c) /\ Doing(s, c) /\ Found(s, t, c) /\ HandedOut(s, t, c)
          /\ \A i \in 1 .. Parts[s.want[c]] : s.home[c] # Index => Fetch(s, t, c, i)
          /\ c \in complete <=> t[Job(s, c)] = "stored"
      BY <1>4 DEF Request
    <2>2. Answers(s, t2, c)'
      BY DEF Answers
    <2>3. Doing(s, c)'
      BY <2>1 DEF Doing
    <2>4. ASSUME NEW i \in 1 .. Parts[s.want[c]] PROVE Fetch(s, t2, c, i)
      <3>1. i \in Node
        BY StoryType, PartsFacts
      <3>2. /\ t2[DeliverOf(s, c, i)] = t[DeliverOf(s, c, i)] /\ t2[AskOf(c, i)] = t[AskOf(c, i)]
        BY <1>1, <1>6, <3>1, ConnsOf
      <3>3. Fetch(s, t, c, i)
        BY <2>1
      <3> QED BY <3>2, <3>3 DEF Fetch
    <2>5. Tally(s, t2, c)'
      BY DEF Tally
    <2>6. Found(s, t2, c)' /\ HandedOut(s, t2, c)
      BY <1>2 DEF Found, Granted, HandedOut
    <2>7. c \in complete' <=> t2[Job(s, c)] = "stored"
      BY <1>2, <2>1
    <2> QED BY <2>2, <2>3, <2>4, <2>5, <2>6, <2>7 DEF Request
  <1>8. \A x \in Conns : x.kind \in {"ask", "deliver", "store"} => t2[x] = t[x]
    BY <1>1, <1>6
  <1>9. Inquiry(s, t2)'
    BY <1>1, <1>6, <1>8, InquiryApart
  <1>10. Handout(s, t2)'
    BY <1>1, <1>6, <1>8, HandoutApart
  <1>11. \A x \in Conns : t2[x] \in {"fanout", "stored"} <=> t[x] \in {"fanout", "stored"}
    BY <1>1, <1>6
  <1>12. Numbering(s, t2)'
    BY <1>11, FilesApart
  <1>13. Shelves(s, t2)'
    <2>1. \A x \in Conns : t2[x] = "stored" <=> t[x] = "stored"
      BY <1>1, <1>6
    <2> QED BY <1>8, <2>1, ShelvesApart
  <1>14. Ripple(s, t, t2, n)
    <2>1. ~Dialling(s, t, l)
      BY <1>1 DEF Dialling, IsCall
    <2> QED BY <1>1, <1>6, <2>1 DEF Ripple, Pushed
  <1>15. ~Granted(s, t, c) /\ ~Numbered(s, t, c)
    BY <1>2 DEF Granted, Numbered
  <1>16. \A x \in Conns : x \in {l, r} /\ t2[x] # "none" => Link(s, t2, x)' /\ Bound(s, t2, x)
    BY <1>1 DEF Bound
  <1>17. /\ \A x \in Conns : x \in {l, r} => x.c = c /\ (t[x] = "stored" => t2[x] = "stored")
         /\ LineOf(s, c) \in {l, r} /\ Forwarded(s, c) => wire'[LineOf(s, c)].up = <<>>
         /\ \A m \in Node : \A x \in DOMAIN backlog[m] :
              backlog[m][x] \notin {l, r} => \E y \in DOMAIN backlog'[m] : backlog'[m][y] = backlog[m][x]
         /\ fd[n] \in {l, r} /\ (pc[n] = "call" => call[n].conn \in {l, r}) /\ pc[n] \notin Collecting
    BY <1>1, <1>3, <1>4, <1>2 DEF Collecting, Forwarded
  <1> QED BY <1>5, <1>6, <1>7, <1>9, <1>10, <1>12, <1>13, <1>14, <1>15, <1>16, <1>17, OneRequest

\* The same for the relay of a read: the call returns when the request is sent.
LEMMA AnsweredRelayStep ==
    ASSUME NEW s \in Stories, NEW t \in [Conns -> Stage], Explains(s, t), NEW n \in Node, Answered(n),
           NEW r \in Conns, Called(s, t, n, r), r.kind = "relay"
    PROVE  \E t2 \in [Conns -> Stage] : Explains(s, t2)'
  <1>1. /\ Thread(s, t, n) /\ Typed /\ Queues(t)
        /\ DOMAIN wire = {x \in Conns : t[x] # "none"}
    BY DEF Explains
  <1>2. /\ pc[n] = "call"
        /\ UNCHANGED <<backlog, fd, client_fd, packet, ms, todo, data, user, strayed>>
    BY DEF Answered, At
  <1>3. AnsweredCall(s, t, n, r)
    BY CallSteps
  <1>4. /\ r.from = n /\ r.to # n /\ call[n].conn = r /\ IsCall(s, r)
        /\ Link(s, t, r) /\ r \in DOMAIN wire /\ client[r.c] # "off"
        /\ t[r] = "hello" /\ wire[r].up = <<>>
    BY DEF Called
  <1>5. /\ Shape(s, t, r) /\ Seat(t, r) /\ Caller(s, t, r) /\ CallTalk(s, t, r)
    BY <1>4 DEF Link
  <1>6. PICK c \in Client : r.c = c
    BY ConnType
  <1>7. /\ r = RelayOf(s, c) /\ s.home[c] = n /\ n # Index /\ s.op[c] = "read" /\ r.to = Index
    BY <1>4, <1>5, <1>6, CallEnds DEF IsCall
  <1>8. PICK l \in Conns : /\ l = LineOf(s, c) /\ l.kind = "client" /\ l.c = c /\ l.to = n
                           /\ l.from = Nowhere /\ l # r
    BY <1>7, ConnsOf
  <1>9. t[l] = "relay"
    BY <1>4, <1>6, <1>7, <1>8 DEF Explains, Request, Progress
  <1>10. /\ fd[n] = l /\ Link(s, t, l) /\ l \in DOMAIN wire
    BY <1>8, <1>9, Attached DEF Seated
  <1>11. PICK t2 \in [Conns -> Stage] : /\ t2[r] = "said" /\ t2[l] = "answer"
                                        /\ \A x \in Conns \ {r, l} : t2[x] = t[x]
    <2>1. "said" \in Stage /\ "answer" \in Stage
      BY DEF Stage, CallStages, LineStages
    <2>2. PICK t2 \in [Conns -> Stage] : Both(t, t2, r, "said", l, "answer")
      BY <1>8, <2>1, AdvanceTwo
    <2> QED BY <2>2 DEF Both
  <1>12. /\ pc'[n] = "answer" /\ call'[n].conn = r
         /\ wire'[r].up = <<First(s, r)>> /\ wire'[r].down = <<>> /\ DOMAIN wire'[r] = {"up", "down"}
         /\ DOMAIN wire' = DOMAIN wire /\ \A y \in DOMAIN wire \ {r} : wire'[y] = wire[y]
    <2>1. call[n] = [conn |-> r, script |-> Remaining(s, t, r),
                     confirm |-> r.kind \in {"ask", "deliver"}, ret |-> Return(r)]
      BY <1>4, <1>5 DEF Caller, Dialling
    <2> QED BY <1>3, <1>4, <2>1 DEF AnsweredCall, SameBut
  <1>13. Typed' /\ Elsewhere(n)
    <2>1. DOMAIN pc = Node /\ DOMAIN call = Node /\ merged \in BOOLEAN
      BY <1>1 DEF Typed
    <2>2. merged' \in BOOLEAN
      BY <2>1 DEF Answered, Recv
    <2>3. PICK p : pc' = [pc EXCEPT ![n] = p]
      BY DEF Answered, Goto
    <2>4. call' = call \/ call' = [call EXCEPT ![n].script = Tail(@)]
      BY DEF Answered
    <2>5. DOMAIN call' = Node /\ \A m \in Node \ {n} : call'[m] = call[m]
      BY <2>1, <2>4
    <2>6. DOMAIN pc' = Node /\ \A m \in Node \ {n} : pc'[m] = pc[m]
      BY <2>1, <2>3
    <2>7. Elsewhere(n)
      BY <1>2, <2>5, <2>6 DEF Elsewhere
    <2>8. Typed'
      BY <1>1, <1>2, <2>2, <2>5, <2>6 DEF Typed, data, user
    <2> QED BY <2>7, <2>8
  <1>14. Link(s, t2, r)'
    <2>1. Shape(s, t2, r)
      BY <1>4, <1>5, <1>6, <1>7, <1>11 DEF Shape, ReadRelayStages
    <2>2. Seat(t2, r)'
      BY <1>4, <1>5, <1>7, <1>11, <1>13, ParameterFacts DEF Seat, Elsewhere
    <2>3. Caller(s, t2, r)'
      BY <1>11 DEF Caller, Dialling
    <2>4. CallTalk(s, t2, r)'
      BY <1>11, <1>12 DEF CallTalk, Has
    <2>5. LineTalk(s, t2, r)' /\ RelayTalk(s, t2, r)'
      BY <1>6, <1>7 DEF LineTalk, RelayTalk
    <2> QED BY <1>12, <2>1, <2>2, <2>3, <2>4, <2>5 DEF Link
  <1>15. Link(s, t2, l)'
    <2>1. Shape(s, t2, l)
      BY <1>8, <1>11 DEF Shape, LineStages
    <2>2. Seat(t2, l)'
      BY <1>2, <1>8, <1>10, <1>11, <1>12 DEF Seat
    <2>3. Caller(s, t2, l)' /\ CallTalk(s, t2, l)' /\ RelayTalk(s, t2, l)'
      BY <1>8 DEF Caller, Dialling, IsCall, CallTalk, RelayTalk
    <2>4. LineTalk(s, t2, l)'
      <3>1. l.to # Index /\ Is(l, "asked", <<>>, <<>>)
        BY <1>8, <1>9, <1>10 DEF Link, LineTalk
      <3> QED BY <1>2, <1>7, <1>8, <1>10, <1>11, <1>12, <3>1 DEF LineTalk, Is, Has, user
    <2> QED BY <1>8, <1>10, <1>12, <2>1, <2>2, <2>3, <2>4 DEF Link
  <1>16. Progress(s, t2, c)
    BY <1>4, <1>6, <1>7, <1>8, <1>11 DEF Progress
  <1>17. Thread(s, t2, n)'
    <2>1. \A x \in Conns : /\ t[x] # "none" => t2[x] # "none"
                           /\ t[x] \notin {"none", "queued", "identify"} =>
                                t2[x] \notin {"none", "queued", "identify"}
      BY <1>4, <1>9, <1>11
    <2> QED BY <1>1, <1>2, <1>8, <1>10, <1>11, <1>12, <2>1 DEF Thread, Serves, Position, Collecting
  <1>18. Queues(t2)'
    <2>1. \A x \in Conns : t[x] = "queued" => t2[x] = "queued"
      BY <1>4, <1>9, <1>11
    <2> QED BY <1>1, <1>2, <2>1, QueuesKept
  <1>19. /\ UNCHANGED <<client, got, at, files, complete, fs, todo>>
         /\ DOMAIN wire' = DOMAIN wire \cup {r}
         /\ \A m \in Node : \A x \in DOMAIN backlog[m] :
              backlog[m][x] # r => \E y \in DOMAIN backlog'[m] : backlog'[m][y] = backlog[m][x]
    BY <1>2, <1>4, <1>12 DEF data, user
  <1>20. /\ t[l] \in {"packet", "relay"} /\ t2[l] \in {"relay", "answer", "raw"}
         /\ t[r] = "hello" /\ t2[r] = "said"
         /\ \A x \in Conns \ {l, r} : t2[x] = t[x]
         /\ pc[n] \in {"packet", "call"} /\ call[n].conn = r /\ client[c] # "off"
    BY <1>2, <1>4, <1>6, <1>9, <1>11
  <1> QED BY <1>7, <1>8, <1>12, <1>13, <1>14, <1>15, <1>16, <1>17, <1>18, <1>19, <1>20, RelayMove, ZenonT(60)

-----------------------------------------------------------------------------
(* HandleRequestFile *)

\* The relay of a client that is not served by the index, before it is made.
LEMMA NoRelayYet ==
    ASSUME NEW s \in Stories, NEW t \in [Conns -> Stage], Explains(s, t), NEW n \in Node, n # Index,
           NEW l \in Conns, l.kind = "client", t[l] = "packet", fd[n] = l, l.to = n
    PROVE  /\ l.c \in Client /\ l = LineOf(s, l.c) /\ s.home[l.c] = n /\ client[l.c] # "off"
           /\ Relay(n) = RelayOf(s, l.c) /\ t[RelayOf(s, l.c)] = "none" /\ Link(s, t, l)
           /\ Doing(s, l.c)
  <1>1. l.c \in Client /\ Link(s, t, l) /\ client[l.c] # "off"
    BY ConnType, Attached
  <1>2. l = LineOf(s, l.c) /\ s.home[l.c] = n
    BY <1>1, CallEnds DEF Link
  <1>3. Relay(n) = RelayOf(s, l.c)
    BY <1>2 DEF Relay, RelayOf
  <1>4. Progress(s, t, l.c) /\ Doing(s, l.c)
    BY <1>1 DEF Explains, Request
  <1>5. t[RelayOf(s, l.c)] = "none"
    BY <1>2, <1>4 DEF Progress
  <1> QED BY <1>1, <1>2, <1>3, <1>4, <1>5

\* A node that is not the index relays the request of its client to the index.
LEMMA HandleRequestFileStep ==
    ASSUME NEW s \in Stories, NEW t \in [Conns -> Stage], Explains(s, t), NEW n \in Node,
           At(n, "packet"), HandleRequestFile(n)
    PROVE  \E t2 \in [Conns -> Stage] : Explains(s, t2)'
  <1>1. /\ Thread(s, t, n) /\ Typed /\ Queues(t)
        /\ DOMAIN wire = {x \in Conns : t[x] # "none"}
    BY DEF Explains
  <1>2. /\ pc[n] = "packet" /\ pc' = [pc EXCEPT ![n] = "call"] /\ n # Index /\ Got(n, "REQUEST_FILE")
        /\ wire' = Opened(wire, Relay(n), <<Present>>)
        /\ Relay(n).to = Index /\ Pushes(Relay(n))
        /\ call' = [call EXCEPT ![n] = [conn |-> Relay(n), confirm |-> FALSE, ret |-> "answer",
                                        script |-> <<[Head(packet[n]) EXCEPT !.to = n]>>]]
        /\ UNCHANGED <<fd, client_fd, packet, ms, todo, data, user, merged, strayed>>
    BY ConnFacts DEF HandleRequestFile, At, Goto, Dial, Pushes, Relay
  <1>3. PICK l \in Conns :
          /\ fd[n] = l /\ l.kind = "client" /\ l.to = n /\ t[l] = "packet"
          /\ Is(l, "asked", <<>>, <<>>) /\ packet[n] = <<Wish(s, l.c)>>
          /\ l \in DOMAIN wire /\ DOMAIN wire[l] = {"up", "down"}
    <2>1. PICK k \in Conns : Handles(s, t, n, k)
      BY <1>2, InHand
    <2>2. k.kind = "relay" => k.to = Index
      <3>1. Shape(s, t, k)
        BY <2>1 DEF Handles, Link
      <3> QED BY <3>1, CallEnds
    <2> QED BY <1>2, <2>1, <2>2 DEF Handles, Got
  <1>4. PICK c \in Client : l.c = c
    BY ConnType
  <1>5. /\ l = LineOf(s, c) /\ s.home[c] = n /\ client[c] # "off" /\ Relay(n) = RelayOf(s, c)
        /\ t[RelayOf(s, c)] = "none" /\ Link(s, t, l) /\ Doing(s, c)
    BY <1>2, <1>3, <1>4, NoRelayYet
  <1>6. PICK r \in Conns : /\ r = RelayOf(s, c) /\ r.kind = "relay" /\ r.c = c /\ r.to = Index
                           /\ r.from = n /\ l # r
    BY <1>3, <1>5, ConnsOf
  <1>7. s.op[c] = "read"
    BY <1>3, <1>4, <1>5 DEF Doing, Is
  <1>8. PICK t2 \in [Conns -> Stage] : /\ t2[r] = "queued" /\ t2[l] = "relay"
                                       /\ \A x \in Conns \ {r, l} : t2[x] = t[x]
    <2>1. "queued" \in Stage /\ "relay" \in Stage
      BY DEF Stage, CallStages, LineStages
    <2>2. PICK t2 \in [Conns -> Stage] : Both(t, t2, r, "queued", l, "relay")
      BY <1>6, <2>1, AdvanceTwo
    <2> QED BY <2>2 DEF Both
  <1>9. Opens(wire, wire', r, <<Present>>)
    BY <1>2, <1>5, <1>6, WireOpened
  <1>10. /\ DOMAIN pc' = Node /\ DOMAIN call' = Node /\ pc'[n] = "call"
         /\ \A m \in Node \ {n} : pc'[m] = pc[m] /\ call'[m] = call[m]
         /\ call'[n] = [conn |-> r, confirm |-> FALSE, ret |-> "answer", script |-> <<First(s, r)>>]
    <2>1. [Head(packet[n]) EXCEPT !.to = n] = First(s, r)
      <3>1. Head(packet[n]) = RequestFile(s.want[c], Nowhere)
        BY <1>3, <1>4, Reading1 DEF Wish
      <3> QED BY <1>5, <1>6, <3>1, PacketFacts DEF First
    <2> QED BY <1>1, <1>2, <1>5, <1>6, <2>1 DEF Typed
  <1>11. Queues(t2)' /\ DOMAIN backlog' = Node /\ QueuedMore(r)
    <2>1. DOMAIN backlog = Node /\ Pushes(r) /\ t[r] # "queued"
      BY <1>1, <1>2, <1>5, <1>6 DEF Typed
    <2>2. \A x \in Conns : t[x] = "queued" => t2[x] = "queued"
      BY <1>3, <1>8
    <2> QED BY <1>1, <1>8, <2>1, <2>2, QueuesPush
  <1>12. Typed' /\ Elsewhere(n)
    BY <1>1, <1>2, <1>10, <1>11 DEF Typed, Elsewhere, data, user
  <1>13. Link(s, t2, r)'
    <2>1. Shape(s, t2, r)
      BY <1>2, <1>5, <1>6, <1>7, <1>8 DEF Shape, ReadRelayStages
    <2>2. Seat(t2, r)'
      BY <1>8, <1>11 DEF Seat, QueuedMore
    <2>3. Caller(s, t2, r)'
      <3>1. Full(s, r) = <<First(s, r)>>
        BY <1>6 DEF Full, HasBytes
      <3>2. (r.kind \in {"ask", "deliver"}) = FALSE /\ Return(r) = "answer" /\ r.from = n
        BY <1>6 DEF Return
      <3>3. Remaining(s, t2, r) = <<First(s, r)>>
        BY <1>8, <3>1 DEF Remaining
      <3> QED BY <1>10, <3>2, <3>3 DEF Caller
    <2>4. CallTalk(s, t2, r)'
      BY <1>8, <1>9 DEF CallTalk, Has, Opens
    <2>5. LineTalk(s, t2, r)' /\ RelayTalk(s, t2, r)'
      BY <1>6, <1>7 DEF LineTalk, RelayTalk
    <2> QED BY <1>9, <2>1, <2>2, <2>3, <2>4, <2>5 DEF Link, Opens
  <1>14. wire'[l] = wire[l] /\ DOMAIN wire' = DOMAIN wire \cup {r}
         /\ \A y \in DOMAIN wire \ {r} : wire'[y] = wire[y]
    BY <1>3, <1>6, <1>9 DEF Opens
  <1>15. Link(s, t2, l)'
    <2>1. Shape(s, t2, l)
      BY <1>3, <1>4, <1>5, <1>8 DEF Shape, LineStages
    <2>2. Seat(t2, l)'
      BY <1>2, <1>3, <1>8, <1>10 DEF Seat
    <2>3. Caller(s, t2, l)' /\ CallTalk(s, t2, l)' /\ RelayTalk(s, t2, l)'
      BY <1>3 DEF Caller, Dialling, IsCall, CallTalk, RelayTalk
    <2>4. LineTalk(s, t2, l)'
      BY <1>2, <1>3, <1>4, <1>6, <1>8, <1>10, <1>14 DEF LineTalk, Is, Has, user
    <2> QED BY <1>3, <1>14, <2>1, <2>2, <2>3, <2>4 DEF Link
  <1>16. Progress(s, t2, c)
    BY <1>2, <1>5, <1>6, <1>7, <1>8 DEF Progress
  <1>17. Thread(s, t2, n)'
    <2>1. \A x \in Conns : /\ t[x] # "none" => t2[x] # "none"
                           /\ t[x] \notin {"none", "queued", "identify"} =>
                                t2[x] \notin {"none", "queued", "identify"}
      BY <1>3, <1>5, <1>6, <1>8
    <2>2. Dialling(s, t2, r)
      BY <1>6, <1>7, <1>8 DEF Dialling, IsCall
    <2> QED BY <1>1, <1>2, <1>3, <1>6, <1>8, <1>10, <2>1, <2>2 DEF Thread, Position, Collecting
  <1>18. /\ UNCHANGED <<client, got, at, files, complete, fs, todo>>
         /\ \A m \in Node : \A x \in DOMAIN backlog[m] :
              backlog[m][x] # r => \E y \in DOMAIN backlog'[m] : backlog'[m][y] = backlog[m][x]
    BY <1>2, <1>11 DEF data, user, QueuedMore
  <1>19. /\ t[l] \in {"packet", "relay"} /\ t2[l] \in {"relay", "answer", "raw"}
         /\ t[r] = "none" /\ t2[r] = "queued"
         /\ \A x \in Conns \ {l, r} : t2[x] = t[x]
         /\ pc[n] \in {"packet", "call"} /\ pc[n] # "call" /\ client[c] # "off" /\ n # Index
    BY <1>2, <1>3, <1>5, <1>6, <1>8
  <1>20. Queues(t2)' /\ l = LineOf(s, c) /\ r = RelayOf(s, c) /\ s.home[c] = n
    BY <1>5, <1>6, <1>11
  <1> QED BY <1>20, <1>12, <1>13, <1>14, <1>15, <1>16, <1>17, <1>18, <1>19, RelayMove, SMTT(60)

-----------------------------------------------------------------------------
(* HandleCreateFile *)

\* A node that is not the index opens a relay for a creation; the index keeps it in hand.
LEMMA RelayCreation ==
    ASSUME NEW s \in Stories, NEW t \in [Conns -> Stage], Explains(s, t), NEW n \in Node, n # Index,
           At(n, "packet"), HandleCreateFile(n)
    PROVE  \E t2 \in [Conns -> Stage] : Explains(s, t2)'
  <1>1. /\ Thread(s, t, n) /\ Typed /\ Queues(t)
        /\ DOMAIN wire = {x \in Conns : t[x] # "none"}
    BY DEF Explains
  <1>2. /\ pc[n] = "packet" /\ pc' = [pc EXCEPT ![n] = "raw"] /\ Got(n, "CREATE_FILE")
        /\ wire' = Opened(wire, Relay(n), <<Present>> \o packet[n])
        /\ Relay(n).to = Index /\ Pushes(Relay(n))
        /\ UNCHANGED <<fd, client_fd, packet, ms, call, todo, data, user, merged, strayed>>
    BY ConnFacts DEF HandleCreateFile, At, Goto, Pushes, Relay
  <1>3. PICK l \in Conns :
          /\ fd[n] = l /\ l.kind = "client" /\ l.to = n /\ t[l] = "packet" /\ Taken(s, l)
          /\ l \in DOMAIN wire /\ DOMAIN wire[l] = {"up", "down"}
    <2>1. PICK k \in Conns : Handles(s, t, n, k)
      BY <1>2, InHand
    <2>2. k.kind = "relay" => k.to = Index
      <3>1. Shape(s, t, k)
        BY <2>1 DEF Handles, Link
      <3> QED BY <3>1, CallEnds
    <2> QED BY <1>2, <2>1, <2>2 DEF Handles, Got
  <1>4. PICK c \in Client : l.c = c
    BY ConnType
  <1>5. /\ l = LineOf(s, c) /\ s.home[c] = n /\ client[c] # "off" /\ Relay(n) = RelayOf(s, c)
        /\ t[RelayOf(s, c)] = "none" /\ Link(s, t, l) /\ Doing(s, c)
    BY <1>2, <1>3, <1>4, NoRelayYet
  <1>6. PICK r \in Conns : /\ r = RelayOf(s, c) /\ r.kind = "relay" /\ r.c = c /\ r.to = Index
                           /\ r.from = n /\ l # r
    BY <1>3, <1>5, ConnsOf
  <1>7. s.op[c] = "write"
    <2>1. client[c] \in {"creating", "sent"}
      BY <1>3, <1>4 DEF Taken, Is
    <2> QED BY <1>5, <2>1 DEF Doing
  <1>8. PICK t2 \in [Conns -> Stage] : /\ t2[r] = "queued" /\ t2[l] = "raw"
                                       /\ \A x \in Conns \ {r, l} : t2[x] = t[x]
    <2>1. "queued" \in Stage /\ "raw" \in Stage
      BY DEF Stage, CallStages
    <2>2. PICK t2 \in [Conns -> Stage] : Both(t, t2, r, "queued", l, "raw")
      BY <1>6, <2>1, AdvanceTwo
    <2> QED BY <2>2 DEF Both
  <1>9. Opens(wire, wire', r, <<Present>> \o packet[n])
    BY <1>2, <1>5, <1>6, WireOpened
  <1>10. /\ DOMAIN pc' = Node /\ pc'[n] = "raw" /\ \A m \in Node \ {n} : pc'[m] = pc[m]
    BY <1>1, <1>2 DEF Typed
  <1>11. Queues(t2)' /\ DOMAIN backlog' = Node /\ QueuedMore(r)
    <2>1. DOMAIN backlog = Node /\ Pushes(r) /\ t[r] # "queued"
      BY <1>1, <1>2, <1>5, <1>6 DEF Typed
    <2>2. \A x \in Conns : t[x] = "queued" => t2[x] = "queued"
      BY <1>3, <1>8
    <2> QED BY <1>1, <1>8, <2>1, <2>2, QueuesPush
  <1>12. Typed' /\ Elsewhere(n)
    BY <1>1, <1>2, <1>10, <1>11 DEF Typed, Elsewhere, data, user
  <1>14. wire'[l] = wire[l] /\ DOMAIN wire' = DOMAIN wire \cup {r}
         /\ \A y \in DOMAIN wire \ {r} : wire'[y] = wire[y]
    BY <1>3, <1>6, <1>9 DEF Opens
  <1>13. Link(s, t2, r)'
    <2>1. Shape(s, t2, r)
      BY <1>2, <1>5, <1>6, <1>7, <1>8 DEF Shape, WriteRelayStages
    <2>2. Seat(t2, r)'
      BY <1>8, <1>11 DEF Seat, QueuedMore
    <2>3. ~IsCall(s, r)
      BY <1>6, <1>7 DEF IsCall
    <2>4. Caller(s, t2, r)' /\ CallTalk(s, t2, r)' /\ LineTalk(s, t2, r)'
      BY <1>6, <2>3 DEF Caller, Dialling, CallTalk, LineTalk
    <2>5. RelayTalk(s, t2, r)'
      <3>1. CASE packet[n] = <<Creation(s, c)>>
        <4>1. wire'[r].up = <<Present, Creation(s, c)>>
          BY <1>9, <3>1, Sending DEF Opens
        <4> QED BY <1>6, <1>8, <4>1 DEF RelayTalk
      <3>2. CASE packet[n] = <<Creation(s, c), Bytes(s, c)>> /\ Is(l, "sent", <<>>, <<>>)
        <4>1. wire'[r].up = <<Present, Creation(s, c), Bytes(s, c)>>
          <5>1. <<Present>> \o <<Creation(s, c), Bytes(s, c)>> = <<Present, Creation(s, c), Bytes(s, c)>>
            BY Sending
          <5>2. wire'[r].up = <<Present>> \o <<Creation(s, c), Bytes(s, c)>>
            BY <1>9, <3>2 DEF Opens
          <5> QED BY <5>1, <5>2, Zenon
        <4>2. Forwarded(s, c)'
          BY <1>2, <1>4, <1>5, <1>14, <3>2 DEF Forwarded, Is, Has, user
        <4> QED BY <1>6, <1>8, <4>1, <4>2 DEF RelayTalk
      <3> QED BY <1>3, <1>4, <3>1, <3>2 DEF Taken
    <2> QED BY <1>9, <2>1, <2>2, <2>4, <2>5 DEF Link, Opens
  <1>15. Link(s, t2, l)'
    <2>1. Shape(s, t2, l)
      BY <1>3, <1>4, <1>5, <1>8 DEF Shape, LineStages
    <2>2. Seat(t2, l)'
      BY <1>2, <1>3, <1>8, <1>10 DEF Seat
    <2>3. Caller(s, t2, l)' /\ CallTalk(s, t2, l)' /\ RelayTalk(s, t2, l)'
      BY <1>3 DEF Caller, Dialling, IsCall, CallTalk, RelayTalk
    <2>4. LineTalk(s, t2, l)'
      <3>1. Taken(s, l)'
        BY <1>2, <1>3, <1>14 DEF Taken, Is, Has, user
      <3> QED BY <1>8, <3>1 DEF LineTalk
    <2> QED BY <1>3, <1>14, <2>1, <2>2, <2>3, <2>4 DEF Link
  <1>16. Progress(s, t2, c)
    BY <1>2, <1>5, <1>6, <1>7, <1>8 DEF Progress
  <1>17. Thread(s, t2, n)'
    <2>1. \A x \in Conns : /\ t[x] # "none" => t2[x] # "none"
                           /\ t[x] \notin {"none", "queued", "identify"} =>
                                t2[x] \notin {"none", "queued", "identify"}
      BY <1>3, <1>5, <1>6, <1>8
    <2> QED BY <1>1, <1>2, <1>3, <1>6, <1>8, <1>10, <2>1 DEF Thread, Serves, Position, Collecting
  <1>18. /\ UNCHANGED <<client, got, at, files, complete, fs, todo>>
         /\ \A m \in Node : \A x \in DOMAIN backlog[m] :
              backlog[m][x] # r => \E y \in DOMAIN backlog'[m] : backlog'[m][y] = backlog[m][x]
    BY <1>2, <1>11 DEF data, user, QueuedMore
  <1>19. /\ t[l] \in {"packet", "relay"} /\ t2[l] \in {"relay", "answer", "raw"}
         /\ t[r] = "none" /\ t2[r] = "queued"
         /\ \A x \in Conns \ {l, r} : t2[x] = t[x]
         /\ pc[n] \in {"packet", "call"} /\ pc[n] # "call" /\ client[c] # "off" /\ n # Index
    BY <1>2, <1>3, <1>5, <1>6, <1>8
  <1>20. Queues(t2)' /\ l = LineOf(s, c) /\ r = RelayOf(s, c) /\ s.home[c] = n
    BY <1>5, <1>6, <1>11
  <1> QED BY <1>20, <1>12, <1>13, <1>14, <1>15, <1>16, <1>17, <1>18, <1>19, RelayMove, SMTT(60)

LEMMA TakeCreation ==
    ASSUME NEW s \in Stories, NEW t \in [Conns -> Stage], Explains(s, t), NEW n \in Node, n = Index,
           At(n, "packet"), HandleCreateFile(n)
    PROVE  \E t2 \in [Conns -> Stage] : Explains(s, t2)'
  <1>1. /\ Thread(s, t, n) /\ Typed
    BY DEF Explains
  <1>2. /\ pc[n] = "packet" /\ pc' = [pc EXCEPT ![n] = "raw"] /\ Got(n, "CREATE_FILE")
        /\ UNCHANGED <<net, fd, client_fd, packet, ms, call, todo, data, user, merged, strayed>>
    BY DEF HandleCreateFile, At, Goto
  <1>3. PICK k \in Conns :
          /\ fd[n] = k /\ k.to = n /\ t[k] = "packet" /\ Link(s, t, k)
          /\ \/ k.kind = "client" /\ Taken(s, k)
             \/ k.kind = "relay" /\ s.op[k.c] = "write" /\ Held(s, k)
          /\ k \in DOMAIN wire /\ DOMAIN wire[k] = {"up", "down"}
    <2>1. PICK k \in Conns : Handles(s, t, n, k)
      BY <1>2, InHand
    <2> QED BY <1>2, <2>1 DEF Handles, Got
  <1>4. /\ Shape(s, t, k) /\ Seat(t, k) /\ Caller(s, t, k) /\ CallTalk(s, t, k)
        /\ LineTalk(s, t, k) /\ RelayTalk(s, t, k)
    BY <1>3 DEF Link
  <1>5. ~IsCall(s, k)
    BY <1>3 DEF IsCall
  <1>8. /\ DOMAIN pc = Node /\ pc'[n] = "raw" /\ DOMAIN pc' = Node
    BY <1>1, <1>2 DEF Typed
  <1>9. PICK t2 \in [Conns -> Stage] : t2[k] = "raw" /\ SameBut(t, t2, k)
    <2>1. "raw" \in Stage
      BY DEF Stage, CallStages
    <2> QED BY <2>1, Advance
  <1>10. Elsewhere(n)
    BY <1>1, <1>2 DEF Elsewhere, Typed
  <1>11. Link(s, t2, k)'
    <2>1. Shape(s, t2, k)
      BY <1>3, <1>4, <1>9 DEF Shape, LineStages, WriteRelayStages
    <2>2. Seat(t2, k)'
      BY <1>2, <1>3, <1>8, <1>9 DEF Seat
    <2>3. Caller(s, t2, k)' /\ CallTalk(s, t2, k)'
      BY <1>5 DEF Caller, Dialling, CallTalk
    <2>4. LineTalk(s, t2, k)'
      <3>1. k.kind = "client" => Taken(s, k)'
        BY <1>2, <1>3 DEF Taken, Is, Has, user, net
      <3> QED BY <1>9, <3>1 DEF LineTalk
    <2>5. RelayTalk(s, t2, k)'
      <3>1. k.kind = "relay" => Held(s, k)'
        BY <1>2, <1>3 DEF Held, Forwarded, user, net
      <3> QED BY <1>9, <3>1 DEF RelayTalk
    <2> QED BY <1>2, <1>3, <2>1, <2>2, <2>3, <2>4, <2>5 DEF Link, net
  <1>12. Typed'
    BY <1>1, <1>2, <1>8 DEF Typed, data, user, net
  <1>13. Thread(s, t2, n)'
    <2>1. \A x \in Conns : /\ t[x] # "none" => t2[x] # "none"
                           /\ t[x] \notin {"none", "queued", "identify"} =>
                                t2[x] \notin {"none", "queued", "identify"}
      BY <1>3, <1>9 DEF SameBut
    <2> QED BY <1>1, <1>2, <1>3, <1>8, <1>9, <2>1 DEF Thread, Serves, Position, Collecting
  <1>14. Inquiry(s, t2)' /\ Handout(s, t2)'
    BY <1>2, <1>3, <1>8, <1>9, <1>10, SoftAside
  <1>15. Alike(s, t[k], t2[k], k)
    <2>1. k.kind = "client" => s.home[k.c] = Index
      BY <1>3, <1>4, CallEnds
    <2> QED BY <1>3, <1>9, <2>1 DEF Alike, Within
  <1>16. ~Dialling(s, t, k)
    BY <1>5 DEF Dialling
  <1>17. \A x \in Conns : x \in {k} /\ t2[x] # "none" => Link(s, t2, x)'
    BY <1>11
  <1>18. SameBut(wire, wire', k)
    BY <1>2 DEF SameBut, net
  <1> QED BY <1>2, <1>3, <1>8, <1>9, <1>10, <1>12, <1>13, <1>14, <1>15, <1>16, <1>17, <1>18,
             SoftStep DEF data, user, net, Collecting

\* CREATE_FILE is relayed, or kept by the index until the contents have come.
LEMMA HandleCreateFileStep ==
    ASSUME NEW s \in Stories, NEW t \in [Conns -> Stage], Explains(s, t), NEW n \in Node,
           At(n, "packet"), HandleCreateFile(n)
    PROVE  \E t2 \in [Conns -> Stage] : Explains(s, t2)'
  BY RelayCreation, TakeCreation

-----------------------------------------------------------------------------
(* The bytes behind a packet *)

RawHand(s, t, n, k) ==
    /\ fd[n] = k /\ k \in Conns /\ k.to = n /\ t[k] = "raw" /\ Link(s, t, k)
    /\ k \in DOMAIN wire /\ DOMAIN wire[k] = {"up", "down"} /\ client[k.c] # "off"
    /\ \/ /\ k.kind = "client" /\ client[k.c] = "sent" /\ wire[k].down = <<>>
          /\ wire[k].up = <<Bytes(s, k.c)>> /\ packet[n] = <<Creation(s, k.c)>>
       \/ /\ k.kind = "relay" /\ s.op[k.c] = "write" /\ Forwarded(s, k.c)
          /\ wire[k].up = <<Bytes(s, k.c)>> /\ packet[n] = <<Creation(s, k.c)>>
       \/ /\ k.kind = "store" /\ wire[k].down = <<>>
          /\ wire[k].up = <<Second(s, k)>> /\ packet[n] = <<First(s, k)>>

\* The bytes for which a node waits in WAIT_RAW belong to a fragment, to a relay or to its client.
LEMMA RawInHand ==
    ASSUME NEW s \in Stories, NEW t \in [Conns -> Stage], Explains(s, t), NEW n \in Node,
           pc[n] = "raw", Queue(fd[n], n) # <<>>
    PROVE  \E k \in Conns : RawHand(s, t, n, k)
  <1>1. Serves(t, n, {"ok", "raw"}) /\ fd[n].kind # "deliver"
    BY DEF Explains, Thread
  <1>2. PICK k \in Conns :
          /\ k = fd[n] /\ k.to = n /\ t[k] \in {"ok", "raw"} /\ k.kind # "deliver"
          /\ Link(s, t, k) /\ k \in DOMAIN wire /\ DOMAIN wire[k] = {"up", "down"}
          /\ client[k.c] # "off" /\ wire[k].up # <<>>
    BY <1>1, Served
  <1>3. Shape(s, t, k) /\ CallTalk(s, t, k) /\ LineTalk(s, t, k) /\ RelayTalk(s, t, k)
    BY <1>2 DEF Link
  <1>4. k.kind \in {"client", "relay", "store"}
    BY <1>2, <1>3, ConnType DEF Shape, Kinds
  <1>5. CASE k.kind = "store"
    <2>1. IsCall(s, k)
      BY <1>5 DEF IsCall
    <2> QED BY <1>2, <1>3, <1>5, <2>1 DEF CallTalk, Has, RawHand
  <1>6. CASE k.kind = "client"
    <2>1. t[k] = "raw"
      BY <1>2, <1>3, <1>6 DEF Shape, LineStages
    <2>2. Taken(s, k)
      BY <1>3, <1>6, <2>1 DEF LineTalk
    <2> QED BY <1>2, <1>6, <2>1, <2>2 DEF Taken, Is, Has, RawHand
  <1>7. CASE k.kind = "relay"
    <2>1. t[k] = "raw" /\ s.op[k.c] = "write"
      BY <1>2, <1>3, <1>7 DEF Shape, ReadRelayStages, WriteRelayStages
    <2>2. Held(s, k)
      BY <1>3, <1>7, <2>1 DEF RelayTalk
    <2> QED BY <1>2, <1>7, <2>1, <2>2 DEF Held, RawHand
  <1> QED BY <1>4, <1>5, <1>6, <1>7

\* recv takes the one packet there is, a.
RawTaken(n, k, a) ==
    LET w == Read(wire, k, n, 1)
        p == Head(packet[n])
    IN /\ wire[k].up = <<a>> /\ merged' \in BOOLEAN
       /\ Flows(wire, w, k, <<>>, wire[k].down)
       /\ p.type = "CREATE_FILE" /\ n # Index =>
             /\ wire' = Sent(w, Relay(n), n, <<a>>)
             /\ Goto(n, "idle") /\ UNCHANGED <<ms, todo, fs, files>>
       /\ p.type = "CREATE_FILE" /\ n = Index =>
             /\ wire' = w /\ files' = Append(files, p.name)
             /\ ms' = [ms EXCEPT ![n] = [Idle EXCEPT !.file = Len(files) + 1, !.buffer = a.bytes]]
             /\ todo' = Table[p.name] /\ Goto(n, "fanout") /\ UNCHANGED fs
       /\ p.type = "STORE_FRAGMENT" =>
             /\ wire' = w
             /\ fs' = [fs EXCEPT ![n][p.file] = AddFragment(@, [id |-> p.frag, bytes |-> a.bytes])]
             /\ Goto(n, "idle") /\ UNCHANGED <<ms, todo, files>>

\* What that recv takes.
LEMMA RawRead ==
    ASSUME NEW s, NEW t, NEW n \in Node, WaitRaw(n), NEW k \in Conns, RawHand(s, t, n, k), merged \in BOOLEAN
    PROVE  \E a : RawTaken(n, k, a)
  <1>1. PICK a : wire[k].up = <<a>>
    BY DEF RawHand
  <1>2. /\ fd[n] = k /\ k.to = n /\ Queue(k, n) = wire[k].up /\ k \in DOMAIN wire
        /\ DOMAIN wire[k] = {"up", "down"}
    BY DEF RawHand, Queue, In
  <1>3. PICK j \in 1 .. Len(wire[k].up) :
          LET q == wire[k].up
              p == Head(packet[n])
              w == Read(wire, k, n, j) IN
            /\ merged' = (merged \/ j > 1)
            /\ CASE p.type = "CREATE_FILE" /\ n # Index ->
                      /\ wire' = Sent(w, Relay(n), n, SubSeq(q, 1, j))
                      /\ Goto(n, "idle")
                      /\ UNCHANGED <<ms, todo, fs, files>>
                 [] p.type = "CREATE_FILE" /\ n = Index ->
                      /\ wire'  = w
                      /\ files' = Append(files, p.name)
                      /\ ms'    = [ms EXCEPT ![n] = [Idle EXCEPT !.file = Len(files) + 1,
                                                                 !.buffer = q[1].bytes]]
                      /\ todo'  = Table[p.name]
                      /\ Goto(n, "fanout")
                      /\ UNCHANGED fs
                 [] p.type = "STORE_FRAGMENT" ->
                      /\ wire' = w
                      /\ fs'   = [fs EXCEPT ![n][p.file] =
                                    AddFragment(@, [id |-> p.frag, bytes |-> q[1].bytes])]
                      /\ Goto(n, "idle")
                      /\ UNCHANGED <<ms, todo, files>>
    BY <1>2, Zenon DEF WaitRaw, Recv
  <1>4. j = 1 /\ Takes(wire[k].up, j, <<a>>, <<>>) /\ wire[k].up[1] = a
    BY <1>1, TakesOne
  <1>5. Flows(wire, Read(wire, k, n, 1), k, <<>>, wire[k].down)
    <2>1. Flows(wire, Read(wire, k, n, 1), k, SubSeq(wire[k].up, 1 + 1, Len(wire[k].up)), wire[k].down)
      BY <1>2, ServerReads
    <2> QED BY <1>4, <2>1 DEF Takes
  <1>6. merged' \in BOOLEAN
    BY <1>3
  <1>7. SubSeq(wire[k].up, 1, j) = <<a>>
    BY <1>4 DEF Takes
  <1>8. Head(packet[n]).type = "CREATE_FILE" /\ n # Index =>
          /\ wire' = Sent(Read(wire, k, n, 1), Relay(n), n, <<a>>)
          /\ Goto(n, "idle") /\ UNCHANGED <<ms, todo, fs, files>>
    BY <1>3, <1>4, <1>7, Zenon
  <1>9. Head(packet[n]).type = "CREATE_FILE" /\ n = Index =>
          /\ wire' = Read(wire, k, n, 1) /\ files' = Append(files, Head(packet[n]).name)
          /\ ms' = [ms EXCEPT ![n] = [Idle EXCEPT !.file = Len(files) + 1, !.buffer = a.bytes]]
          /\ todo' = Table[Head(packet[n]).name] /\ Goto(n, "fanout") /\ UNCHANGED fs
    BY <1>3, <1>4, Zenon
  <1>10. Head(packet[n]).type = "STORE_FRAGMENT" =>
          /\ wire' = Read(wire, k, n, 1)
          /\ fs' = [fs EXCEPT ![n][Head(packet[n]).file] =
                       AddFragment(@, [id |-> Head(packet[n]).frag, bytes |-> a.bytes])]
          /\ Goto(n, "idle") /\ UNCHANGED <<ms, todo, files>>
    BY <1>3, <1>4, "CREATE_FILE" # "STORE_FRAGMENT", Zenon
  <1> QED BY <1>1, <1>5, <1>6, <1>8, <1>9, <1>10, Zenon DEF RawTaken

-----------------------------------------------------------------------------
(* WaitRaw: the bytes of a creation go on to the index *)

\* A node that is not the index sends the contents on to the index.
LEMMA ForwardStep ==
    ASSUME NEW s \in Stories, NEW t \in [Conns -> Stage], Explains(s, t), NEW n \in Node, WaitRaw(n),
           NEW l \in Conns, RawHand(s, t, n, l), l.kind = "client", n # Index
    PROVE  \E t2 \in [Conns -> Stage] : Explains(s, t2)'
  <1>1. /\ Thread(s, t, n) /\ Typed /\ Queues(t) /\ DOMAIN wire = {x \in Conns : t[x] # "none"}
        /\ merged \in BOOLEAN
    BY DEF Explains, Typed
  <1>2. /\ pc[n] = "raw"
        /\ UNCHANGED <<backlog, fd, client_fd, packet, call, complete, user, strayed>>
    BY DEF WaitRaw, At
  <1>3. /\ fd[n] = l /\ l.to = n /\ t[l] = "raw" /\ Link(s, t, l) /\ client[l.c] = "sent"
        /\ l \in DOMAIN wire /\ DOMAIN wire[l] = {"up", "down"} /\ wire[l].down = <<>>
        /\ wire[l].up = <<Bytes(s, l.c)>> /\ packet[n] = <<Creation(s, l.c)>>
    BY DEF RawHand
  <1>4. Shape(s, t, l) /\ Caller(s, t, l) /\ CallTalk(s, t, l) /\ LineTalk(s, t, l)
    BY <1>3 DEF Link
  <1>5. PICK c \in Client : l.c = c /\ l = LineOf(s, c) /\ s.home[c] = n /\ l.from = Nowhere
    BY <1>3, <1>4, ConnType, CallEnds
  <1>6. Request(s, t, c) /\ client[c] = "sent" /\ s.op[c] = "write"
    BY <1>3, <1>5 DEF Explains, Request, Doing
  <1>7. PICK r \in Conns : /\ r = RelayOf(s, c) /\ r.kind = "relay" /\ r.c = c /\ r.to = Index
                           /\ r.from = n /\ l # r
    BY <1>5, ConnsOf
  <1>8. t[r] # "none"
    BY <1>3, <1>5, <1>6, <1>7 DEF Request, Progress
  <1>9. Link(s, t, r) /\ r \in DOMAIN wire /\ DOMAIN wire[r] = {"up", "down"}
    BY <1>8, Attached
  <1>10. Shape(s, t, r) /\ Seat(t, r) /\ RelayTalk(s, t, r) /\ t[r] \in WriteRelayStages
    BY <1>6, <1>7, <1>9 DEF Link, Shape
  <1>11. ~Forwarded(s, c)
    BY <1>3, <1>5 DEF Forwarded
  <1>12. Relay(n) = r
    BY <1>3, <1>5, <1>7 DEF Relay, RelayOf
  <1>13. PICK a : /\ wire[l].up = <<a>> /\ merged' \in BOOLEAN
                  /\ Flows(wire, Read(wire, l, n, 1), l, <<>>, wire[l].down)
                  /\ wire' = Sent(Read(wire, l, n, 1), r, n, <<a>>)
                  /\ pc' = [pc EXCEPT ![n] = "idle"] /\ UNCHANGED <<ms, todo, fs, files>>
    <2>1. Head(packet[n]).type = "CREATE_FILE"
      BY <1>3, Reading1, PacketFacts DEF Creation
    <2>2. PICK a : RawTaken(n, l, a)
      BY <1>1, RawRead
    <2> QED BY <1>12, <2>1, <2>2 DEF RawTaken, Goto
  <1>14. a = Bytes(s, c)
    BY <1>3, <1>5, <1>13
  <1>15. /\ DOMAIN wire' = DOMAIN wire /\ \A y \in DOMAIN wire \ {l, r} : wire'[y] = wire[y]
         /\ wire'[l].up = <<>> /\ wire'[l].down = <<>> /\ DOMAIN wire'[l] = {"up", "down"}
         /\ wire'[r].up = wire[r].up \o <<Bytes(s, c)>> /\ DOMAIN wire'[r] = {"up", "down"}
    <2> DEFINE w == Read(wire, l, n, 1)
    <2>1. /\ DOMAIN w = DOMAIN wire /\ \A y \in DOMAIN wire \ {l} : w[y] = wire[y]
          /\ DOMAIN w[l] = {"up", "down"} /\ w[l].up = <<>> /\ w[l].down = <<>>
      BY <1>3, <1>13 DEF Flows, SameBut
    <2>2. r \in DOMAIN w /\ DOMAIN w[r] = {"up", "down"} /\ w[r] = wire[r] /\ n # r.to
      BY <1>5, <1>7, <1>9, <2>1
    <2>3. wire' = Sent(w, r, n, <<a>>)
      BY <1>13
    <2> HIDE DEF w
    <2>4. Flows(w, wire', r, w[r].up \o <<a>>, w[r].down)
      BY <2>2, <2>3, CallerSends
    <2> QED BY <1>3, <1>7, <1>14, <2>1, <2>2, <2>4 DEF Flows, SameBut
  <1>16. PICK t2 \in [Conns -> Stage] : t2[l] = "passed" /\ SameBut(t, t2, l)
    <2>1. "passed" \in Stage
      BY DEF Stage, LineStages
    <2> QED BY <2>1, Advance
  <1>17. \A x \in Conns \ {l} : t2[x] = t[x]
    BY <1>16 DEF SameBut
  <1>18. DOMAIN pc' = Node /\ pc'[n] = "idle" /\ \A m \in Node \ {n} : pc'[m] = pc[m]
    BY <1>1, <1>13 DEF Typed
  <1>19. Elsewhere(n) /\ Typed'
    BY <1>1, <1>2, <1>13, <1>18 DEF Elsewhere, Typed, user
  <1>20. Forwarded(s, c)'
    BY <1>2, <1>5, <1>6, <1>15 DEF Forwarded, user
  <1>21. Link(s, t2, l)'
    <2>1. Shape(s, t2, l)
      BY <1>3, <1>4, <1>16 DEF Shape, LineStages
    <2>2. Seat(t2, l)'
      BY <1>16 DEF Seat
    <2>3. Caller(s, t2, l)' /\ CallTalk(s, t2, l)' /\ RelayTalk(s, t2, l)'
      BY DEF Caller, Dialling, IsCall, CallTalk, RelayTalk
    <2>4. LineTalk(s, t2, l)'
      BY <1>2, <1>3, <1>5, <1>6, <1>15, <1>16 DEF LineTalk, Is, Has, user
    <2> QED BY <1>15, <2>1, <2>2, <2>3, <2>4 DEF Link
  <1>22. Link(s, t2, r)'
    <2>1. Shape(s, t2, r)
      BY <1>7, <1>10, <1>17 DEF Shape
    <2>2. Seat(t2, r)'
      BY <1>2, <1>5, <1>7, <1>10, <1>17, <1>19, ParameterFacts DEF Seat, Elsewhere
    <2>3. ~IsCall(s, r)
      BY <1>6, <1>7 DEF IsCall
    <2>4. Caller(s, t2, r)' /\ CallTalk(s, t2, r)' /\ LineTalk(s, t2, r)'
      BY <1>7, <2>3 DEF Caller, Dialling, CallTalk, LineTalk
    <2>5. RelayTalk(s, t2, r)'
      <3> DEFINE C == Creation(s, c)
                 B == Bytes(s, c)
      <3>1. /\ t[r] \in {"queued", "identify"} => wire[r].up = <<Present, C>>
            /\ t[r] = "receive" => wire[r].up = <<C>>
            /\ t[r] \in {"packet", "raw"} => wire[r].up = <<>>
            /\ t[r] = "lost" => wire[r].up \in {<<>>, <<Remnant>>}
            /\ t[r] \in {"packet", "raw"} => packet[Index] = <<C>>
            /\ t[r] = "lostpacket" => packet[Index] \in {<<B>>, <<Remnant>>, <<Remnant, B>>}
            /\ t[r] \notin {"fanout", "stored"}
        BY <1>6, <1>7, <1>10, <1>11 DEF RelayTalk, Held
      <3>2. /\ t[r] \in {"queued", "identify"} => wire'[r].up = <<Present, C, B>>
            /\ t[r] = "receive" => wire'[r].up = <<C, B>>
            /\ t[r] \in {"packet", "raw"} => wire'[r].up = <<B>>
            /\ t[r] = "lost" => wire'[r].up \in {<<B>>, <<Remnant, B>>}
        <4>1. /\ <<Present, C>> \o <<B>> = <<Present, C, B>> /\ <<C>> \o <<B>> = <<C, B>>
              /\ <<>> \o <<B>> = <<B>> /\ <<Remnant>> \o <<B>> = <<Remnant, B>>
          BY Sending
        <4>2. wire'[r].up = wire[r].up \o <<B>>
          BY <1>15
        <4> HIDE DEF C, B
        <4> QED BY <3>1, <4>1, <4>2
      <3>3. packet'[Index] = packet[Index]
        BY <1>2
      <3>4. t2[r] = t[r]
        BY <1>7, <1>17
      <3> QED BY <1>7, <1>20, <3>1, <3>2, <3>3, <3>4 DEF RelayTalk, Held
    <2> QED BY <1>15, <2>1, <2>2, <2>4, <2>5 DEF Link
  <1>23. Thread(s, t2, n)'
    <2>1. \A x \in Conns : /\ t[x] # "none" => t2[x] # "none"
                           /\ t[x] \notin {"none", "queued", "identify"} =>
                                t2[x] \notin {"none", "queued", "identify"}
      BY <1>3, <1>16, <1>17
    <2> QED BY <1>1, <1>2, <1>18, <2>1 DEF Thread, Position, Collecting
  <1>24. Queues(t2)'
    <2>1. \A x \in Conns : t[x] = "queued" => t2[x] = "queued"
      BY <1>3, <1>17
    <2> QED BY <1>1, <1>2, <2>1, QueuesKept
  <1>25. Inquiry(s, t2)' /\ Handout(s, t2)'
    <2>1. pc'[n] \notin {"ask", "fanout", "call"}
      BY <1>18
    <2> QED BY <1>3, <1>13, <1>16, <1>19, <2>1, SoftAside
  <1>26. Alike(s, t[l], t2[l], l)
    BY <1>3, <1>16 DEF Alike, Within
  <1>27. \A y \in DOMAIN wire :
           /\ y.kind = "client" /\ wire[y].up = <<>> => wire'[y].up = <<>>
           /\ y.kind = "relay" /\ t[y] \in {"asking", "asked", "refused"} => wire'[y].down = wire[y].down
    BY <1>7, <1>10, <1>15 DEF WriteRelayStages
  <1>28. \A x \in Conns : x \in {l, r} /\ t2[x] # "none" => Link(s, t2, x)'
    BY <1>21, <1>22
  <1>29. \A m \in Node : \A x \in DOMAIN backlog[m] :
           backlog[m][x] \notin {l, r} => \E y \in DOMAIN backlog'[m] : backlog'[m][y] = backlog[m][x]
    BY <1>2
  <1>30. /\ UNCHANGED <<client, got, at, files, complete, fs, todo>> /\ l \in {l, r}
         /\ t[l] \notin {"none", "fanout", "stored", "asking", "over"} /\ l.kind # "store"
         /\ t2[l] \notin {"none", "fanout", "stored"} /\ ~Dialling(s, t, l)
         /\ fd[n] \in {l, r} /\ pc[n] # "call" /\ pc[n] \notin Collecting
    BY <1>2, <1>3, <1>13, <1>16 DEF user, Collecting, Dialling, IsCall
  <1> QED BY <1>3, <1>15, <1>16, <1>19, <1>23, <1>24, <1>25, <1>26, <1>27, <1>28, <1>29, <1>30,
             SoftMove

-----------------------------------------------------------------------------
(* A fragment is added to the store of a node *)

\* Copy j of the file of client c comes to its place on node n; no other copy does.
Gains(s, t, t2, n, c, j) ==
    /\ Copy(s.want[c], j).node_id = n /\ ~Placed(s, t, s.file[c], j)
    /\ \A id \in DOMAIN files : \A i \in 1 .. Copies(files[id]) :
         Placed(s, t2, id, i)' <=> (Placed(s, t, id, i) \/ (id = s.file[c] /\ i = j))
    /\ fs' = [fs EXCEPT ![n][s.file[c]] = AddFragment(@, Entry(s, s.file[c], j))]

\* The number of a file that has one.
LEMMA NumberFacts ==
    ASSUME NEW s \in Stories, NEW t, Numbering(s, t), NEW c \in Client, client[c] # "off", Numbered(s, t, c)
    PROVE  /\ s.file[c] \in DOMAIN files /\ s.file[c] # 1 /\ s.file[c] \in Nat
           /\ files[s.file[c]] = s.want[c] /\ s.owner[s.file[c]] = c /\ client[c] = "sent"
  BY DEF Numbering

\* A shelf with one copy, or none, gains the copy that has been placed.
LEMMA SlotsGain ==
    ASSUME NEW s \in Stories, NEW t, NEW t2, Numbering(s, t), Shelves(s, t), Typed, files' = files,
           NEW n \in Node, NEW c \in Client, client[c] # "off", Numbered(s, t, c),
           NEW j \in 1 .. Copies(s.want[c]), Gains(s, t, t2, n, c, j)
    PROVE  Shelves(s, t2)'
  <1> DEFINE id0 == s.file[c]
  <1>1. id0 \in DOMAIN files /\ files[id0] = s.want[c] /\ s.want[c] \in Name
    BY NumberFacts, StoryType
  <1>2. \A id \in DOMAIN files : files[id] \in Name
    BY DEF Numbering
  <1>3. DOMAIN fs = Node /\ \A m \in Node : DOMAIN fs[m] = FileId
    BY DEF Typed
  <1>4. \A m \in Node, id \in FileId : m # n \/ id # id0 => fs'[m][id] = fs[m][id]
    BY <1>3 DEF Gains
  <1>5. \A id, i : Entry(s, id, i)' = Entry(s, id, i)
    BY DEF Entry
  <1> SUFFICES ASSUME NEW m \in Node, NEW id \in FileId
               PROVE  IF id \in DOMAIN files THEN Slots(s, t2, m, id)' ELSE fs'[m][id] = <<>>
    BY DEF Shelves
  <1>6. IF id \in DOMAIN files THEN Slots(s, t, m, id) ELSE fs[m][id] = <<>>
    BY DEF Shelves
  <1>7. CASE id \notin DOMAIN files
    BY <1>1, <1>4, <1>6, <1>7
  <1>8. CASE id \in DOMAIN files /\ (m # n \/ id # id0)
    <2>1. On(s, t2, m, id)' = On(s, t, m, id)
      BY <1>1, <1>8 DEF On, Gains
    <2>2. fs'[m][id] = fs[m][id]
      BY <1>4, <1>8
    <2> QED BY <1>5, <1>6, <1>8, <2>1, <2>2 DEF Slots
  <1>9. CASE id \in DOMAIN files /\ m = n /\ id = id0
    <2> DEFINE on  == On(s, t, n, id0)
               on2 == On(s, t2, n, id0)'
    <2>1. on2 = on \cup {j} /\ j \notin on
      BY <1>1 DEF On, Gains
    <2>2. fs'[n][id0] = AddFragment(fs[n][id0], Entry(s, id0, j))
      BY <1>3, <1>9 DEF Gains
    <2>3. Slots(s, t, n, id0)
      BY <1>6, <1>9
    <2>4. CASE on = {}
      <3>1. fs[n][id0] = <<>>
        BY <2>3, <2>4 DEF Slots
      <3>2. fs'[n][id0] = <<Entry(s, id0, j)>>
        BY <2>2, <3>1 DEF AddFragment
      <3>3. on2 = {j}
        BY <2>1, <2>4
      <3> HIDE DEF id0
      <3> QED BY <1>5, <1>9, <3>2, <3>3 DEF Slots
    <2>5. ASSUME NEW a \in on, on = {a}, fs[n][id0] = <<Entry(s, id0, a)>>
          PROVE  Slots(s, t2, n, id0)'
      <3>1. <<Entry(s, id0, a)>> # <<>> /\ <<Entry(s, id0, a)>>[1] = Entry(s, id0, a)
        OBVIOUS
      <3>2. fs'[n][id0] = <<Entry(s, id0, a), Entry(s, id0, j)>>
        BY <2>2, <2>5, <3>1 DEF AddFragment
      <3>3. on2 = {a, j} /\ a # j /\ a \in on2 /\ j \in on2
        BY <2>1, <2>5
      <3> HIDE DEF id0
      <3> QED BY <1>5, <3>2, <3>3 DEF Slots
    <2>6. ASSUME NEW a \in on, NEW b \in on, a # b PROVE FALSE
      <3>1. /\ a \in 1 .. Copies(s.want[c]) /\ b \in 1 .. Copies(s.want[c])
            /\ Copy(s.want[c], a).node_id = n /\ Copy(s.want[c], b).node_id = n
            /\ Copy(s.want[c], j).node_id = n
        BY <1>1 DEF On, Gains
      <3> QED BY <1>1, <2>1, <2>6, <3>1, CopyFacts
    <2> QED BY <1>9, <2>3, <2>4, <2>5, <2>6 DEF Slots
  <1> QED BY <1>7, <1>8, <1>9

\* WaitRaw: the node stores the fragment.
LEMMA StoreStep ==
    ASSUME NEW s \in Stories, NEW t \in [Conns -> Stage], Explains(s, t), NEW n \in Node, WaitRaw(n),
           NEW k \in Conns, RawHand(s, t, n, k), k.kind = "store"
    PROVE  \E t2 \in [Conns -> Stage] : Explains(s, t2)'
  <1>1. /\ Thread(s, t, n) /\ Typed /\ Queues(t) /\ DOMAIN wire = {x \in Conns : t[x] # "none"}
        /\ Numbering(s, t) /\ Shelves(s, t) /\ merged \in BOOLEAN /\ DOMAIN fs = Node
        /\ \A m \in Node : DOMAIN fs[m] = FileId
    BY DEF Explains, Typed
  <1>2. /\ pc[n] = "raw"
        /\ UNCHANGED <<backlog, fd, client_fd, packet, call, complete, user, strayed>>
    BY DEF WaitRaw, At
  <1>3. /\ fd[n] = k /\ k.to = n /\ t[k] = "raw" /\ Link(s, t, k) /\ client[k.c] # "off"
        /\ k \in DOMAIN wire /\ DOMAIN wire[k] = {"up", "down"} /\ wire[k].down = <<>>
        /\ wire[k].up = <<Second(s, k)>> /\ packet[n] = <<First(s, k)>>
    BY DEF RawHand
  <1>4. Shape(s, t, k) /\ k.i \in 1 .. Copies(s.want[k.c]) /\ k.to # Index
    BY <1>3 DEF Link, Shape
  <1>5. PICK c \in Client : k.c = c
    BY ConnType
  <1>6. /\ Bound(s, t, k) /\ Numbered(s, t, c)
    BY <1>3, <1>5, Attached DEF Bound
  <1>7. PICK j \in 1 .. Copies(s.want[c]) :
          j = k.i /\ k = StoreOf(s, c, j) /\ Copy(s.want[c], j).node_id = n
    BY <1>3, <1>4, <1>5, StoreConn DEF Shape
  <1>8. /\ s.file[c] \in DOMAIN files /\ s.file[c] # 1 /\ s.file[c] \in Nat
        /\ files[s.file[c]] = s.want[c] /\ s.owner[s.file[c]] = c
    BY <1>1, <1>3, <1>5, <1>6, NumberFacts
  <1>9. /\ merged' \in BOOLEAN /\ Flows(wire, wire', k, <<>>, <<>>)
        /\ fs' = [fs EXCEPT ![n][s.file[c]] = AddFragment(@, Entry(s, s.file[c], j))]
        /\ pc' = [pc EXCEPT ![n] = "idle"] /\ UNCHANGED <<ms, todo, files>>
    <2>1. PICK a : RawTaken(n, k, a)
      BY <1>1, RawRead
    <2>2. /\ Head(packet[n]).type = "STORE_FRAGMENT" /\ Head(packet[n]).file = s.file[c]
          /\ Head(packet[n]).frag = Copy(s.want[c], j).fragment
      BY <1>3, <1>5, <1>7, Reading1, PacketFacts DEF First
    <2>3. a = Second(s, k)
      BY <1>3, <2>1 DEF RawTaken
    <2>4. a.bytes = <<<<c, Copy(s.want[c], j).fragment>>>>
      BY <1>3, <1>5, <1>7, <2>3, PacketFacts DEF Second
    <2>5. [id |-> Head(packet[n]).frag, bytes |-> a.bytes] = Entry(s, s.file[c], j)
      BY <1>8, <2>2, <2>4 DEF Entry
    <2> QED BY <1>3, <2>1, <2>2, <2>5 DEF RawTaken, Goto
  <1>10. PICK t2 \in [Conns -> Stage] : t2[k] = "over" /\ SameBut(t, t2, k)
    <2>1. "over" \in Stage
      BY DEF Stage, CallStages
    <2> QED BY <2>1, Advance
  <1>11. \A x \in Conns \ {k} : t2[x] = t[x]
    BY <1>10 DEF SameBut
  <1>12. DOMAIN pc' = Node /\ pc'[n] = "idle" /\ \A m \in Node \ {n} : pc'[m] = pc[m]
    BY <1>1, <1>9 DEF Typed
  <1>13. Elsewhere(n) /\ Typed'
    <2>1. DOMAIN fs' = Node /\ \A m \in Node : DOMAIN fs'[m] = FileId
      BY <1>1, <1>9
    <2> QED BY <1>1, <1>2, <1>9, <1>12, <2>1 DEF Elsewhere, Typed, user
  <1>14. Link(s, t2, k)'
    <2>1. Shape(s, t2, k)
      BY <1>3, <1>4, <1>10 DEF Shape, CallStages
    <2>2. Seat(t2, k)' /\ Caller(s, t2, k)' /\ CallTalk(s, t2, k)'
      BY <1>10 DEF Seat, Caller, Dialling, CallTalk
    <2>3. LineTalk(s, t2, k)' /\ RelayTalk(s, t2, k)'
      BY DEF LineTalk, RelayTalk
    <2> QED BY <1>9, <2>1, <2>2, <2>3 DEF Link, Flows
  <1>15. Thread(s, t2, n)'
    <2>1. \A x \in Conns : /\ t[x] # "none" => t2[x] # "none"
                           /\ t[x] \notin {"none", "queued", "identify"} =>
                                t2[x] \notin {"none", "queued", "identify"}
      BY <1>3, <1>10, <1>11
    <2> QED BY <1>1, <1>2, <1>12, <2>1 DEF Thread, Position, Collecting
  <1>16. Queues(t2)'
    <2>1. \A x \in Conns : t[x] = "queued" => t2[x] = "queued"
      BY <1>3, <1>11
    <2> QED BY <1>1, <1>2, <2>1, QueuesKept
  <1>17. Inquiry(s, t2)' /\ Handout(s, t2)'
    <2>1. pc'[n] \notin {"ask", "fanout", "call"}
      BY <1>12
    <2> QED BY <1>3, <1>9, <1>10, <1>13, <2>1, SoftAside
  <1>18. Numbering(s, t2)'
    <2>1. \A x \in Conns : t2[x] \in {"fanout", "stored"} <=> t[x] \in {"fanout", "stored"}
      BY <1>3, <1>10, <1>11
    <2>2. UNCHANGED <<files, client>>
      BY <1>2, <1>9 DEF user
    <2> QED BY <2>1, <2>2, FilesApart
  <1>19. Job(s, c) # k /\ \A d \in Client : Job(s, d) # k
    BY ConnsOf
  <1>20. Shelves(s, t2)'
    <2>1. ~Placed(s, t, s.file[c], j)
      BY <1>3, <1>4, <1>7, <1>8 DEF Placed
    <2>2. ASSUME NEW id \in DOMAIN files, NEW i \in 1 .. Copies(files[id])
          PROVE  Placed(s, t2, id, i)' <=> (Placed(s, t, id, i) \/ (id = s.file[c] /\ i = j))
      <3>1. CASE id = 1
        BY <1>8, <3>1 DEF Placed
      <3>2. CASE id # 1
        <4>1. id \in 2 .. Len(files)
          BY <1>1, <3>2 DEF Numbering
        <4>2. PICK d \in Client : /\ s.owner[id] = d /\ client[d] # "off" /\ Numbered(s, t, d)
                                  /\ s.file[d] = id /\ files[id] = s.want[d]
          BY <1>1, <4>1 DEF Numbering
        <4>3. Left(s, t2, d)' = Left(s, t, d)
          BY <1>9, <1>11, <1>19, ConnsOf DEF Left
        <4>4. /\ StoreOf(s, d, i) \in Conns /\ StoreOf(s, d, i).c = d /\ StoreOf(s, d, i).i = i
          BY <4>2, StoreConn
        <4>5. StoreOf(s, d, i) = k <=> (id = s.file[c] /\ i = j)
          BY <1>5, <1>7, <1>8, <4>2, <4>4
        <4>6. (t2[StoreOf(s, d, i)] = "over") <=> (t[StoreOf(s, d, i)] = "over" \/ (id = s.file[c] /\ i = j))
          BY <1>10, <1>11, <4>4, <4>5
        <4>7. id = s.file[c] /\ i = j => Copy(files[id], i).node_id # Index
          BY <1>3, <1>4, <1>7, <1>8, ZenonT(60)
        <4> QED BY <1>9, <3>2, <4>2, <4>3, <4>6, <4>7 DEF Placed
      <3> QED BY <3>1, <3>2
    <2>3. Gains(s, t, t2, n, c, j)
      BY <1>7, <1>9, <2>1, <2>2 DEF Gains
    <2> QED BY <1>1, <1>3, <1>5, <1>6, <1>9, <2>3, SlotsGain
  <1>21. Request(s, t2, c)'
    <2>1. \A x \in Conns : Alike(s, t[x], t2[x], x)
      BY <1>3, <1>10, <1>11 DEF Alike
    <2>2. \A x \in Conns : t[x] = "stored" => t2[x] = "stored"
      BY <1>3, <1>11
    <2>3. LineOf(s, c) # k /\ RelayOf(s, c) # k /\ LineOf(s, c) \in Conns /\ RelayOf(s, c) \in Conns
      BY ConnsOf
    <2>4. t[RelayOf(s, c)] \in {"asking", "asked", "refused"} =>
            wire'[RelayOf(s, c)].down = wire[RelayOf(s, c)].down
      BY <1>1, <1>9, <2>3 DEF Flows, SameBut
    <2>5. t[LineOf(s, c)] = "collect" => pc'[s.home[c]] \in Collecting /\ ms'[s.home[c]] = ms[s.home[c]]
      <3>1. t[LineOf(s, c)] = "collect" => pc[s.home[c]] \in Collecting
        BY <1>3, <1>5 DEF Explains, Request, Tally
      <3> QED BY <1>2, <1>9, <1>12, <3>1, StoryType DEF Collecting
    <2>6. Request(s, t, c)
      BY DEF Explains
    <2>7. client'[c] = client[c] /\ got'[c] = got[c] /\ at'[c] = at[c] /\ files' = files
          /\ (c \in complete' <=> c \in complete)
      BY <1>2, <1>9 DEF user
    <2> QED BY <1>1, <2>1, <2>2, <2>4, <2>5, <2>6, <2>7, RequestFrame
  <1>22. Ripple(s, t, t2, n)
    BY <1>3, <1>10, <1>11 DEF Ripple, Dialling
  <1>23. (Granted(s, t2, c) <=> Granted(s, t, c)) /\ (Numbered(s, t2, c) <=> Numbered(s, t, c))
    BY <1>11, <1>19, ConnsOf DEF Granted, Numbered
  <1>24. \A x \in Conns : x \in {k} /\ t2[x] # "none" => Link(s, t2, x)' /\ Bound(s, t2, x)
    BY <1>3, <1>5, <1>6, <1>14, <1>23 DEF Bound
  <1>25. /\ \A x \in Conns \ {k} : t2[x] = t[x] /\ (t[x] # "none" => wire'[x] = wire[x])
         /\ DOMAIN wire' = {x \in Conns : t2[x] # "none"}
    BY <1>1, <1>3, <1>9, <1>10, <1>11 DEF Flows, SameBut
  <1>26. /\ \A x \in Conns : x \in {k} => x.c = c /\ (t[x] = "stored" => t2[x] = "stored")
         /\ LineOf(s, c) \notin {k} /\ fd[n] \in {k} /\ pc[n] # "call" /\ pc[n] \notin Collecting
         /\ client[c] # "off" /\ UNCHANGED <<client, got, at, files>> /\ complete' = complete
         /\ \A m \in Node : \A x \in DOMAIN backlog[m] :
              backlog[m][x] \notin {k} => \E y \in DOMAIN backlog'[m] : backlog'[m][y] = backlog[m][x]
    BY <1>2, <1>3, <1>5, <1>9, ConnsOf DEF user, Collecting
  <1> QED BY <1>13, <1>15, <1>16, <1>17, <1>18, <1>20, <1>21, <1>22, <1>23, <1>24, <1>25, <1>26, OneRequest

-----------------------------------------------------------------------------
(* Another story of the same state *)

\* The stories agree on client c, and on the creators of the files there are.
SameOf(s, s2, c) ==
    s2.want[c] = s.want[c] /\ s2.home[c] = s.home[c] /\ s2.op[c] = s.op[c] /\ s2.file[c] = s.file[c]
SameOwners(s, s2) == \A id \in DOMAIN files : s2.owner[id] = s.owner[id]

\* Two stories that agree about a client agree about its connections and its request.
LEMMA SameConns ==
    ASSUME NEW s \in Stories, NEW s2 \in Stories, NEW t, NEW c \in Client, SameOf(s, s2, c)
    PROVE  /\ LineOf(s2, c) = LineOf(s, c) /\ RelayOf(s2, c) = RelayOf(s, c) /\ Job(s2, c) = Job(s, c)
           /\ Reader(s2, c) = Reader(s, c)
           /\ \A i : DeliverOf(s2, c, i) = DeliverOf(s, c, i) /\ StoreOf(s2, c, i) = StoreOf(s, c, i)
           /\ Contents(s2, c) = Contents(s, c) /\ Creation(s2, c) = Creation(s, c)
           /\ Bytes(s2, c) = Bytes(s, c) /\ Wish(s2, c) = Wish(s, c) /\ Grant(s2, c) = Grant(s, c)
           /\ (Granted(s2, t, c) <=> Granted(s, t, c)) /\ (Numbered(s2, t, c) <=> Numbered(s, t, c))
  BY DEF SameOf, LineOf, RelayOf, Job, Reader, DeliverOf, StoreOf, Contents, Creation, Bytes, Wish, Grant,
         Granted, Numbered

\* A request that delivers has been granted a file that has been created.
LEMMA GrantedWhen ==
    ASSUME NEW s \in Stories, NEW t \in [Conns -> Stage], Explains(s, t), NEW k \in Conns, t[k] # "none"
    PROVE  /\ k.kind = "deliver" => Granted(s, t, k.c)
           /\ k.kind = "client" /\ t[k] \in {"collect", "hand_over", "served", "asking", "asked"} =>
                Granted(s, t, k.c)
           /\ Granted(s, t, k.c) => s.file[k.c] \in DOMAIN files
  <1>1. client[k.c] # "off" /\ Link(s, t, k) /\ Bound(s, t, k) /\ k.c \in Client
    BY Attached, ConnType
  <1>2. Request(s, t, k.c)
    BY <1>1 DEF Explains
  <1>3. Progress(s, t, k.c) /\ Found(s, t, k.c) /\ Doing(s, k.c)
    BY <1>1, <1>2 DEF Request
  <1>4. k.kind = "client" => /\ k = LineOf(s, k.c) /\ LineTalk(s, t, k) /\ k.to = s.home[k.c]
    BY <1>1, CallEnds DEF Link
  <1>5. ASSUME k.kind = "client", t[k] \in {"collect", "hand_over", "served", "asking", "asked"}
        PROVE  Granted(s, t, k.c)
    <2>1. CASE t[k] \in {"asking", "asked"}
      BY <1>4, <1>5, <2>1 DEF LineTalk, Granted, Job
    <2>2. CASE t[k] \in {"collect", "hand_over", "served"}
      <3>1. s.home[k.c] # Index /\ client[k.c] \in {"asked", "fetch", "done"}
        BY <1>4, <1>5, <2>2 DEF LineTalk, Promised, Is
      <3>2. s.op[k.c] = "read"
        BY <1>3, <3>1 DEF Doing
      <3> QED BY <1>3, <1>4, <1>5, <2>2, <3>1, <3>2 DEF Progress, Granted, Job
    <2> QED BY <1>5, <2>1, <2>2
  <1> QED BY <1>1, <1>3, <1>5 DEF Bound, Found

LEMMA SameLink ==
    ASSUME NEW s \in Stories, NEW s2 \in Stories, NEW t \in [Conns -> Stage], Explains(s, t),
           NEW k \in Conns, t[k] # "none", SameOf(s, s2, k.c), SameOwners(s, s2)
    PROVE  /\ Link(s2, t, k) /\ Bound(s2, t, k)
           /\ Dialling(s2, t, k) <=> Dialling(s, t, k)
  <1>1. Link(s, t, k) /\ Bound(s, t, k) /\ k.c \in Client
    BY Attached, ConnType
  <1>2. /\ Shape(s, t, k) /\ Seat(t, k) /\ Caller(s, t, k) /\ CallTalk(s, t, k)
        /\ LineTalk(s, t, k) /\ RelayTalk(s, t, k)
    BY <1>1 DEF Link
  <1>3. s2.want[k.c] = s.want[k.c] /\ s2.home[k.c] = s.home[k.c] /\ s2.op[k.c] = s.op[k.c]
        /\ s2.file[k.c] = s.file[k.c]
    BY DEF SameOf
  <1>4. /\ LineOf(s2, k.c) = LineOf(s, k.c) /\ RelayOf(s2, k.c) = RelayOf(s, k.c)
        /\ Reader(s2, k.c) = Reader(s, k.c) /\ DeliverOf(s2, k.c, k.i) = DeliverOf(s, k.c, k.i)
        /\ StoreOf(s2, k.c, k.i) = StoreOf(s, k.c, k.i)
        /\ Contents(s2, k.c) = Contents(s, k.c) /\ Creation(s2, k.c) = Creation(s, k.c)
        /\ Bytes(s2, k.c) = Bytes(s, k.c) /\ Wish(s2, k.c) = Wish(s, k.c) /\ Grant(s2, k.c) = Grant(s, k.c)
        /\ Granted(s2, t, k.c) <=> Granted(s, t, k.c)
        /\ Numbered(s2, t, k.c) <=> Numbered(s, t, k.c)
    BY <1>1, SameConns
  <1>5. First(s2, k) = First(s, k)
    BY <1>3, <1>4 DEF First
  <1>6. k.kind = "deliver" => Second(s2, k) = Second(s, k)
    BY <1>3, GrantedWhen DEF Second, SameOwners
  <1>7. k.kind = "store" => Second(s2, k) = Second(s, k)
    BY <1>3 DEF Second
  <1>8. HasBytes(s2, k) <=> HasBytes(s, k)
    BY <1>3 DEF HasBytes
  <1>9. Rest(s2, k) = Rest(s, k) /\ Full(s2, k) = Full(s, k)
    BY <1>5, <1>6, <1>7, <1>8 DEF Rest, Full, HasBytes
  <1>10. Remaining(s2, t, k) = Remaining(s, t, k)
    BY <1>9 DEF Remaining
  <1>11. IsCall(s2, k) <=> IsCall(s, k)
    BY <1>3 DEF IsCall
  <1>12. Dialling(s2, t, k) <=> Dialling(s, t, k)
    BY <1>11 DEF Dialling
  <1>13. Shape(s2, t, k)
    BY <1>2, <1>3, <1>4 DEF Shape
  <1>14. Caller(s2, t, k)
    BY <1>2, <1>10, <1>12 DEF Caller
  <1>15. CallTalk(s2, t, k)
    <2>1. t[k] = "raw" /\ IsCall(s, k) => k.kind \in {"deliver", "store"}
      BY <1>2 DEF Shape, IsCall, ReadRelayStages
    <2> QED BY <1>2, <1>5, <1>6, <1>7, <1>11, <2>1 DEF CallTalk
  <1>16. LineTalk(s2, t, k)
    <2>1. Taken(s2, k) <=> Taken(s, k)
      BY <1>4 DEF Taken
    <2>2. Promised(s2, k) <=> Promised(s, k)
      BY <1>4 DEF Promised
    <2>3. k.kind = "client" /\ t[k] \in {"hand_over", "served"} => Whole(s2, k.c) = Whole(s, k.c)
      BY <1>3, GrantedWhen DEF Whole, SameOwners
    <2> QED BY <1>2, <1>4, <2>1, <2>2, <2>3 DEF LineTalk
  <1>17. RelayTalk(s2, t, k)
    <2>1. Forwarded(s2, k.c) <=> Forwarded(s, k.c)
      BY <1>4 DEF Forwarded
    <2>2. Held(s2, k) <=> Held(s, k)
      BY <1>4, <2>1 DEF Held
    <2> QED BY <1>2, <1>3, <1>4, <2>1, <2>2 DEF RelayTalk
  <1>18. Bound(s2, t, k)
    BY <1>1, <1>4 DEF Bound
  <1> QED BY <1>1, <1>2, <1>12, <1>13, <1>14, <1>15, <1>16, <1>17, <1>18 DEF Link
LEMMA SameRequest ==
    ASSUME NEW s \in Stories, NEW s2 \in Stories, NEW t \in [Conns -> Stage], Explains(s, t),
           SameOwners(s, s2), \A d \in Client : Numbered(s, t, d) => SameOf(s, s2, d),
           NEW c \in Client, SameOf(s, s2, c)
    PROVE  Request(s2, t, c)
  <1> SUFFICES ASSUME client[c] # "off" PROVE Request(s2, t, c)
    BY DEF Request
  <1>1. Request(s, t, c) /\ Numbering(s, t)
    BY DEF Explains
  <1>2. /\ Progress(s, t, c) /\ Answers(s, t, c) /\ Doing(s, c)
        /\ \A i \in 1 .. Parts[s.want[c]] : s.home[c] # Index => Fetch(s, t, c, i)
        /\ Tally(s, t, c) /\ Found(s, t, c) /\ HandedOut(s, t, c)
        /\ c \in complete <=> t[Job(s, c)] = "stored"
    BY <1>1 DEF Request
  <1>3. s2.want[c] = s.want[c] /\ s2.home[c] = s.home[c] /\ s2.op[c] = s.op[c] /\ s2.file[c] = s.file[c]
    BY DEF SameOf
  <1>4. /\ LineOf(s2, c) = LineOf(s, c) /\ RelayOf(s2, c) = RelayOf(s, c) /\ Job(s2, c) = Job(s, c)
        /\ \A i : DeliverOf(s2, c, i) = DeliverOf(s, c, i) /\ StoreOf(s2, c, i) = StoreOf(s, c, i)
        /\ Contents(s2, c) = Contents(s, c) /\ Grant(s2, c) = Grant(s, c)
        /\ (Granted(s2, t, c) <=> Granted(s, t, c)) /\ (Numbered(s2, t, c) <=> Numbered(s, t, c))
    BY SameConns
  <1>5. Progress(s2, t, c)
    BY <1>2, <1>3, <1>4 DEF Progress
  <1>6. Answers(s2, t, c)
    BY <1>2, <1>4 DEF Answers
  <1>7. Doing(s2, c)
    BY <1>2, <1>3, <1>4 DEF Doing
  <1>8. \A i \in 1 .. Parts[s2.want[c]] : s2.home[c] # Index => Fetch(s2, t, c, i)
    BY <1>2, <1>3, <1>4 DEF Fetch
  <1>9. Tally(s2, t, c)
    <2> SUFFICES ASSUME t[LineOf(s, c)] = "collect" PROVE Tally(s2, t, c)
      BY <1>4 DEF Tally
    <2>1. LineOf(s, c) \in Conns /\ LineOf(s, c).c = c /\ LineOf(s, c).kind = "client"
      BY ConnsOf
    <2>2. s.file[c] \in DOMAIN files
      BY <2>1, GrantedWhen
    <2>3. s2.owner[s2.file[c]] = s.owner[s.file[c]]
      BY <1>3, <2>2 DEF SameOwners
    <2>4. Arrived(s2, t, c) = Arrived(s, t, c)
      BY <1>3, <1>4 DEF Arrived
    <2> QED BY <1>2, <1>3, <1>4, <2>3, <2>4 DEF Tally
  <1>10. Found(s2, t, c)
    <2> SUFFICES ASSUME Granted(s, t, c) PROVE Found(s2, t, c)
      BY <1>4 DEF Found
    <2>1. /\ s.op[c] = "read" /\ s.file[c] \in DOMAIN files /\ files[s.file[c]] = s.want[c]
          /\ s.file[c] = 1 \/ t[Job(s, s.owner[s.file[c]])] = "stored"
      BY <1>2 DEF Found
    <2>2. CASE s.file[c] = 1
      BY <1>3, <1>4, <2>1, <2>2 DEF Found
    <2>3. CASE s.file[c] # 1
      <3>1. s.file[c] \in 2 .. Len(files)
        BY <1>1, <2>1, <2>3 DEF Numbering
      <3>2. PICK d \in Client : d = s.owner[s.file[c]] /\ Numbered(s, t, d)
        BY <1>1, <3>1 DEF Numbering
      <3>3. SameOf(s, s2, d) /\ s2.owner[s2.file[c]] = d
        BY <1>3, <2>1, <3>2 DEF SameOwners
      <3>4. Job(s2, d) = Job(s, d)
        BY <3>3, SameConns
      <3> QED BY <1>3, <2>1, <3>2, <3>3, <3>4 DEF Found
    <2> QED BY <2>2, <2>3
  <1>11. HandedOut(s2, t, c)
    BY <1>2, <1>3, <1>4 DEF HandedOut
  <1> QED BY <1>2, <1>4, <1>5, <1>6, <1>7, <1>8, <1>9, <1>10, <1>11 DEF Request

\* The stories may differ on a client c0 whose request the index has not granted or
\* numbered, as long as both explain the connections of c0.
LEMMA Resettled ==
    ASSUME NEW s \in Stories, NEW s2 \in Stories, NEW t \in [Conns -> Stage], Explains(s, t),
           SameOwners(s, s2), NEW c0 \in Client, \A c \in Client \ {c0} : SameOf(s, s2, c),
           ~Granted(s, t, c0), ~Numbered(s, t, c0), ~Granted(s2, t, c0), ~Numbered(s2, t, c0),
           \A k \in Conns : k.c = c0 /\ t[k] # "none" =>
              Link(s2, t, k) /\ Bound(s2, t, k) /\ (Dialling(s, t, k) => Dialling(s2, t, k)),
           Request(s2, t, c0)
    PROVE  Explains(s2, t)
  <1>1. /\ Typed /\ DOMAIN wire = {k \in Conns : t[k] # "none"} /\ Links(s, t) /\ Queues(t)
        /\ \A n \in Node : Thread(s, t, n)
        /\ Inquiry(s, t) /\ Handout(s, t) /\ Numbering(s, t) /\ Shelves(s, t)
    BY DEF Explains
  <1>2. \A c \in Client : Granted(s, t, c) \/ Numbered(s, t, c) => SameOf(s, s2, c)
    OBVIOUS
  <1>3. \A c \in Client : Request(s2, t, c)
    <2>1. \A c \in Client \ {c0} : Request(s2, t, c)
      BY <1>2, SameRequest
    <2> QED BY <2>1
  <1>4. ASSUME NEW k \in Conns, t[k] # "none"
        PROVE  Link(s2, t, k) /\ Bound(s2, t, k) /\ (Dialling(s, t, k) => Dialling(s2, t, k))
    <2>1. CASE k.c = c0
      BY <1>4, <2>1
    <2>2. CASE k.c # c0
      BY <1>4, <2>2, SameLink, ConnType
    <2> QED BY <2>1, <2>2
  <1>5. Links(s2, t)
    BY <1>1, <1>4 DEF Links
  <1>6. ASSUME NEW n \in Node PROVE Thread(s2, t, n)
    <2>1. Thread(s, t, n)
      BY <1>1
    <2>2. pc[n] = "call" => Dialling(s2, t, call[n].conn)
      <3>1. pc[n] = "call" => call[n].conn \in Conns /\ Dialling(s, t, call[n].conn)
        BY <2>1 DEF Thread
      <3>2. pc[n] = "call" => t[call[n].conn] # "none"
        BY <3>1 DEF Dialling
      <3> QED BY <1>4, <3>1, <3>2
    <2> QED BY <2>1, <2>2 DEF Thread
  <1>7. Inquiry(s2, t)
    <2> SUFFICES ASSUME Working("ask") PROVE Inquiry(s2, t)
      BY DEF Inquiry
    <2>1. Serves(t, Index, {"asking"}) /\ fd[Index] = Job(s, fd[Index].c)
      BY <1>1 DEF Inquiry
    <2>2. PICK c \in Client : fd[Index].c = c
      BY <2>1, ConnType DEF Serves
    <2>3. SameOf(s, s2, c)
      BY <1>2, <2>1, <2>2 DEF Serves, Granted
    <2>4. /\ s2.want[fd[Index].c] = s.want[fd[Index].c] /\ s2.file[fd[Index].c] = s.file[fd[Index].c]
          /\ Job(s2, fd[Index].c) = Job(s, fd[Index].c) /\ Reader(s2, fd[Index].c) = Reader(s, fd[Index].c)
          /\ Contents(s2, fd[Index].c) = Contents(s, fd[Index].c)
          /\ \A i : /\ DeliverOf(s2, fd[Index].c, i) = DeliverOf(s, fd[Index].c, i)
                    /\ StoreOf(s2, fd[Index].c, i) = StoreOf(s, fd[Index].c, i)
      BY <2>2, <2>3, SameConns DEF SameOf
    <2>5. Inquiry(s, t)
      BY <1>1
    <2> QED BY <2>4, <2>5 DEF Inquiry
  <1>8. Handout(s2, t)
    <2> SUFFICES ASSUME Working("fanout") PROVE Handout(s2, t)
      BY DEF Handout
    <2>1. Serves(t, Index, {"fanout"}) /\ fd[Index] = Job(s, fd[Index].c)
      BY <1>1 DEF Handout
    <2>2. PICK c \in Client : fd[Index].c = c
      BY <2>1, ConnType DEF Serves
    <2>3. SameOf(s, s2, c)
      BY <1>2, <2>1, <2>2 DEF Serves, Numbered
    <2>4. /\ s2.want[fd[Index].c] = s.want[fd[Index].c] /\ s2.file[fd[Index].c] = s.file[fd[Index].c]
          /\ Job(s2, fd[Index].c) = Job(s, fd[Index].c) /\ Reader(s2, fd[Index].c) = Reader(s, fd[Index].c)
          /\ Contents(s2, fd[Index].c) = Contents(s, fd[Index].c)
          /\ \A i : /\ DeliverOf(s2, fd[Index].c, i) = DeliverOf(s, fd[Index].c, i)
                    /\ StoreOf(s2, fd[Index].c, i) = StoreOf(s, fd[Index].c, i)
      BY <2>2, <2>3, SameConns DEF SameOf
    <2>5. Handout(s, t)
      BY <1>1
    <2> QED BY <2>4, <2>5 DEF Handout
  <1>9. ASSUME NEW id \in 2 .. Len(files)
        PROVE  \E c \in Client : /\ s.owner[id] = c /\ s2.owner[id] = c /\ SameOf(s, s2, c)
                                 /\ client[c] # "off" /\ Numbered(s, t, c) /\ s.file[c] = id
    <2>1. PICK c \in Client : /\ s.owner[id] = c /\ client[c] # "off" /\ Numbered(s, t, c) /\ s.file[c] = id
      BY <1>1 DEF Numbering
    <2>2. id \in DOMAIN files
      BY <1>1 DEF Numbering
    <2> QED BY <1>2, <2>1, <2>2 DEF SameOwners
  <1>10. Numbering(s2, t)
    <2>1. /\ files \in Seq(Name) /\ Len(files) >= 1 /\ s.owner[1] = 0 /\ files[1] = Known
      BY <1>1 DEF Numbering
    <2>2. s2.owner[1] = 0
      <3>1. 1 \in DOMAIN files
        BY <2>1
      <3> QED BY <2>1, <3>1 DEF SameOwners
    <2>3. \A id \in 2 .. Len(files) :
            LET c == s2.owner[id] IN
            c \in Client /\ client[c] # "off" /\ Numbered(s2, t, c) /\ s2.file[c] = id
      BY <1>9, SameConns DEF SameOf
    <2>4. ASSUME NEW c \in Client, client[c] # "off", Numbered(s2, t, c)
          PROVE  /\ client[c] = "sent" /\ s2.file[c] \in 2 .. Len(files)
                 /\ s2.owner[s2.file[c]] = c /\ files[s2.file[c]] = s2.want[c]
      <3>1. SameOf(s, s2, c) /\ Numbered(s, t, c)
        BY <2>4, SameConns
      <3>2. /\ client[c] = "sent" /\ s.file[c] \in 2 .. Len(files)
            /\ s.owner[s.file[c]] = c /\ files[s.file[c]] = s.want[c]
        BY <1>1, <2>4, <3>1 DEF Numbering
      <3>3. s.file[c] \in DOMAIN files
        BY <2>1, <3>2
      <3> QED BY <3>1, <3>2, <3>3 DEF SameOf, SameOwners
    <2> QED BY <2>1, <2>2, <2>3, <2>4 DEF Numbering
  <1>11. Shelves(s2, t)
    <2> SUFFICES ASSUME NEW m \in Node, NEW id \in FileId, id \in DOMAIN files PROVE Slots(s2, t, m, id)
      BY <1>1 DEF Shelves
    <2>1. Slots(s, t, m, id)
      BY <1>1 DEF Shelves
    <2>2. s2.owner[id] = s.owner[id]
      BY DEF SameOwners
    <2>3. \A j : Entry(s2, id, j) = Entry(s, id, j)
      BY <2>2 DEF Entry
    <2>4. \A j : Placed(s2, t, id, j) <=> Placed(s, t, id, j)
      <3>1. CASE id = 1
        BY <3>1 DEF Placed
      <3>2. CASE id # 1
        <4>1. id \in 2 .. Len(files)
          BY <1>1, <3>2 DEF Numbering
        <4>2. PICK c \in Client : s.owner[id] = c /\ SameOf(s, s2, c)
          BY <1>9, <4>1
        <4>3. Left(s2, t, c) = Left(s, t, c) /\ \A j : StoreOf(s2, c, j) = StoreOf(s, c, j)
          BY <4>2, SameConns DEF Left
        <4> QED BY <2>2, <3>2, <4>2, <4>3 DEF Placed
      <3> QED BY <3>1, <3>2
    <2>5. On(s2, t, m, id) = On(s, t, m, id)
      BY <2>4 DEF On
    <2> QED BY <2>1, <2>3, <2>5 DEF Slots
  <1> QED BY <1>1, <1>3, <1>5, <1>6, <1>7, <1>8, <1>10, <1>11 DEF Explains
\* A client that has not come yet may come to any node.
LEMMA ResettleOff ==
    ASSUME NEW s \in Stories, NEW s2 \in Stories, NEW t \in [Conns -> Stage], Explains(s, t),
           SameOwners(s, s2), NEW c0 \in Client, \A c \in Client \ {c0} : SameOf(s, s2, c), client[c0] = "off"
    PROVE  Explains(s2, t)
  <1>1. \A k \in Conns : k.c = c0 => t[k] = "none"
    BY Attached
  <1>2. /\ Job(s, c0) \in Conns /\ Job(s, c0).c = c0 /\ Job(s2, c0) \in Conns /\ Job(s2, c0).c = c0
    BY ConnsOf
  <1>3. ~Granted(s, t, c0) /\ ~Numbered(s, t, c0) /\ ~Granted(s2, t, c0) /\ ~Numbered(s2, t, c0)
    BY <1>1, <1>2 DEF Granted, Numbered
  <1>4. Request(s2, t, c0)
    BY DEF Request
  <1> QED BY <1>1, <1>3, <1>4, Resettled

\* A client that has been let in may ask for anything.
LEMMA ResettleReady ==
    ASSUME NEW s \in Stories, NEW s2 \in Stories, NEW t \in [Conns -> Stage], Explains(s, t),
           SameOwners(s, s2), NEW c0 \in Client, \A c \in Client \ {c0} : SameOf(s, s2, c),
           client[c0] = "ready", s2.home[c0] = s.home[c0]
    PROVE  Explains(s2, t) /\ t[LineOf(s, c0)] = "open"
  <1>1. PICK l \in Conns : l = LineOf(s, c0) /\ l.c = c0 /\ l.kind = "client"
    BY ConnsOf
  <1>2. PICK r \in Conns : r = RelayOf(s, c0) /\ r.c = c0 /\ r.kind = "relay"
    BY ConnsOf
  <1>3. Request(s, t, c0) /\ Progress(s, t, c0) /\ at[c0] = s.home[c0]
        /\ (c0 \in complete <=> t[Job(s, c0)] = "stored")
    BY DEF Explains, Request, Doing
  <1>4. t[l] # "none"
    BY <1>1, <1>3 DEF Progress
  <1>5. Link(s, t, l)
    BY <1>4, Attached
  <1>6. t[l] = "open"
    <2>1. LineTalk(s, t, l) /\ t[l] \in LineStages
      BY <1>1, <1>5 DEF Link, Shape
    <2> QED BY <1>1, <2>1 DEF LineTalk, Is, Taken, Promised, LineStages
  <1>7. t[r] = "none"
    BY <1>1, <1>2, <1>3, <1>6 DEF Progress
  <1>8. /\ LineOf(s2, c0) = l /\ RelayOf(s2, c0) = r /\ Job(s2, c0) = Job(s, c0) /\ Job(s, c0) \in {l, r}
        /\ \A i : DeliverOf(s2, c0, i) = DeliverOf(s, c0, i)
    BY <1>1, <1>2 DEF LineOf, RelayOf, Job, DeliverOf
  <1>9. ~Granted(s, t, c0) /\ ~Numbered(s, t, c0) /\ ~Granted(s2, t, c0) /\ ~Numbered(s2, t, c0)
        /\ t[Job(s, c0)] # "stored"
    BY <1>6, <1>7, <1>8 DEF Granted, Numbered
  <1>10. ASSUME NEW k \in Conns, k.c = c0, t[k] # "none" PROVE k = l
    <2>1. Link(s, t, k) /\ Bound(s, t, k)
      BY <1>10, Attached
    <2>2. k.kind \in {"client", "relay"}
      BY <1>9, <1>10, <2>1, ConnType DEF Bound, Kinds
    <2> QED BY <1>1, <1>2, <1>7, <1>10, <2>1, <2>2 DEF Link, Shape
  <1>11. Link(s2, t, l) /\ Bound(s2, t, l) /\ ~Dialling(s, t, l)
    <2>1. Shape(s2, t, l)
      BY <1>1, <1>6, <1>8 DEF Shape, LineStages
    <2>2. LineTalk(s2, t, l)
      <3>1. Is(l, "ready", <<>>, <<>>)
        BY <1>1, <1>5, <1>6 DEF Link, LineTalk, Is
      <3> QED BY <1>6, <3>1 DEF LineTalk
    <2>3. Seat(t, l) /\ DOMAIN wire[l] = {"up", "down"}
      BY <1>5 DEF Link
    <2>4. Caller(s2, t, l) /\ CallTalk(s2, t, l) /\ RelayTalk(s2, t, l)
      BY <1>1 DEF Caller, Dialling, IsCall, CallTalk, RelayTalk
    <2> QED BY <1>1, <2>1, <2>2, <2>3, <2>4 DEF Link, Bound, Dialling, IsCall
  <1>12. Request(s2, t, c0)
    <2>1. Progress(s2, t, c0)
      BY <1>6, <1>7, <1>8 DEF Progress
    <2>2. Answers(s2, t, c0) /\ Tally(s2, t, c0)
      BY <1>6, <1>8 DEF Answers, Tally
    <2>3. Doing(s2, c0)
      BY <1>3 DEF Doing
    <2>4. ASSUME NEW i \in 1 .. Parts[s2.want[c0]] PROVE Fetch(s2, t, c0, i)
      <3>1. i \in Node
        BY StoryType, PartsFacts
      <3>2. t[DeliverOf(s2, c0, i)] = "none"
        BY <1>1, <1>8, <1>10, <3>1, ConnsOf
      <3> QED BY <1>6, <1>8, <3>2 DEF Fetch, Undelivered, Delivered
    <2>5. Found(s2, t, c0) /\ HandedOut(s2, t, c0)
      BY <1>8, <1>9 DEF Found, HandedOut
    <2> QED BY <1>3, <1>8, <2>1, <2>2, <2>3, <2>4, <2>5 DEF Request
  <1> QED BY <1>1, <1>6, <1>9, <1>10, <1>11, <1>12, Resettled

\* Until a request is granted or numbered, its file may have any number.
LEMMA ResettleFile ==
    ASSUME NEW s \in Stories, NEW s2 \in Stories, NEW t \in [Conns -> Stage], Explains(s, t),
           SameOwners(s, s2), NEW c0 \in Client, \A c \in Client \ {c0} : SameOf(s, s2, c),
           ~Granted(s, t, c0), ~Numbered(s, t, c0), client[c0] # "off",
           s2.home[c0] = s.home[c0], s2.want[c0] = s.want[c0], s2.op[c0] = s.op[c0]
    PROVE  Explains(s2, t)
  <1>1. /\ LineOf(s2, c0) = LineOf(s, c0) /\ RelayOf(s2, c0) = RelayOf(s, c0) /\ Job(s2, c0) = Job(s, c0)
        /\ \A i : DeliverOf(s2, c0, i) = DeliverOf(s, c0, i) /\ StoreOf(s2, c0, i) = StoreOf(s, c0, i)
        /\ Contents(s2, c0) = Contents(s, c0) /\ Creation(s2, c0) = Creation(s, c0)
        /\ Bytes(s2, c0) = Bytes(s, c0) /\ Wish(s2, c0) = Wish(s, c0)
    BY DEF LineOf, RelayOf, Job, DeliverOf, StoreOf, Contents, Creation, Bytes, Wish
  <1>2. ~Granted(s2, t, c0) /\ ~Numbered(s2, t, c0)
    BY <1>1 DEF Granted, Numbered
  <1>3. ASSUME NEW k \in Conns, k.c = c0, t[k] # "none"
        PROVE  Link(s2, t, k) /\ Bound(s2, t, k) /\ (Dialling(s, t, k) => Dialling(s2, t, k))
    <2>1. Link(s, t, k) /\ Bound(s, t, k)
      BY <1>3, Attached
    <2>2. /\ Shape(s, t, k) /\ Seat(t, k) /\ Caller(s, t, k) /\ CallTalk(s, t, k)
          /\ LineTalk(s, t, k) /\ RelayTalk(s, t, k)
      BY <2>1 DEF Link
    <2>3. k.kind \in {"client", "relay"}
      BY <1>3, <2>1, ConnType DEF Bound, Kinds
    <2>4. k.kind = "client" => t[k] \notin {"collect", "hand_over", "served", "asking", "asked"}
      BY <1>3, GrantedWhen
    <2>5. k.kind = "relay" => First(s2, k) = First(s, k) /\ ~HasBytes(s, k) /\ ~HasBytes(s2, k)
      BY <1>3 DEF First, HasBytes
    <2>6. Rest(s2, k) = Rest(s, k) /\ (k.kind = "relay" => Full(s2, k) = Full(s, k))
      BY <2>3, <2>5 DEF Rest, Full, HasBytes
    <2>7. (IsCall(s2, k) <=> IsCall(s, k)) /\ (Dialling(s2, t, k) <=> Dialling(s, t, k))
      BY <1>3 DEF IsCall, Dialling
    <2>8. Shape(s2, t, k)
      BY <1>1, <1>3, <2>2, <2>3 DEF Shape
    <2>9. Caller(s2, t, k)
      <3>1. IsCall(s, k) => k.kind = "relay"
        BY <2>3 DEF IsCall
      <3> QED BY <2>2, <2>6, <2>7, <3>1 DEF Caller, Remaining, Dialling
    <2>10. CallTalk(s2, t, k)
      <3>1. IsCall(s, k) => k.kind = "relay" /\ t[k] \in ReadRelayStages
        BY <2>2, <2>3 DEF IsCall, Shape
      <3> QED BY <2>2, <2>5, <2>7, <3>1 DEF CallTalk, ReadRelayStages
    <2>11. LineTalk(s2, t, k)
      BY <1>1, <1>3, <2>2, <2>4 DEF LineTalk, Taken
    <2>12. RelayTalk(s2, t, k)
      BY <1>1, <1>3, <2>2 DEF RelayTalk, Held, Forwarded
    <2> QED BY <2>1, <2>2, <2>3, <2>7, <2>8, <2>9, <2>10, <2>11, <2>12 DEF Link, Bound
  <1>4. Request(s2, t, c0)
    <2>1. Request(s, t, c0)
      BY DEF Explains
    <2>2. /\ Progress(s, t, c0) /\ Answers(s, t, c0) /\ Doing(s, c0)
          /\ \A i \in 1 .. Parts[s.want[c0]] : s.home[c0] # Index => Fetch(s, t, c0, i)
          /\ HandedOut(s, t, c0) /\ (c0 \in complete <=> t[Job(s, c0)] = "stored")
      BY <2>1 DEF Request
    <2>3. Progress(s2, t, c0)
      BY <1>1, <2>2 DEF Progress
    <2>4. LineOf(s, c0) \in Conns /\ LineOf(s, c0).kind = "client" /\ LineOf(s, c0).c = c0
      BY ConnsOf
    <2>5. t[LineOf(s, c0)] # "collect"
      BY <2>4, GrantedWhen
    <2>6. Answers(s2, t, c0)
      <3>1. t[LineOf(s, c0)] = "answer" => t[RelayOf(s, c0)] \notin {"asking", "asked"}
        <4> SUFFICES ASSUME t[LineOf(s, c0)] = "answer" PROVE t[RelayOf(s, c0)] \notin {"asking", "asked"}
          OBVIOUS
        <4>1. Link(s, t, LineOf(s, c0))
          BY <2>4, Attached
        <4>2. s.home[c0] # Index
          BY <2>4, <4>1, CallEnds DEF Link, LineTalk
        <4> QED BY <4>2 DEF Granted, Job
      <3> QED BY <1>1, <2>2, <3>1 DEF Answers
    <2>7. Doing(s2, c0)
      BY <1>1, <2>2 DEF Doing
    <2>8. \A i \in 1 .. Parts[s2.want[c0]] : s2.home[c0] # Index => Fetch(s2, t, c0, i)
      BY <1>1, <2>2 DEF Fetch
    <2>9. Tally(s2, t, c0) /\ Found(s2, t, c0) /\ HandedOut(s2, t, c0)
      BY <1>1, <1>2, <2>2, <2>5 DEF Tally, Found, HandedOut
    <2> QED BY <1>1, <2>2, <2>3, <2>6, <2>7, <2>8, <2>9 DEF Request
  <1> QED BY <1>2, <1>3, <1>4, Resettled

-----------------------------------------------------------------------------
(* The index takes up a request *)

\* The index has not granted or numbered a request that it has just read.
LEMMA NewJob ==
    ASSUME NEW s \in Stories, NEW t \in [Conns -> Stage], Explains(s, t), NEW k \in Conns,
           k.to = Index, k.kind \in {"client", "relay"}, t[k] \in {"packet", "raw"}
    PROVE  /\ k.c \in Client /\ client[k.c] # "off" /\ k = Job(s, k.c)
           /\ ~Granted(s, t, k.c) /\ ~Numbered(s, t, k.c)
           /\ \A x \in Conns : x.c = k.c /\ x.kind \in {"ask", "deliver", "store"} => t[x] = "none"
           /\ k.kind = "client" => k = LineOf(s, k.c) /\ s.home[k.c] = Index
           /\ k.kind = "relay" => k = RelayOf(s, k.c) /\ s.home[k.c] # Index
  <1>1. Link(s, t, k) /\ k.c \in Client /\ client[k.c] # "off"
    BY Attached, ConnType
  <1>2. /\ k.kind = "client" => k = LineOf(s, k.c) /\ s.home[k.c] = Index
        /\ k.kind = "relay" => k = RelayOf(s, k.c) /\ s.home[k.c] # Index
    BY <1>1, CallEnds DEF Link, Shape
  <1>3. k = Job(s, k.c)
    BY <1>2 DEF Job
  <1>4. ~Granted(s, t, k.c) /\ ~Numbered(s, t, k.c)
    BY <1>3 DEF Granted, Numbered
  <1>5. \A x \in Conns : x.c = k.c /\ x.kind \in {"ask", "deliver", "store"} => t[x] = "none"
    BY <1>4, Attached DEF Bound
  <1> QED BY <1>1, <1>2, <1>3, <1>4, <1>5

\* What the index has decided or begun.
Decides(s, a, b, c) ==
    \/ a = "packet" /\ b \in {"refused", "asking"} /\ s.op[c] = "read"
    \/ a = "raw" /\ b = "fanout" /\ s.op[c] = "write"

\* The index's decision about a request changes only the stage of its connection.
LEMMA JobRequest ==
    ASSUME NEW s \in Stories, NEW t, NEW t2, NEW c \in Client, Request(s, t, c), client[c] # "off",
           NEW k \in Conns, k = Job(s, c), SameBut(t, t2, k), DOMAIN t = Conns, Decides(s, t[k], t2[k], c),
           UNCHANGED <<client, got, at, complete>>, Answers(s, t2, c)', Found(s, t2, c)'
    PROVE  Request(s, t2, c)'
  <1>1. /\ Progress(s, t, c) /\ Doing(s, c) /\ Tally(s, t, c) /\ HandedOut(s, t, c)
        /\ \A i \in 1 .. Parts[s.want[c]] : s.home[c] # Index => Fetch(s, t, c, i)
        /\ c \in complete <=> t[Job(s, c)] = "stored"
    BY DEF Request
  <1>2. \A x \in Conns \ {k} : t2[x] = t[x]
    BY DEF SameBut
  <1>3. /\ s.home[c] = Index => k = LineOf(s, c)
        /\ s.home[c] # Index => k = RelayOf(s, c)
    BY DEF Job
  <1>4. PICK l \in Conns : l = LineOf(s, c) /\ l.kind = "client"
    BY ConnsOf
  <1>5. PICK r \in Conns : r = RelayOf(s, c) /\ r.kind = "relay"
    BY ConnsOf
  <1>6. Progress(s, t2, c)
    <2>1. CASE s.home[c] = Index
      <3>1. t2[l] = t2[k] /\ t2[r] = t[r]
        BY <1>2, <1>3, <1>4, <1>5, <2>1
      <3> QED BY <1>1, <1>4, <1>5, <2>1, <3>1 DEF Progress, Decides
    <2>2. CASE s.home[c] # Index
      <3>1. t2[r] = t2[k] /\ t2[l] = t[l] /\ k = r
        BY <1>2, <1>3, <1>4, <1>5, <2>2
      <3> QED BY <1>1, <1>4, <1>5, <2>2, <3>1 DEF Progress, Decides
    <2> QED BY <2>1, <2>2
  <1>7. t2[l] # "collect"
    <2>1. CASE s.home[c] = Index
      BY <1>3, <1>4, <2>1 DEF Decides
    <2>2. CASE s.home[c] # Index
      <3>1. t2[l] = t[l] /\ k = r
        BY <1>2, <1>3, <1>4, <1>5, <2>2
      <3> QED BY <1>1, <1>4, <1>5, <2>2, <3>1 DEF Progress, Decides
    <2> QED BY <2>1, <2>2
  <1>8. Doing(s, c)'
    BY <1>1 DEF Doing
  <1>9. ASSUME NEW i \in 1 .. Parts[s.want[c]], s.home[c] # Index PROVE Fetch(s, t2, c, i)
    <2>1. i \in Node
      BY StoryType, PartsFacts
    <2>2. /\ t2[DeliverOf(s, c, i)] = t[DeliverOf(s, c, i)] /\ t2[AskOf(c, i)] = t[AskOf(c, i)]
          /\ t2[l] = t[l]
      BY <1>2, <1>3, <1>4, <1>5, <1>9, <2>1, ConnsOf
    <2> QED BY <1>1, <1>4, <1>9, <2>2 DEF Fetch
  <1>10. Tally(s, t2, c)'
    BY <1>4, <1>7 DEF Tally
  <1>11. HandedOut(s, t2, c) /\ (c \in complete' <=> t2[Job(s, c)] = "stored")
    BY <1>1 DEF HandedOut, Decides
  <1> QED BY <1>6, <1>8, <1>9, <1>10, <1>11 DEF Request

\* The link of a request that is refused or granted.
LEMMA JobLink ==
    ASSUME NEW s \in Stories, NEW t, NEW t2, NEW k \in Conns, Link(s, t, k), k.kind \in {"client", "relay"},
           t2[k] \in {"refused", "asking"}, k.kind = "relay" => s.op[k.c] = "read",
           DOMAIN wire'[k] = {"up", "down"}, LineTalk(s, t2, k)', Seat(t2, k)'
    PROVE  Link(s, t2, k)'
  <1>1. Shape(s, t2, k)
    BY DEF Link, Shape, LineStages, ReadRelayStages
  <1>2. Caller(s, t2, k)' /\ CallTalk(s, t2, k)'
    BY DEF Caller, Dialling, CallTalk, IsCall
  <1>3. RelayTalk(s, t2, k)'
    BY DEF RelayTalk
  <1> QED BY <1>1, <1>2, <1>3 DEF Link

-----------------------------------------------------------------------------
(* HandleRequestFileAtIndex *)

\* The index has read the request of client c for its file on connection k.
AskedFor(s, t, k, c) ==
    /\ fd[Index] = k /\ k.to = Index /\ t[k] = "packet" /\ k.kind \in {"client", "relay"}
    /\ k.c = c /\ k = Job(s, c) /\ client[c] # "off" /\ s.op[c] = "read"
    /\ Link(s, t, k) /\ k \in DOMAIN wire /\ DOMAIN wire[k] = {"up", "down"}
    /\ wire[k].up = <<>> /\ wire[k].down = <<>>
    /\ k.kind = "client" => client[c] = "asked"
    /\ Head(packet[Index]) = RequestFile(s.want[c], Reader(s, c))
    /\ ~Granted(s, t, c) /\ ~Numbered(s, t, c)

\* The index has a read request in hand: a client's own, or one that a node relayed.
LEMMA AskedInHand ==
    ASSUME NEW s \in Stories, NEW t \in [Conns -> Stage], Explains(s, t),
           pc[Index] = "packet", Got(Index, "REQUEST_FILE")
    PROVE  \E k \in Conns, c \in Client : AskedFor(s, t, k, c)
  <1>1. PICK k \in Conns : Handles(s, t, Index, k)
    BY InHand, ParameterFacts
  <1>2. /\ fd[Index] = k /\ k.to = Index /\ t[k] = "packet" /\ k.kind \in {"client", "relay"}
        /\ Link(s, t, k) /\ k \in DOMAIN wire /\ DOMAIN wire[k] = {"up", "down"} /\ client[k.c] # "off"
        /\ k.kind = "client" => Is(k, "asked", <<>>, <<>>) /\ packet[Index] = <<Wish(s, k.c)>>
        /\ k.kind = "relay" => s.op[k.c] = "read" /\ packet[Index] = <<First(s, k)>>
    BY <1>1 DEF Handles, Got
  <1>3. PICK c \in Client : k.c = c
    BY ConnType
  <1>4. /\ k = Job(s, c) /\ ~Granted(s, t, c) /\ ~Numbered(s, t, c)
        /\ k.kind = "client" => s.home[c] = Index
        /\ k.kind = "relay" => s.home[c] # Index
    BY <1>2, <1>3, NewJob
  <1>5. s.op[c] = "read"
    <2>1. k.kind = "client" => client[c] = "asked"
      BY <1>2, <1>3 DEF Is
    <2>2. Doing(s, c)
      BY <1>2, <1>3 DEF Explains, Request
    <2> QED BY <1>2, <1>3, <2>1, <2>2 DEF Doing
  <1>6. wire[k].up = <<>> /\ wire[k].down = <<>>
    <2>1. k.kind = "relay" => Has(k, <<>>, <<>>)
      BY <1>2, <1>3, <1>5 DEF Link, CallTalk, IsCall
    <2> QED BY <1>2, <2>1 DEF Is, Has
  <1>7. Head(packet[Index]) = RequestFile(s.want[c], Reader(s, c))
    <2>1. CASE k.kind = "client"
      BY <1>2, <1>3, <1>4, <2>1, Reading1 DEF Wish, Reader
    <2>2. CASE k.kind = "relay"
      <3>1. First(s, k) = RequestFile(s.want[c], s.home[c])
        BY <1>3, <2>2 DEF First
      <3> QED BY <1>2, <1>4, <2>2, <3>1, Reading1 DEF Reader
    <2> QED BY <1>2, <2>1, <2>2
  <1>8. k.kind = "client" => client[c] = "asked"
    BY <1>2, <1>3 DEF Is
  <1> QED BY <1>2, <1>3, <1>4, <1>5, <1>6, <1>7, <1>8 DEF AskedFor

\* While the index has a packet in hand, it is not at work on another request.
LEMMA IndexIsFree ==
    ASSUME NEW s \in Stories, NEW t \in [Conns -> Stage], Explains(s, t), pc[Index] \in {"packet", "raw"}
    PROVE  \A x \in Conns : t[x] # "fanout" /\ t[x] # "asking"
  <1> SUFFICES ASSUME NEW x \in Conns, t[x] \in {"fanout", "asking"} PROVE FALSE
    OBVIOUS
  <1>1. Link(s, t, x)
    BY Attached
  <1>2. x.kind \in {"client", "relay"}
    BY <1>1, ConnType DEF Link, Shape, Kinds, CallStages
  <1>3. x.to = Index
    <2>1. x.kind = "relay" => x.to = Index
      BY <1>1, CallEnds DEF Link
    <2>2. x.kind = "client" => x.to = Index
      BY <1>1 DEF Link, LineTalk
    <2> QED BY <1>2, <2>1, <2>2
  <1> QED BY <1>1, <1>3 DEF Link, Seat

\* A file that the index finds by its name is one that it has numbered, with that name.
LEMMA FoundByName ==
    ASSUME NEW f, FindByName(f) # 0, files \in Seq(Name)
    PROVE  FindByName(f) \in DOMAIN files /\ files[FindByName(f)] = f
  <1> DEFINE hits == {i \in DOMAIN files : files[i] = f}
  <1>1. hits # {} /\ FindByName(f) = Least(hits)
    BY DEF FindByName
  <1>2. hits \subseteq Nat
    OBVIOUS
  <1>3. Least(hits) \in hits
    BY <1>1, <1>2, LeastOf
  <1> QED BY <1>1, <1>3

\* The index does not know the file: NOT_OK.
LEMMA RefuseStep ==
    ASSUME NEW s \in Stories, NEW t \in [Conns -> Stage], Explains(s, t), NEW n \in Node,
           At(n, "packet"), HandleRequestFileAtIndex(n), FindByName(Head(packet[n]).name) = 0
    PROVE  \E t2 \in [Conns -> Stage] : Explains(s, t2)'
  <1>1. /\ Thread(s, t, n) /\ Typed /\ Queues(t) /\ DOMAIN wire = {x \in Conns : t[x] # "none"}
    BY DEF Explains
  <1>2. /\ n = Index /\ pc[n] = "packet" /\ Got(n, "REQUEST_FILE")
        /\ wire' = Sent(wire, fd[n], n, <<NotOk>>)
        /\ client_fd' = client_fd \/ client_fd' = [client_fd EXCEPT ![n] = NoConn]
        /\ pc' = [pc EXCEPT ![n] = "idle"]
        /\ UNCHANGED <<backlog, fd, packet, ms, call, todo, data, user, merged, strayed>>
    BY DEF HandleRequestFileAtIndex, At, Goto
  <1>3. PICK k \in Conns, c \in Client : AskedFor(s, t, k, c)
    BY <1>2, AskedInHand
  <1>4. /\ fd[n] = k /\ k.to = n /\ t[k] = "packet" /\ k.kind \in {"client", "relay"}
        /\ k.c = c /\ k = Job(s, c) /\ client[c] # "off" /\ s.op[c] = "read"
        /\ Link(s, t, k) /\ k \in DOMAIN wire /\ DOMAIN wire[k] = {"up", "down"}
        /\ wire[k].up = <<>> /\ wire[k].down = <<>> /\ (k.kind = "client" => client[c] = "asked")
        /\ ~Granted(s, t, c) /\ ~Numbered(s, t, c)
    BY <1>2, <1>3 DEF AskedFor
  <1>5. /\ DOMAIN pc' = Node /\ pc'[n] = "idle" /\ \A m \in Node \ {n} : pc'[m] = pc[m]
        /\ DOMAIN client_fd' = Node /\ \A m \in Node \ {n} : client_fd'[m] = client_fd[m]
        /\ client_fd'[n] \in {client_fd[n], NoConn}
    BY <1>1, <1>2 DEF Typed
  <1>6. PICK t2 \in [Conns -> Stage] : t2[k] = "refused" /\ SameBut(t, t2, k)
    <2>1. "refused" \in Stage
      BY DEF Stage, LineStages
    <2> QED BY <2>1, Advance
  <1>7. \A x \in Conns \ {k} : t2[x] = t[x]
    BY <1>6 DEF SameBut
  <1>8. Flows(wire, wire', k, <<>>, <<NotOk>>)
    <2>1. Flows(wire, wire', k, wire[k].up, wire[k].down \o <<NotOk>>)
      BY <1>2, <1>4, ServerSends
    <2> QED BY <1>4, <2>1, Sending
  <1>9. /\ DOMAIN wire' = DOMAIN wire /\ \A x \in DOMAIN wire \ {k} : wire'[x] = wire[x]
        /\ wire'[k].up = <<>> /\ wire'[k].down = <<NotOk>> /\ DOMAIN wire'[k] = {"up", "down"}
    BY <1>8 DEF Flows, SameBut
  <1>10. Elsewhere(n) /\ Typed'
    BY <1>1, <1>2, <1>5 DEF Elsewhere, Typed, data, user
  <1>11. Link(s, t2, k)'
    <2>1. Seat(t2, k)'
      BY <1>6 DEF Seat
    <2>2. LineTalk(s, t2, k)'
      BY <1>2, <1>4, <1>6, <1>9 DEF LineTalk, Is, Has, user
    <2> QED BY <1>4, <1>6, <1>9, <2>1, <2>2, JobLink
  <1>12. Thread(s, t2, n)'
    <2>1. \A x \in Conns : /\ t[x] # "none" => t2[x] # "none"
                           /\ t[x] \notin {"none", "queued", "identify"} =>
                                t2[x] \notin {"none", "queued", "identify"}
      BY <1>4, <1>6, <1>7
    <2> QED BY <1>1, <1>2, <1>5, <2>1 DEF Thread, Position, Collecting
  <1>14. Inquiry(s, t2)' /\ Handout(s, t2)'
    <2>1. pc'[n] \notin {"ask", "fanout", "call"}
      BY <1>5
    <2> QED BY <1>2, <1>4, <1>6, <1>10, <2>1, SoftAside
  <1>15. Numbering(s, t2)'
    <2>1. \A x \in Conns : t2[x] \in {"fanout", "stored"} <=> t[x] \in {"fanout", "stored"}
      BY <1>4, <1>6, <1>7
    <2>2. UNCHANGED <<files, client>>
      BY <1>2 DEF user, data
    <2> QED BY <2>1, <2>2, FilesApart
  <1>16. Shelves(s, t2)'
    <2>1. UNCHANGED <<files, fs>> /\ todo' = todo
      BY <1>2 DEF data
    <2>2. /\ \A x \in Conns : t2[x] = "stored" <=> t[x] = "stored"
          /\ \A x \in Conns : x.kind = "store" => (t2[x] = "over" <=> t[x] = "over")
      BY <1>4, <1>6, <1>7
    <2> QED BY <2>1, <2>2, ShelvesApart
  <1>17. Request(s, t2, c)'
    <2>1. Request(s, t, c) /\ DOMAIN t = Conns
      BY DEF Explains
    <2>2. Decides(s, t[k], t2[k], c)
      BY <1>4, <1>6 DEF Decides
    <2>3. Answers(s, t2, c)'
      <3>1. t2[LineOf(s, c)] = "answer" => k = RelayOf(s, c)
        BY <1>4, <1>6 DEF Job
      <3> QED BY <1>6, <1>9, <3>1 DEF Answers
    <2>4. Found(s, t2, c)'
      BY <1>4, <1>6 DEF Found, Granted
    <2>5. UNCHANGED <<client, got, at, complete>>
      BY <1>2 DEF user, data
    <2> QED BY <1>4, <1>6, <2>1, <2>2, <2>3, <2>4, <2>5, JobRequest
  <1>18. Ripple(s, t, t2, n)
    BY <1>4, <1>6, <1>7 DEF Ripple, Dialling, IsCall
  <1>19. SameBut(wire, wire', k) /\ Bound(s, t2, k)
    BY <1>4, <1>8 DEF Bound, Flows
  <1>20. /\ t[k] \notin {"none", "queued", "stored"} /\ t2[k] # "none"
         /\ (k = LineOf(s, c) /\ Forwarded(s, c) => wire'[k].up = <<>>)
         /\ (pc[n] \notin {"idle", "collect"} => fd[n] = k) /\ (pc[n] = "call" => call[n].conn = k)
         /\ \A d \in Client \ {c} : d \in complete' <=> d \in complete
         /\ (pc[n] \in Collecting => \/ pc'[n] \in Collecting /\ ms'[n] = ms[n]
                                    \/ ms[n].from = LineOf(s, c))
         /\ UNCHANGED <<client, got, at, backlog>>
         /\ \A id \in DOMAIN files : id \in DOMAIN files' /\ files'[id] = files[id]
    BY <1>2, <1>4, <1>6, <1>9 DEF user, data, Collecting
  <1> QED BY <1>4, <1>6, <1>10, <1>11, <1>12, <1>14, <1>15, <1>16, <1>17, <1>18, <1>19, <1>20,
             OneConn, ZenonT(60)

-----------------------------------------------------------------------------
(* HandleRequestFileAtIndex: the index finds the file *)

\* What the index writes down for a read of client c that it has granted.
Inquires(s, c) ==
    /\ ms' = [ms EXCEPT ![Index] = [Idle EXCEPT !.file = s.file[c], !.to = Reader(s, c)]]
    /\ todo' = Chosen[s.want[c]] /\ pc' = [pc EXCEPT ![Index] = "ask"]

LEMMA IdleFacts ==
    /\ Idle \in Machine /\ DOMAIN Idle = {"file", "count", "found", "to", "from", "buffer"}
    /\ Idle.found = 0 /\ Idle.count = 0 /\ Idle.buffer = <<>> /\ Idle.to = Nowhere /\ Idle.from = NoConn
  <1>1. Nowhere \in Node \cup {Nowhere} /\ <<>> \in Seq(Part) /\ NoConn \in Conns \cup {NoConn} /\ 0 \in Nat
    OBVIOUS
  <1> QED BY <1>1 DEF Idle, Machine

\* The index knows the file: the response, and the fragments that are to be asked for.
LEMMA GrantFacts ==
    ASSUME NEW s \in Stories, NEW t \in [Conns -> Stage], Explains(s, t), NEW n \in Node,
           At(n, "packet"), HandleRequestFileAtIndex(n), NEW k \in Conns, NEW c \in Client,
           AskedFor(s, t, k, c), s.file[c] = FindByName(s.want[c]), s.file[c] # 0
    PROVE  /\ n = Index /\ pc[n] = "packet" /\ Inquires(s, c)
           /\ Flows(wire, wire', k, <<>>, <<Grant(s, c)>>)
           /\ UNCHANGED <<backlog, fd, client_fd, packet, call, data, user, merged, strayed>>
           /\ s.file[c] \in DOMAIN files /\ files[s.file[c]] = s.want[c]
  <1>1. /\ Head(packet[Index]).name = s.want[c] /\ Head(packet[Index]).to = Reader(s, c)
        /\ fd[Index] = k /\ k.to = Index /\ k \in DOMAIN wire /\ DOMAIN wire[k] = {"up", "down"}
        /\ wire[k].up = <<>> /\ wire[k].down = <<>>
    BY PacketFacts DEF AskedFor
  <1>2. n = Index /\ pc[n] = "packet"
    BY DEF HandleRequestFileAtIndex, At
  <1>3. /\ wire' = Sent(wire, k, n, <<Response(s.file[c], Parts[s.want[c]])>>)
        /\ ms' = [ms EXCEPT ![Index] = [Idle EXCEPT !.file = s.file[c], !.to = Reader(s, c)]]
        /\ todo' = Chosen[s.want[c]] /\ pc' = [pc EXCEPT ![Index] = "ask"]
        /\ UNCHANGED <<backlog, fd, client_fd, packet, call, data, user, merged, strayed>>
    BY <1>1, <1>2 DEF HandleRequestFileAtIndex, Goto
  <1>4. Flows(wire, wire', k, <<>>, <<Grant(s, c)>>)
    <2>1. Flows(wire, wire', k, wire[k].up, wire[k].down \o <<Grant(s, c)>>)
      BY <1>1, <1>2, <1>3, ServerSends DEF Grant
    <2> QED BY <1>1, <2>1, Sending
  <1>5. s.file[c] \in DOMAIN files /\ files[s.file[c]] = s.want[c]
    <2>1. files \in Seq(Name)
      BY DEF Explains, Numbering
    <2> QED BY <2>1, FoundByName
  <1> QED BY <1>2, <1>3, <1>4, <1>5 DEF Inquires

\* A file that has been found has been handed out.
LEMMA FoundIsStored ==
    ASSUME NEW s \in Stories, NEW t \in [Conns -> Stage], Explains(s, t), pc[Index] \in {"packet", "raw"},
           NEW id \in DOMAIN files, id # 1
    PROVE  s.owner[id] \in Client /\ t[Job(s, s.owner[id])] = "stored"
  <1>1. files \in Seq(Name)
    BY DEF Explains, Numbering
  <1>2. id \in 2 .. Len(files)
    BY <1>1
  <1>3. s.owner[id] \in Client /\ Numbered(s, t, s.owner[id])
    BY <1>2 DEF Explains, Numbering
  <1>4. Job(s, s.owner[id]) \in Conns
    BY <1>3, ConnsOf
  <1> QED BY <1>3, <1>4, IndexIsFree DEF Numbered

\* The story already tells the file's number: the state behind the grant is explained.
LEMMA GrantKnown ==
    ASSUME NEW s \in Stories, NEW t \in [Conns -> Stage], Explains(s, t), NEW n \in Node,
           At(n, "packet"), HandleRequestFileAtIndex(n), NEW k \in Conns, NEW c \in Client,
           AskedFor(s, t, k, c), s.file[c] = FindByName(s.want[c]), s.file[c] # 0
    PROVE  \E t2 \in [Conns -> Stage] : Explains(s, t2)'
  <1>1. /\ Thread(s, t, n) /\ Typed
    BY DEF Explains
  <1>2. /\ n = Index /\ pc[n] = "packet" /\ Inquires(s, c)
        /\ Flows(wire, wire', k, <<>>, <<Grant(s, c)>>)
        /\ UNCHANGED <<backlog, fd, client_fd, packet, call, data, user, merged, strayed>>
        /\ s.file[c] \in DOMAIN files /\ files[s.file[c]] = s.want[c]
    BY GrantFacts
  <1>3. /\ fd[n] = k /\ k.to = n /\ t[k] = "packet" /\ k.kind \in {"client", "relay"}
        /\ k.c = c /\ k = Job(s, c) /\ client[c] # "off" /\ s.op[c] = "read"
        /\ Link(s, t, k) /\ (k.kind = "client" => client[c] = "asked")
        /\ ~Granted(s, t, c) /\ ~Numbered(s, t, c)
    BY <1>2 DEF AskedFor
  <1>4. /\ s.want[c] \in Name /\ s.file[c] \in Nat /\ Reader(s, c) \in Node \cup {Nowhere}
    BY StoryType DEF Reader
  <1>5. /\ DOMAIN pc' = Node /\ pc'[n] = "ask" /\ \A m \in Node \ {n} : pc'[m] = pc[m]
        /\ ms' \in [Node -> Machine] /\ \A m \in Node \ {n} : ms'[m] = ms[m]
        /\ ms'[n].file = s.file[c] /\ ms'[n].to = Reader(s, c) /\ ms'[n].found = 0 /\ ms'[n].count = 0
        /\ todo' = Chosen[s.want[c]]
    <2>1. PICK m : m = [Idle EXCEPT !.file = s.file[c], !.to = Reader(s, c)]
      OBVIOUS
    <2>2. m \in Machine /\ m.file = s.file[c] /\ m.to = Reader(s, c) /\ m.found = 0 /\ m.count = 0
      BY <1>4, <2>1, IdleFacts DEF Machine
    <2>3. ms' = [ms EXCEPT ![n] = m] /\ todo' = Chosen[s.want[c]] /\ pc' = [pc EXCEPT ![n] = "ask"]
      BY <1>2, <2>1 DEF Inquires
    <2>4. ms \in [Node -> Machine] /\ DOMAIN pc = Node
      BY <1>1 DEF Typed
    <2> QED BY <2>2, <2>3, <2>4
  <1>6. PICK t2 \in [Conns -> Stage] : t2[k] = "asking" /\ SameBut(t, t2, k)
    <2>1. "asking" \in Stage
      BY DEF Stage, LineStages
    <2> QED BY <2>1, Advance
  <1>7. \A x \in Conns \ {k} : t2[x] = t[x]
    BY <1>6 DEF SameBut
  <1>8. /\ \A x \in DOMAIN wire \ {k} : wire'[x] = wire[x]
        /\ wire'[k].up = <<>> /\ wire'[k].down = <<Grant(s, c)>> /\ DOMAIN wire'[k] = {"up", "down"}
    BY <1>2 DEF Flows, SameBut
  <1>9. todo' \in Seq(Pointer) /\ Len(todo') = Parts[s.want[c]]
    BY <1>4, <1>5, TableFacts
  <1>10. Elsewhere(n) /\ Typed'
    <2>1. \A m \in Node : ms'[m].found <= ms'[m].count
      BY <1>1, <1>5 DEF Typed
    <2> QED BY <1>1, <1>2, <1>5, <1>9, <2>1 DEF Elsewhere, Typed, data, user
  <1>11. Link(s, t2, k)'
    <2>1. Seat(t2, k)'
      BY <1>2, <1>3, <1>5, <1>6 DEF Seat
    <2>2. LineTalk(s, t2, k)'
      BY <1>2, <1>3, <1>6, <1>8 DEF LineTalk, Promised, Is, Has, user
    <2> QED BY <1>3, <1>6, <1>8, <2>1, <2>2, JobLink
  <1>12. Thread(s, t2, n)'
    <2>1. \A x \in Conns : /\ t[x] # "none" => t2[x] # "none"
                           /\ t[x] \notin {"none", "queued", "identify"} =>
                                t2[x] \notin {"none", "queued", "identify"}
      BY <1>3, <1>6, <1>7
    <2> QED BY <1>1, <1>2, <1>5, <2>1 DEF Thread, Position, Collecting
  <1>13. Inquiry(s, t2)'
    <2>1. fd'[Index] = k /\ k.c = c
      BY <1>2, <1>3
    <2>2. Serves(t2, Index, {"asking"})'
      BY <1>2, <1>3, <1>6 DEF Serves
    <2>3. \A j \in 1 .. Len(todo') : todo'[j] = Chosen[s.want[c]][Parts[s.want[c]] - Len(todo') + j]
      <3> SUFFICES ASSUME NEW j \in 1 .. Len(todo')
                   PROVE  todo'[j] = Chosen[s.want[c]][Parts[s.want[c]] - Len(todo') + j]
        OBVIOUS
      <3>1. Parts[s.want[c]] \in Nat
        BY <1>4, PartsFacts
      <3>2. Parts[s.want[c]] - Len(todo') + j = j
        BY <1>9, <3>1
      <3> QED BY <1>5, <3>2
    <2>4. \A i \in Parts[s.want[c]] - Len(todo') + 1 .. Parts[s.want[c]] :
             t2[AskOf(c, i)] = "none" /\ t2[DeliverOf(s, c, i)] = "none"
      <3> SUFFICES ASSUME NEW i \in Parts[s.want[c]] - Len(todo') + 1 .. Parts[s.want[c]]
                   PROVE  t2[AskOf(c, i)] = "none" /\ t2[DeliverOf(s, c, i)] = "none"
        OBVIOUS
      <3>1. i \in Node
        BY <1>4, <1>9, PartsFacts
      <3>2. AskOf(c, i) \in Conns \ {k} /\ DeliverOf(s, c, i) \in Conns \ {k}
        BY <1>3, <3>1, ConnsOf
      <3>3. t[AskOf(c, i)] = "none" /\ t[DeliverOf(s, c, i)] = "none"
        BY <1>2, <1>3, <3>2, ConnsOf, NewJob
      <3> QED BY <1>7, <3>2, <3>3
    <2>5. Len(todo') <= Parts[s.want[c]]
      BY <1>4, <1>9, PartsFacts
    <2> QED BY <1>2, <1>3, <1>5, <2>1, <2>2, <2>3, <2>4, <2>5 DEF Inquiry
  <1>14. Handout(s, t2)'
    BY <1>2, <1>5 DEF Handout, Working
  <1>15. Numbering(s, t2)'
    <2>1. \A x \in Conns : t2[x] \in {"fanout", "stored"} <=> t[x] \in {"fanout", "stored"}
      BY <1>3, <1>6, <1>7
    <2>2. UNCHANGED <<files, client>>
      BY <1>2 DEF user, data
    <2> QED BY <2>1, <2>2, FilesApart
  <1>16. Shelves(s, t2)'
    <2>1. UNCHANGED <<files, fs>>
      BY <1>2 DEF data
    <2>2. \A x \in Conns : t[x] # "fanout"
      BY <1>2, IndexIsFree
    <2>3. /\ \A x \in Conns : t2[x] = "stored" <=> t[x] = "stored"
          /\ \A x \in Conns : x.kind = "store" => (t2[x] = "over" <=> t[x] = "over")
      BY <1>3, <1>6, <1>7
    <2> QED BY <2>1, <2>2, <2>3, ShelvesApart
  <1>17. Request(s, t2, c)'
    <2>1. Request(s, t, c) /\ DOMAIN t = Conns
      BY DEF Explains
    <2>2. Decides(s, t[k], t2[k], c)
      BY <1>3, <1>6 DEF Decides
    <2>3. Answers(s, t2, c)'
      <3>1. t2[LineOf(s, c)] = "answer" => k = RelayOf(s, c)
        BY <1>3, <1>6 DEF Job
      <3> QED BY <1>6, <1>8, <3>1 DEF Answers
    <2>4. Found(s, t2, c)'
      <3>1. s.file[c] = 1 \/ t2[Job(s, s.owner[s.file[c]])] = "stored"
        <4>1. CASE s.file[c] # 1
          <5>1. s.owner[s.file[c]] \in Client /\ t[Job(s, s.owner[s.file[c]])] = "stored"
            BY <1>2, <4>1, FoundIsStored
          <5>2. Job(s, s.owner[s.file[c]]) \in Conns \ {k}
            BY <1>3, <5>1, ConnsOf
          <5> QED BY <1>7, <5>1, <5>2
        <4> QED BY <4>1
      <3> QED BY <1>2, <1>3, <3>1 DEF Found, data
    <2>5. UNCHANGED <<client, got, at, complete>>
      BY <1>2 DEF user, data
    <2> QED BY <1>3, <1>6, <2>1, <2>2, <2>3, <2>4, <2>5, JobRequest
  <1>18. Ripple(s, t, t2, n)
    BY <1>3, <1>6, <1>7 DEF Ripple, Dialling, IsCall
  <1>19. SameBut(wire, wire', k) /\ Bound(s, t2, k)
    BY <1>2, <1>3 DEF Bound, Flows
  <1>20. /\ t[k] \notin {"none", "queued", "stored"} /\ t2[k] # "none"
         /\ (k = LineOf(s, c) /\ Forwarded(s, c) => wire'[k].up = <<>>)
         /\ (pc[n] \notin {"idle", "collect"} => fd[n] = k) /\ (pc[n] = "call" => call[n].conn = k)
         /\ \A d \in Client \ {c} : d \in complete' <=> d \in complete
         /\ (pc[n] \in Collecting => \/ pc'[n] \in Collecting /\ ms'[n] = ms[n]
                                    \/ ms[n].from = LineOf(s, c))
         /\ UNCHANGED <<client, got, at, backlog>>
         /\ \A id \in DOMAIN files : id \in DOMAIN files' /\ files'[id] = files[id]
    BY <1>2, <1>3, <1>6, <1>8 DEF user, data, Collecting
  <1> QED BY <1>3, <1>6, <1>10, <1>11, <1>12, <1>13, <1>14, <1>15, <1>16, <1>17, <1>18, <1>19, <1>20,
             OneConn, ZenonT(60)

\* A read request at the index: refused or granted, in some story.
LEMMA HandleRequestFileAtIndexStep ==
    ASSUME NEW s \in Stories, NEW t \in [Conns -> Stage], Explains(s, t), NEW n \in Node,
           At(n, "packet"), HandleRequestFileAtIndex(n)
    PROVE  \E s2 \in Stories, t2 \in [Conns -> Stage] : Explains(s2, t2)'
  <1>1. CASE FindByName(Head(packet[n]).name) = 0
    BY <1>1, RefuseStep
  <1>2. CASE FindByName(Head(packet[n]).name) # 0
    <2>1. n = Index /\ pc[n] = "packet" /\ Got(n, "REQUEST_FILE")
      BY DEF HandleRequestFileAtIndex, At
    <2>2. PICK k \in Conns, c \in Client : AskedFor(s, t, k, c)
      BY <2>1, AskedInHand
    <2>3. Head(packet[n]).name = s.want[c] /\ client[c] # "off" /\ ~Granted(s, t, c) /\ ~Numbered(s, t, c)
      BY <2>1, <2>2, PacketFacts DEF AskedFor
    <2>4. files \in Seq(Name)
      BY DEF Explains, Numbering
    <2>5. FindByName(s.want[c]) \in Nat
      BY <1>2, <2>3, <2>4, FoundByName
    <2>6. PICK id \in Nat : id = FindByName(s.want[c])
      BY <2>5
    <2>7. PICK s2 \in Stories : s2 = [s EXCEPT !.file[c] = id]
      BY DEF Stories
    <2>8. /\ SameOwners(s, s2) /\ \A d \in Client \ {c} : SameOf(s, s2, d)
          /\ s2.home = s.home /\ s2.want = s.want /\ s2.op = s.op /\ s2.file[c] = id
      BY <2>7 DEF Stories, SameOwners, SameOf
    <2>9. Explains(s2, t)
      BY <2>3, <2>8, ResettleFile
    <2>10. AskedFor(s2, t, k, c)
      <3>1. Link(s2, t, k) /\ ~Granted(s2, t, c) /\ ~Numbered(s2, t, c)
        BY <2>2, <2>8, <2>9 DEF AskedFor, Explains, Links, Granted, Numbered, Job, LineOf, RelayOf
      <3> QED BY <2>2, <2>8, <3>1 DEF AskedFor, Job, LineOf, RelayOf, Reader
    <2>11. s2.file[c] = FindByName(s2.want[c]) /\ s2.file[c] # 0
      BY <1>2, <2>3, <2>6, <2>8
    <2>12. \E t2 \in [Conns -> Stage] : Explains(s2, t2)'
      BY <2>9, <2>10, <2>11, GrantKnown
    <2> QED BY <2>12
  <1> QED BY <1>1, <1>2

-----------------------------------------------------------------------------
(* WaitRaw: the index numbers a file *)

\* The index waits for the contents of the file of client c on connection k, and the client
\* has sent them.
Brought(s, t, k, c) ==
    /\ fd[Index] = k /\ k.to = Index /\ t[k] = "raw" /\ k.kind \in {"client", "relay"}
    /\ k.c = c /\ k = Job(s, c) /\ client[c] = "sent" /\ s.op[c] = "write"
    /\ Link(s, t, k) /\ k \in DOMAIN wire /\ DOMAIN wire[k] = {"up", "down"}
    /\ (k.kind = "client" => wire[k].down = <<>>)
    /\ (k.kind = "relay" => Forwarded(s, c) /\ t[LineOf(s, c)] # "none" /\ k # LineOf(s, c))
    /\ ~Granted(s, t, c) /\ ~Numbered(s, t, c)

\* The contents that the index reads belong to a creation, its own client's or a relayed one.
LEMMA BroughtInHand ==
    ASSUME NEW s \in Stories, NEW t \in [Conns -> Stage], Explains(s, t),
           NEW k \in Conns, RawHand(s, t, Index, k), k.kind # "store"
    PROVE  \E c \in Client : Brought(s, t, k, c)
  <1>1. PICK c \in Client : c = k.c
    BY ConnType
  <1>2. /\ fd[Index] = k /\ k.to = Index /\ t[k] = "raw" /\ Link(s, t, k)
        /\ k \in DOMAIN wire /\ DOMAIN wire[k] = {"up", "down"} /\ client[c] # "off"
        /\ k.kind \in {"client", "relay"}
        /\ (k.kind = "client" => wire[k].down = <<>> /\ client[c] = "sent")
        /\ (k.kind = "relay" => Forwarded(s, c) /\ s.op[c] = "write")
    BY <1>1 DEF RawHand
  <1>3. k = Job(s, c) /\ ~Granted(s, t, c) /\ ~Numbered(s, t, c)
    BY <1>1, <1>2, NewJob
  <1>4. Doing(s, c) /\ Progress(s, t, c)
    BY <1>2 DEF Explains, Request
  <1>5. client[c] = "sent" /\ s.op[c] = "write"
    BY <1>2, <1>4 DEF Doing, Forwarded
  <1>6. t[LineOf(s, c)] # "none" /\ LineOf(s, c).kind = "client"
    BY <1>4, ConnsOf DEF Progress
  <1> QED BY <1>1, <1>2, <1>3, <1>5, <1>6 DEF Brought

\* What the index writes down for it.
HandsOut(s, c) ==
    /\ files' = Append(files, s.want[c])
    /\ ms' = [ms EXCEPT ![Index] = [Idle EXCEPT !.file = Len(files) + 1, !.buffer = Contents(s, c)]]
    /\ todo' = Table[s.want[c]] /\ pc' = [pc EXCEPT ![Index] = "fanout"]

\* The step in which the index does so, with what there is on connection k.
Numbers(s, k, c) ==
    /\ pc[Index] = "raw" /\ HandsOut(s, c) /\ Flows(wire, wire', k, <<>>, wire[k].down)
    /\ merged' \in BOOLEAN
    /\ UNCHANGED <<backlog, fd, client_fd, packet, call, fs, complete, user, foreign, strayed>>

\* The index numbers the file and lays out its copies.
LEMMA NumberFactsOf ==
    ASSUME NEW s \in Stories, NEW t \in [Conns -> Stage], Explains(s, t), NEW n \in Node, n = Index, WaitRaw(n),
           NEW k \in Conns, RawHand(s, t, n, k), NEW c \in Client, Brought(s, t, k, c)
    PROVE  Numbers(s, k, c)
  <1>1. merged \in BOOLEAN
    BY DEF Explains, Typed
  <1>2. PICK a : RawTaken(n, k, a)
    BY <1>1, RawRead
  <1>3. wire[k].up = <<Bytes(s, c)>> /\ packet[n] = <<Creation(s, c)>> /\ wire[k].up = <<a>>
    <2>1. k.c = c /\ k.kind # "store"
      BY DEF Brought
    <2> QED BY <1>2, <2>1 DEF RawTaken, RawHand
  <1>4. Head(packet[n]).type = "CREATE_FILE" /\ Head(packet[n]).name = s.want[c] /\ a.bytes = Contents(s, c)
    BY <1>3, PacketFacts DEF Creation, Bytes
  <1>5. /\ wire' = Read(wire, k, n, 1) /\ HandsOut(s, c) /\ UNCHANGED fs
        /\ Flows(wire, Read(wire, k, n, 1), k, <<>>, wire[k].down) /\ merged' \in BOOLEAN
    BY <1>2, <1>4 DEF RawTaken, HandsOut, Goto
  <1>6. pc[n] = "raw" /\ UNCHANGED <<backlog, fd, client_fd, packet, call, complete, user, foreign, strayed>>
    BY DEF WaitRaw, At
  <1> QED BY <1>5, <1>6 DEF Numbers

\* The story has foreseen the number.
Foreseen(s, c) == s.file[c] = Len(files) + 1 /\ s.owner[Len(files) + 1] = c

\* The new number is the last; every copy of the new file is still to be handed out.
LEMMA NumberedNow ==
    ASSUME NEW s \in Stories, NEW t \in [Conns -> Stage], Explains(s, t), NEW t2,
           NEW k \in Conns, NEW c \in Client, Brought(s, t, k, c), Foreseen(s, c),
           t2[k] = "fanout", \A x \in Conns \ {k} : t2[x] = t[x],
           files' = Append(files, s.want[c]), client' = client
    PROVE  Numbering(s, t2)'
  <1>1. /\ files \in Seq(Name) /\ Len(files) >= 1 /\ s.owner[1] = 0 /\ files[1] = Known
        /\ \A id \in 2 .. Len(files) :
             /\ s.owner[id] \in Client /\ client[s.owner[id]] # "off" /\ Numbered(s, t, s.owner[id])
             /\ s.file[s.owner[id]] = id
        /\ \A d \in Client : client[d] # "off" /\ Numbered(s, t, d) =>
             /\ client[d] = "sent" /\ s.file[d] \in 2 .. Len(files)
             /\ s.owner[s.file[d]] = d /\ files[s.file[d]] = s.want[d]
    BY DEF Explains, Numbering
  <1>2. s.want[c] \in Name
    BY StoryType
  <1>3. /\ files' \in Seq(Name) /\ Len(files') = Len(files) + 1 /\ Len(files) \in Nat
        /\ \A id \in 1 .. Len(files) : files'[id] = files[id]
        /\ files'[Len(files) + 1] = s.want[c]
    BY <1>1, <1>2
  <1>4. k = Job(s, c) /\ ~Numbered(s, t, c) /\ client[c] = "sent"
    BY DEF Brought
  <1>5. \A d \in Client : Numbered(s, t2, d) <=> (d = c \/ Numbered(s, t, d))
    <2> SUFFICES ASSUME NEW d \in Client PROVE Numbered(s, t2, d) <=> (d = c \/ Numbered(s, t, d))
      OBVIOUS
    <2>1. Job(s, d) \in Conns /\ Job(s, d).c = d /\ k.c = c
      BY <1>4, ConnsOf
    <2>2. CASE d = c
      BY <1>4, <2>2 DEF Numbered
    <2>3. CASE d # c
      BY <2>1, <2>3 DEF Numbered
    <2> QED BY <2>2, <2>3
  <1>6. \A id \in 2 .. Len(files') :
             /\ s.owner[id] \in Client /\ client'[s.owner[id]] # "off" /\ Numbered(s, t2, s.owner[id])
             /\ s.file[s.owner[id]] = id
    <2> SUFFICES ASSUME NEW id \in 2 .. Len(files')
                 PROVE  /\ s.owner[id] \in Client /\ client'[s.owner[id]] # "off"
                        /\ Numbered(s, t2, s.owner[id]) /\ s.file[s.owner[id]] = id
      OBVIOUS
    <2>1. CASE id = Len(files) + 1
      BY <1>4, <1>5, <2>1 DEF Foreseen
    <2>2. CASE id # Len(files) + 1
      <3>1. id \in 2 .. Len(files)
        BY <1>3, <2>2
      <3> QED BY <1>1, <1>5, <3>1
    <2> QED BY <2>1, <2>2
  <1>7. \A d \in Client : client'[d] # "off" /\ Numbered(s, t2, d) =>
             /\ client'[d] = "sent" /\ s.file[d] \in 2 .. Len(files')
             /\ s.owner[s.file[d]] = d /\ files'[s.file[d]] = s.want[d]
    <2> SUFFICES ASSUME NEW d \in Client, client'[d] # "off", Numbered(s, t2, d)
                 PROVE  /\ client'[d] = "sent" /\ s.file[d] \in 2 .. Len(files')
                        /\ s.owner[s.file[d]] = d /\ files'[s.file[d]] = s.want[d]
      OBVIOUS
    <2>1. CASE d = c
      BY <1>1, <1>3, <1>4, <2>1 DEF Foreseen
    <2>2. CASE d # c
      BY <1>1, <1>3, <1>5, <2>2
    <2> QED BY <2>1, <2>2
  <1>8. files' \in Seq(Name) /\ Len(files') >= 1 /\ files'[1] = Known
    BY <1>1, <1>3
  <1> QED BY <1>1, <1>6, <1>7, <1>8 DEF Numbering, Numbered

LEMMA ShelvesNumbered ==
    ASSUME NEW s \in Stories, NEW t \in [Conns -> Stage], Explains(s, t), NEW t2, pc[Index] = "raw",
           NEW k \in Conns, NEW c \in Client, Brought(s, t, k, c), Foreseen(s, c),
           t2[k] = "fanout", \A x \in Conns \ {k} : t2[x] = t[x],
           files' = Append(files, s.want[c]), fs' = fs, todo' = Table[s.want[c]]
    PROVE  Shelves(s, t2)'
  <1>1. files \in Seq(Name) /\ Len(files) >= 1 /\ s.want[c] \in Name
    BY StoryType DEF Explains, Numbering
  <1>2. /\ DOMAIN files = 1 .. Len(files) /\ DOMAIN files' = 1 .. Len(files) + 1 /\ Len(files) \in Nat
        /\ \A id \in DOMAIN files : files'[id] = files[id]
        /\ files'[Len(files) + 1] = s.want[c]
    BY <1>1
  <1>3. k.kind \in {"client", "relay"} /\ k = Job(s, c) /\ k.to = Index /\ t[k] = "raw" /\ k.c = c
    BY DEF Brought
  <1> SUFFICES ASSUME NEW m \in Node, NEW id \in FileId
               PROVE  IF id \in DOMAIN files' THEN Slots(s, t2, m, id)' ELSE fs[m][id] = <<>>
    BY DEF Shelves
  <1>4. IF id \in DOMAIN files THEN Slots(s, t, m, id) ELSE fs[m][id] = <<>>
    BY DEF Explains, Shelves
  <1>5. CASE id \notin DOMAIN files'
    BY <1>2, <1>4, <1>5
  <1>6. CASE id = Len(files) + 1
    <2>1. On(s, t2, m, id)' = {}
      <3> SUFFICES ASSUME NEW j \in 1 .. Copies(s.want[c]) PROVE ~Placed(s, t2, id, j)'
        BY <1>2, <1>6 DEF On
      <3>1. id # 1 /\ files'[id] = s.want[c] /\ s.owner[id] = c
        BY <1>1, <1>2, <1>6 DEF Foreseen
      <3>2. StoreOf(s, c, j) \in Conns /\ StoreOf(s, c, j).kind = "store" /\ StoreOf(s, c, j).c = c
        BY StoreConn
      <3>3. t[StoreOf(s, c, j)] = "none"
        BY <1>3, <3>2, NewJob
      <3>4. t2[StoreOf(s, c, j)] # "over"
        BY <1>3, <3>2, <3>3
      <3>5. Left(s, t2, c)' = Copies(s.want[c])
        BY <1>1, <1>3, TableFacts DEF Left
      <3>6. ~(j > Copies(s.want[c]))
        BY <1>1, PartsFacts
      <3> QED BY <3>1, <3>4, <3>5, <3>6 DEF Placed
    <2>2. fs'[m][id] = <<>>
      BY <1>2, <1>4, <1>6
    <2> QED BY <1>2, <1>6, <2>1, <2>2 DEF Slots
  <1>7. CASE id \in DOMAIN files
    <2>1. files'[id] = files[id]
      BY <1>2, <1>7
    <2>2. ASSUME NEW j \in 1 .. Copies(files[id]) PROVE Placed(s, t2, id, j)' <=> Placed(s, t, id, j)
      <3>1. CASE id = 1
        BY <3>1 DEF Placed
      <3>2. CASE id # 1
        <4>1. s.owner[id] \in Client /\ t[Job(s, s.owner[id])] = "stored"
          BY <1>7, <3>2, FoundIsStored
        <4>2. Job(s, s.owner[id]) \in Conns \ {k}
          BY <1>3, <4>1, ConnsOf
        <4>3. Left(s, t2, s.owner[id])' = 0 /\ Left(s, t, s.owner[id]) = 0
          BY <4>1, <4>2 DEF Left
        <4>4. id \in 2 .. Len(files)
          BY <1>2, <1>7, <3>2
        <4>5. client[s.owner[id]] # "off" /\ Numbered(s, t, s.owner[id]) /\ s.file[s.owner[id]] = id
          BY <4>4 DEF Explains, Numbering
        <4>6. files[id] = s.want[s.owner[id]]
          BY <4>1, <4>5 DEF Explains, Numbering
        <4>7. StoreOf(s, s.owner[id], j) \in Conns \ {k}
          BY <1>3, <4>1, <4>6, StoreConn
        <4> QED BY <2>1, <4>3, <4>7 DEF Placed
      <3> QED BY <3>1, <3>2
    <2>3. On(s, t2, m, id)' = On(s, t, m, id)
      BY <2>1, <2>2 DEF On
    <2>4. \A j : Entry(s, id, j)' = Entry(s, id, j)
      BY <2>1 DEF Entry
    <2>5. Slots(s, t, m, id)
      BY <1>4, <1>7
    <2>6. Slots(s, t2, m, id)'
      BY <2>3, <2>4, <2>5 DEF Slots
    <2> QED BY <1>2, <1>7, <2>6
  <1> QED BY <1>2, <1>5, <1>6, <1>7

\* The contents of a file have one part for every fragment.
LEMMA ContentsType ==
    ASSUME NEW s \in Stories, NEW c \in Client
    PROVE  Contents(s, c) \in Seq(Part) /\ Len(Contents(s, c)) = Parts[s.want[c]]
  <1>1. s.want[c] \in Name
    BY StoryType
  <1>2. Parts[s.want[c]] \in Nat
    BY <1>1, PartsFacts
  <1>3. \A i \in 1 .. Parts[s.want[c]] : <<c, i>> \in Part
    BY <1>2 DEF Part
  <1> QED BY <1>2, <1>3 DEF Contents

LEMMA NumberedLink ==
    ASSUME NEW s \in Stories, NEW t \in [Conns -> Stage], NEW t2, NEW k \in Conns, NEW c \in Client,
           Brought(s, t, k, c), t2[k] = "fanout", DOMAIN wire = {x \in Conns : t[x] # "none"},
           Flows(wire, wire', k, <<>>, wire[k].down), UNCHANGED <<fd, client>>, pc'[Index] = "fanout"
    PROVE  Link(s, t2, k)'
  <1>1. /\ fd[Index] = k /\ k.to = Index /\ k.kind \in {"client", "relay"}
        /\ k.c = c /\ client[c] = "sent" /\ s.op[c] = "write" /\ Link(s, t, k)
        /\ (k.kind = "client" => wire[k].down = <<>>)
        /\ (k.kind = "relay" => Forwarded(s, c) /\ LineOf(s, c) \in DOMAIN wire \ {k})
    BY ConnsOf DEF Brought
  <1>2. /\ \A x \in DOMAIN wire \ {k} : wire'[x] = wire[x]
        /\ wire'[k].up = <<>> /\ wire'[k].down = wire[k].down /\ DOMAIN wire'[k] = {"up", "down"}
    BY DEF Flows, SameBut
  <1>3. Shape(s, t2, k)
    BY <1>1 DEF Link, Shape, LineStages, WriteRelayStages
  <1>4. Seat(t2, k)'
    BY <1>1 DEF Seat
  <1>5. Caller(s, t2, k)' /\ CallTalk(s, t2, k)'
    BY <1>1 DEF Caller, Dialling, CallTalk, IsCall
  <1>6. LineTalk(s, t2, k)'
    BY <1>1, <1>2 DEF LineTalk, Is, Has
  <1>7. k.kind = "relay" => Forwarded(s, c)'
    BY <1>1, <1>2 DEF Forwarded
  <1>8. RelayTalk(s, t2, k)'
    BY <1>1, <1>7 DEF RelayTalk
  <1> QED BY <1>2, <1>3, <1>4, <1>5, <1>6, <1>8 DEF Link

\* The story already tells the number: the state behind the numbering is explained.
LEMMA NumberKnown ==
    ASSUME NEW s \in Stories, NEW t \in [Conns -> Stage], Explains(s, t), NEW n \in Node, n = Index,
           NEW k \in Conns, NEW c \in Client, Brought(s, t, k, c), Numbers(s, k, c), Foreseen(s, c)
    PROVE  \E t2 \in [Conns -> Stage] : Explains(s, t2)'
  <1>1. /\ Thread(s, t, n) /\ Typed /\ DOMAIN wire = {x \in Conns : t[x] # "none"}
    BY DEF Explains
  <1>2. /\ pc[n] = "raw" /\ HandsOut(s, c) /\ Flows(wire, wire', k, <<>>, wire[k].down)
        /\ merged' \in BOOLEAN
        /\ UNCHANGED <<backlog, fd, client_fd, packet, call, fs, complete, user, foreign, strayed>>
    BY DEF Numbers
  <1>3. /\ fd[n] = k /\ k.to = n /\ t[k] = "raw" /\ k.kind \in {"client", "relay"}
        /\ k.c = c /\ k = Job(s, c) /\ client[c] = "sent" /\ s.op[c] = "write"
        /\ ~Granted(s, t, c) /\ ~Numbered(s, t, c)
    BY DEF Brought
  <1>4. /\ s.want[c] \in Name /\ s.file[c] \in Nat /\ files \in Seq(Name)
    BY StoryType DEF Explains, Numbering
  <1>5. /\ DOMAIN pc' = Node /\ pc'[n] = "fanout" /\ \A m \in Node \ {n} : pc'[m] = pc[m]
        /\ ms' \in [Node -> Machine] /\ \A m \in Node \ {n} : ms'[m] = ms[m]
        /\ ms'[n].file = s.file[c] /\ ms'[n].buffer = Contents(s, c) /\ ms'[n].found = 0 /\ ms'[n].count = 0
        /\ todo' = Table[s.want[c]]
    <2>1. PICK m : m = [Idle EXCEPT !.file = s.file[c], !.buffer = Contents(s, c)]
      OBVIOUS
    <2>2. m \in Machine /\ m.file = s.file[c] /\ m.buffer = Contents(s, c) /\ m.found = 0 /\ m.count = 0
      BY <1>4, <2>1, IdleFacts, ContentsType DEF Machine
    <2>3. ms' = [ms EXCEPT ![n] = m] /\ todo' = Table[s.want[c]] /\ pc' = [pc EXCEPT ![n] = "fanout"]
      BY <1>2, <2>1 DEF HandsOut, Foreseen
    <2>4. ms \in [Node -> Machine] /\ DOMAIN pc = Node
      BY <1>1 DEF Typed
    <2> QED BY <2>2, <2>3, <2>4
  <1>6. PICK t2 \in [Conns -> Stage] : t2[k] = "fanout" /\ SameBut(t, t2, k)
    <2>1. "fanout" \in Stage
      BY DEF Stage, LineStages
    <2> QED BY <2>1, Advance
  <1>7. \A x \in Conns \ {k} : t2[x] = t[x]
    BY <1>6 DEF SameBut
  <1>8. todo' \in Seq(Pointer) /\ Len(todo') = Copies(s.want[c])
    BY <1>4, <1>5, TableFacts
  <1>9. Elsewhere(n) /\ Typed'
    <2>1. \A m \in Node : ms'[m].found <= ms'[m].count
      BY <1>1, <1>5 DEF Typed
    <2> QED BY <1>1, <1>2, <1>5, <1>8, <2>1 DEF Elsewhere, Typed, user
  <1>10. files' = Append(files, s.want[c]) /\ UNCHANGED <<client, got, at, backlog, fs, complete>>
    BY <1>2 DEF HandsOut, user
  <1>11. Link(s, t2, k)'
    BY <1>1, <1>2, <1>5, <1>6, <1>10, NumberedLink
  <1>12. Thread(s, t2, n)'
    <2>1. \A x \in Conns : /\ t[x] # "none" => t2[x] # "none"
                           /\ t[x] \notin {"none", "queued", "identify"} =>
                                t2[x] \notin {"none", "queued", "identify"}
      BY <1>3, <1>6, <1>7
    <2> QED BY <1>1, <1>2, <1>5, <2>1 DEF Thread, Position, Collecting
  <1>13. Inquiry(s, t2)'
    BY <1>5 DEF Inquiry, Working
  <1>14. Handout(s, t2)'
    <2>1. fd'[Index] = k /\ k.c = c
      BY <1>2, <1>3
    <2>2. Serves(t2, Index, {"fanout"})'
      BY <1>2, <1>3, <1>6 DEF Serves
    <2>3. Copies(s.want[c]) \in Nat
      BY <1>4, PartsFacts
    <2>4. \A j \in 1 .. Len(todo') : todo'[j] = Table[s.want[c]][Copies(s.want[c]) - Len(todo') + j]
      <3> SUFFICES ASSUME NEW j \in 1 .. Len(todo')
                   PROVE  todo'[j] = Table[s.want[c]][Copies(s.want[c]) - Len(todo') + j]
        OBVIOUS
      <3>1. Copies(s.want[c]) - Len(todo') + j = j
        BY <1>8, <2>3
      <3> QED BY <1>5, <3>1
    <2>5. \A j \in 1 .. Copies(s.want[c]) : t2[StoreOf(s, c, j)] = "none" /\ j <= Len(todo')
      <3> SUFFICES ASSUME NEW j \in 1 .. Copies(s.want[c])
                   PROVE  t2[StoreOf(s, c, j)] = "none" /\ j <= Len(todo')
        OBVIOUS
      <3>1. StoreOf(s, c, j) \in Conns /\ StoreOf(s, c, j).kind = "store" /\ StoreOf(s, c, j).c = c
        BY StoreConn
      <3>2. t[StoreOf(s, c, j)] = "none" /\ StoreOf(s, c, j) # k
        BY <1>3, <3>1, NewJob
      <3> QED BY <1>7, <1>8, <3>1, <3>2
    <2>6. Len(todo') <= Copies(s.want[c])
      BY <1>8, <2>3
    <2>7. pc'[Index] # "call" /\ ms'[Index].file = s.file[c] /\ ms'[Index].buffer = Contents(s, c)
          /\ fd'[Index] = Job(s, c)
      BY <1>3, <1>5, <2>1
    <2> QED BY <2>1, <2>2, <2>4, <2>5, <2>6, <2>7 DEF Handout
  <1>15. Numbering(s, t2)'
    BY <1>6, <1>7, <1>10, NumberedNow
  <1>16. Shelves(s, t2)'
    <2>1. pc[Index] = "raw"
      BY <1>2
    <2> QED BY <1>5, <1>6, <1>7, <1>10, <2>1, ShelvesNumbered
  <1>17. Request(s, t2, c)'
    <2>1. Request(s, t, c) /\ DOMAIN t = Conns
      BY DEF Explains
    <2>2. Decides(s, t[k], t2[k], c)
      BY <1>3, <1>6 DEF Decides
    <2>3. Answers(s, t2, c)'
      <3>1. t2[LineOf(s, c)] = "answer" => k = RelayOf(s, c)
        BY <1>3, <1>6 DEF Job
      <3> QED BY <1>6, <3>1 DEF Answers
    <2>4. Found(s, t2, c)'
      BY <1>3, <1>6 DEF Found, Granted
    <2>5. UNCHANGED <<client, got, at, complete>>
      BY <1>10
    <2> QED BY <1>3, <1>6, <2>1, <2>2, <2>3, <2>4, <2>5, JobRequest
  <1>18. Ripple(s, t, t2, n)
    BY <1>3, <1>6, <1>7 DEF Ripple, Dialling, IsCall
  <1>19. SameBut(wire, wire', k) /\ Bound(s, t2, k) /\ wire'[k].up = <<>>
    BY <1>2, <1>3 DEF Bound, Flows
  <1>20. /\ t[k] \notin {"none", "queued", "stored"} /\ t2[k] # "none" /\ client[c] # "off"
         /\ (k = LineOf(s, c) /\ Forwarded(s, c) => wire'[k].up = <<>>)
         /\ (pc[n] \notin {"idle", "collect"} => fd[n] = k) /\ (pc[n] = "call" => call[n].conn = k)
         /\ \A d \in Client \ {c} : d \in complete' <=> d \in complete
         /\ (pc[n] \in Collecting => \/ pc'[n] \in Collecting /\ ms'[n] = ms[n]
                                    \/ ms[n].from = LineOf(s, c))
         /\ UNCHANGED <<client, got, at, backlog>>
    BY <1>2, <1>3, <1>6, <1>10, <1>19 DEF Collecting
  <1>21. \A id \in DOMAIN files : id \in DOMAIN files' /\ files'[id] = files[id]
    BY <1>4, <1>10
  <1>22. (Granted(s, t, c) => Granted(s, t2, c)) /\ (Numbered(s, t, c) => Numbered(s, t2, c))
    BY <1>3
  <1> QED BY <1>3, <1>6, <1>9, <1>11, <1>12, <1>13, <1>14, <1>15, <1>16, <1>17, <1>18, <1>19, <1>20,
             <1>21, <1>22, OneConn, ZenonT(60)

\* So it is in some story, which gives the file to its creator.
LEMMA NumberStep ==
    ASSUME NEW s \in Stories, NEW t \in [Conns -> Stage], Explains(s, t), NEW n \in Node, n = Index,
           NEW k \in Conns, NEW c \in Client, Brought(s, t, k, c), Numbers(s, k, c)
    PROVE  \E s2 \in Stories, t2 \in [Conns -> Stage] : Explains(s2, t2)'
  <1>2. client[c] # "off" /\ ~Granted(s, t, c) /\ ~Numbered(s, t, c)
    BY DEF Brought
  <1>3. files \in Seq(Name) /\ Len(files) >= 1
    BY DEF Explains, Numbering
  <1>4. PICK id \in Nat : id = Len(files) + 1
    BY <1>3
  <1>5. PICK s2 \in Stories : s2 = [s EXCEPT !.file[c] = id, !.owner[id] = c]
    BY DEF Stories
  <1>6. /\ s2.home = s.home /\ s2.want = s.want /\ s2.op = s.op
        /\ s2.file[c] = id /\ s2.owner[id] = c
        /\ \A d \in Client \ {c} : s2.file[d] = s.file[d]
        /\ \A i \in Nat \ {id} : s2.owner[i] = s.owner[i]
    BY <1>5 DEF Stories
  <1>7. SameOwners(s, s2) /\ \A d \in Client \ {c} : SameOf(s, s2, d)
    <2>1. \A i \in DOMAIN files : i \in Nat \ {id}
      BY <1>3, <1>4
    <2> QED BY <1>6, <2>1 DEF SameOwners, SameOf
  <1>8. Explains(s2, t)
    BY <1>2, <1>6, <1>7, ResettleFile
  <1>9. /\ LineOf(s2, c) = LineOf(s, c) /\ Job(s2, c) = Job(s, c) /\ Contents(s2, c) = Contents(s, c)
        /\ Creation(s2, c) = Creation(s, c)
    BY <1>6 DEF LineOf, RelayOf, Job, Contents, Creation
  <1>10. Link(s2, t, k) /\ t[k] = "raw"
    BY <1>8 DEF Brought, Explains, Links
  <1>11. Brought(s2, t, k, c)
    BY <1>6, <1>9, <1>10 DEF Brought, Granted, Numbered, Bytes, Forwarded
  <1>12. Numbers(s2, k, c)
    BY <1>6, <1>9 DEF Numbers, HandsOut
  <1>13. Foreseen(s2, c)
    BY <1>4, <1>6 DEF Foreseen
  <1>14. \E t2 \in [Conns -> Stage] : Explains(s2, t2)'
    BY <1>8, <1>11, <1>12, <1>13, NumberKnown
  <1> QED BY <1>14

\* WAIT_RAW: the bytes of a fragment are stored, those of a creation forwarded or numbered.
LEMMA WaitRawStep ==
    ASSUME NEW s \in Stories, NEW t \in [Conns -> Stage], Explains(s, t), NEW n \in Node, WaitRaw(n)
    PROVE  \E s2 \in Stories, t2 \in [Conns -> Stage] : Explains(s2, t2)'
  <1>1. pc[n] = "raw" /\ Queue(fd[n], n) # <<>>
    BY TakesNone DEF WaitRaw, At
  <1>2. PICK k \in Conns : RawHand(s, t, n, k)
    BY <1>1, RawInHand
  <1>3. CASE k.kind = "store"
    BY <1>2, <1>3, StoreStep
  <1>4. CASE k.kind # "store" /\ n = Index
    <2>1. PICK c \in Client : Brought(s, t, k, c)
      BY <1>2, <1>4, BroughtInHand
    <2>2. Numbers(s, k, c)
      BY <1>2, <1>4, <2>1, NumberFactsOf
    <2> QED BY <1>4, <2>1, <2>2, NumberStep
  <1>5. CASE k.kind = "client" /\ n # Index
    BY <1>2, <1>5, ForwardStep
  <1>6. k.kind = "relay" => n = Index
    BY <1>2, CallEnds DEF RawHand, Link
  <1> QED BY <1>2, <1>3, <1>4, <1>5, <1>6 DEF RawHand

-----------------------------------------------------------------------------
(* WaitRawEnd: the client has hung up *)

\* Clients hang up at their prompt only.
AtPrompt == closed \subseteq Client /\ \A c \in closed : client[c] \in {"ready", "sent", "refused", "done"}

\* The contents came with the creation on line k, and were taken for a part of that packet.
EndHand(s, t, n, k) ==
    /\ fd[n] = k /\ k.to = n /\ t[k] = "raw" /\ Link(s, t, k) /\ k.kind = "client"
    /\ k \in DOMAIN wire /\ DOMAIN wire[k] = {"up", "down"}
    /\ client[k.c] = "sent" /\ Has(k, <<>>, <<>>)
    /\ packet[n] = <<Creation(s, k.c), Bytes(s, k.c)>>

\* A node that reads the end of a line for contents has read the contents before.
LEMMA EndInHand ==
    ASSUME NEW s \in Stories, NEW t \in [Conns -> Stage], Explains(s, t), AtPrompt,
           NEW n \in Node, WaitRawEnd(n)
    PROVE  \E k \in Conns : EndHand(s, t, n, k)
  <1>1. pc[n] = "raw" /\ AtEnd(fd[n], n)
    BY DEF WaitRawEnd, At
  <1>2. Serves(t, n, {"ok", "raw"})
    BY <1>1 DEF Explains, Thread
  <1>3. PICK k \in Conns :
          /\ k = fd[n] /\ k.to = n /\ t[k] \in {"ok", "raw"}
          /\ Link(s, t, k) /\ k \in DOMAIN wire /\ DOMAIN wire[k] = {"up", "down"}
          /\ Queue(k, n) = wire[k].up
    BY <1>2, Served
  <1>4. k.kind = "client" /\ k.c \in closed /\ wire[k].up = <<>>
    BY <1>1, <1>3 DEF AtEnd
  <1>5. t[k] = "raw" /\ LineTalk(s, t, k)
    BY <1>3, <1>4 DEF Link, Shape, LineStages
  <1>6. Taken(s, k) /\ client[k.c] # "creating"
    BY <1>4, <1>5 DEF LineTalk, AtPrompt
  <1>7. Is(k, "sent", <<>>, <<>>) /\ packet[n] = <<Creation(s, k.c), Bytes(s, k.c)>>
    BY <1>3, <1>4, <1>6 DEF Taken, Is, Has
  <1> QED BY <1>3, <1>4, <1>5, <1>7 DEF EndHand, Is

\* A node that is not the index has passed on all there was.
LEMMA PassedStep ==
    ASSUME NEW s \in Stories, NEW t \in [Conns -> Stage], Explains(s, t), AtPrompt,
           NEW n \in Node, WaitRawEnd(n), n # Index
    PROVE  \E t2 \in [Conns -> Stage] : Explains(s, t2)'
  <1>1. /\ Thread(s, t, n) /\ Typed
    BY DEF Explains
  <1>2. /\ pc[n] = "raw" /\ pc' = [pc EXCEPT ![n] = "idle"]
        /\ UNCHANGED <<net, fd, client_fd, packet, ms, call, todo, data, user, merged, foreign, strayed>>
    <2>1. /\ pc[n] = "raw" /\ pc' = [pc EXCEPT ![n] = "idle"] /\ UNCHANGED <<ms, todo, files>>
          /\ UNCHANGED <<net, fd, client_fd, packet, call, fs, complete, user, merged, foreign, strayed>>
      BY DEF WaitRawEnd, At, Goto
    <2> QED BY <2>1 DEF data
  <1>3. PICK k \in Conns :
          /\ fd[n] = k /\ k.to = n /\ t[k] = "raw" /\ Link(s, t, k) /\ k.kind = "client"
          /\ k \in DOMAIN wire /\ DOMAIN wire[k] = {"up", "down"}
          /\ client[k.c] = "sent" /\ Has(k, <<>>, <<>>)
    <2>1. PICK k \in Conns : EndHand(s, t, n, k)
      BY EndInHand
    <2> QED BY <2>1 DEF EndHand
  <1>4. /\ Shape(s, t, k) /\ Seat(t, k) /\ Caller(s, t, k) /\ CallTalk(s, t, k)
        /\ LineTalk(s, t, k) /\ RelayTalk(s, t, k)
    BY <1>3 DEF Link
  <1>5. ~IsCall(s, k)
    BY <1>3 DEF IsCall
  <1>6. DOMAIN pc = Node /\ pc'[n] = "idle" /\ DOMAIN pc' = Node
    BY <1>1, <1>2 DEF Typed
  <1>7. PICK t2 \in [Conns -> Stage] : t2[k] = "passed" /\ SameBut(t, t2, k)
    <2>1. "passed" \in Stage
      BY DEF Stage, LineStages
    <2> QED BY <2>1, Advance
  <1>8. Elsewhere(n)
    BY <1>1, <1>2 DEF Elsewhere, Typed
  <1>9. Link(s, t2, k)'
    <2>1. Shape(s, t2, k)
      BY <1>3, <1>4, <1>7 DEF Shape, LineStages
    <2>2. Seat(t2, k)'
      BY <1>3, <1>7 DEF Seat
    <2>3. Caller(s, t2, k)' /\ CallTalk(s, t2, k)'
      BY <1>5 DEF Caller, Dialling, CallTalk
    <2>4. LineTalk(s, t2, k)'
      BY <1>2, <1>3, <1>7 DEF LineTalk, Is, Has, net, user
    <2>5. RelayTalk(s, t2, k)'
      BY <1>3 DEF RelayTalk
    <2>6. DOMAIN wire'[k] = {"up", "down"}
      BY <1>2, <1>3 DEF net
    <2> QED BY <2>1, <2>2, <2>3, <2>4, <2>5, <2>6 DEF Link
  <1>10. Typed'
    BY <1>1, <1>2, <1>6 DEF Typed, data, user, net
  <1>11. Thread(s, t2, n)'
    <2>1. \A x \in Conns : /\ t[x] # "none" => t2[x] # "none"
                           /\ t[x] \notin {"none", "queued", "identify"} =>
                                t2[x] \notin {"none", "queued", "identify"}
      BY <1>3, <1>7 DEF SameBut
    <2> QED BY <1>1, <1>2, <1>6, <2>1 DEF Thread, Position, Collecting
  <1>12. Inquiry(s, t2)' /\ Handout(s, t2)'
    BY <1>2, <1>3, <1>6, <1>7, <1>8, SoftAside
  <1>13. Alike(s, t[k], t2[k], k)
    BY <1>3, <1>7 DEF Alike, Within
  <1>14. ~Dialling(s, t, k)
    BY <1>5 DEF Dialling
  <1>15. \A x \in Conns : x \in {k} /\ t2[x] # "none" => Link(s, t2, x)'
    BY <1>9
  <1>16. SameBut(wire, wire', k) /\ wire' = wire
    BY <1>2 DEF SameBut, net
  <1> QED BY <1>2, <1>3, <1>7, <1>8, <1>10, <1>11, <1>12, <1>13, <1>14, <1>15, <1>16,
             SoftStep DEF data, user, net, Collecting

\* The index numbers a file of what its buffer holds already.
LEMMA WaitRawEndStep ==
    ASSUME NEW s \in Stories, NEW t \in [Conns -> Stage], Explains(s, t), AtPrompt,
           NEW n \in Node, WaitRawEnd(n)
    PROVE  \E s2 \in Stories, t2 \in [Conns -> Stage] : Explains(s2, t2)'
  <1>1. CASE n # Index
    BY <1>1, PassedStep
  <1>2. CASE n = Index
    <2>1. PICK k \in Conns :
            /\ fd[n] = k /\ k.to = n /\ t[k] = "raw" /\ Link(s, t, k) /\ k.kind = "client"
            /\ k \in DOMAIN wire /\ DOMAIN wire[k] = {"up", "down"}
            /\ client[k.c] = "sent" /\ Has(k, <<>>, <<>>)
            /\ packet[n] = <<Creation(s, k.c), Bytes(s, k.c)>>
      <3>1. PICK k \in Conns : EndHand(s, t, n, k)
        BY EndInHand
      <3> QED BY <3>1 DEF EndHand
    <2>2. PICK c \in Client : c = k.c
      BY ConnType
    <2>3. k = Job(s, c) /\ ~Granted(s, t, c) /\ ~Numbered(s, t, c)
      BY <1>2, <2>1, <2>2, NewJob
    <2>4. s.op[c] = "write"
      BY <2>1, <2>2 DEF Explains, Request, Doing
    <2>5. Brought(s, t, k, c)
      BY <1>2, <2>1, <2>2, <2>3, <2>4 DEF Brought, Has
    <2>6. Head(packet[n]) = Creation(s, c)
      BY <2>1, <2>2
    <2>7. Head(packet[n]).name = s.want[c]
      BY <2>6, PacketFacts DEF Creation
    <2>8. /\ pc[n] = "raw" /\ HandsOut(s, c)
          /\ UNCHANGED <<net, fd, client_fd, packet, call, fs, complete, user, merged, foreign, strayed>>
      <3>1. fd[n].c = c
        BY <2>1, <2>2
      <3>2. Contents(s, c) = [i \in 1 .. Parts[s.want[c]] |-> <<c, i>>]
        BY DEF Contents
      <3>3. /\ files' = Append(files, Head(packet[n]).name)
            /\ ms' = [ms EXCEPT ![n] =
                        [Idle EXCEPT !.file = Len(files) + 1,
                                     !.buffer = [i \in 1 .. Parts[Head(packet[n]).name] |-> <<fd[n].c, i>>]]]
            /\ todo' = Table[Head(packet[n]).name] /\ pc' = [pc EXCEPT ![n] = "fanout"]
        BY <1>2, Zenon DEF WaitRawEnd, Goto
      <3>4. /\ pc[n] = "raw"
            /\ UNCHANGED <<net, fd, client_fd, packet, call, fs, complete, user, merged, foreign, strayed>>
        BY Zenon DEF WaitRawEnd, At
      <3>5. ms' = [ms EXCEPT ![n] = [Idle EXCEPT !.file = Len(files) + 1, !.buffer = Contents(s, c)]]
        BY <2>7, <3>1, <3>2, <3>3
      <3> QED BY <1>2, <2>7, <3>3, <3>4, <3>5 DEF HandsOut
    <2>9. Flows(wire, wire', k, <<>>, wire[k].down) /\ merged' \in BOOLEAN
      BY <2>1, <2>8 DEF Flows, SameBut, Has, net, Explains, Typed
    <2>10. Numbers(s, k, c)
      BY <1>2, <2>8, <2>9 DEF Numbers, net
    <2> QED BY <1>2, <2>5, <2>10, NumberStep
  <1> QED BY <1>1, <1>2

=============================================================================
