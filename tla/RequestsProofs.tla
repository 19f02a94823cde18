--------------------------- MODULE RequestsProofs ---------------------------
(***************************************************************************)
(* The safety properties of Requests, for every number of nodes, clients   *)
(* and files.  The steps by which the index and the nodes work on a        *)
(* request, and the steps of the clients, lead from an explained state to  *)
(* an explained state (StoryProofs says what that is), but for one: the    *)
(* foreign packet that a collecting node takes for a delivery.  An         *)
(* explained state has the properties; what comes behind a foreign packet  *)
(* is left to the runs, but for one thing: requests have overlapped.       *)
(***************************************************************************)
EXTENDS StoryProofs

-----------------------------------------------------------------------------
(* A call that a node makes for the request in its hands *)

\* What recv notes.
LEMMA ReadsSome ==
    ASSUME merged \in BOOLEAN, NEW k, NEW n, NEW j, Recv(k, n, j) \/ RecvCut(k, n, j)
    PROVE  merged' \in BOOLEAN
  <1>1. CASE Recv(k, n, j)
    BY <1>1, Zenon DEF Recv
  <1>2. CASE RecvCut(k, n, j)
    BY <1>2, Zenon DEF RecvCut
  <1> QED BY <1>1, <1>2

\* A request whose line and relay stay where they are.
LEMMA RequestAgain ==
    ASSUME NEW s \in Stories, NEW t \in [Conns -> Stage], NEW t2 \in [Conns -> Stage],
           NEW c \in Client, Request(s, t, c), Numbering(s, t),
           t2[LineOf(s, c)] = t[LineOf(s, c)], t2[RelayOf(s, c)] = t[RelayOf(s, c)],
           UNCHANGED <<client, got, at, files>>, c \in complete' <=> c \in complete,
           t[RelayOf(s, c)] \in {"asking", "asked", "refused"} =>
             wire'[RelayOf(s, c)].down = wire[RelayOf(s, c)].down,
           \A x \in Conns : t[x] = "stored" => t2[x] = "stored",
           \A i \in 1 .. Parts[s.want[c]] : s.home[c] # Index => Fetch(s, t2, c, i),
           Tally(s, t2, c)', HandedOut(s, t2, c)
    PROVE  Request(s, t2, c)'
  <1> SUFFICES ASSUME client[c] # "off"
               PROVE  /\ Progress(s, t2, c) /\ Answers(s, t2, c)' /\ Doing(s, c)' /\ Found(s, t2, c)'
                      /\ (c \in complete)' <=> t2[Job(s, c)] = "stored"
    BY DEF Request
  <1>1. /\ Progress(s, t, c) /\ Answers(s, t, c) /\ Doing(s, c) /\ Found(s, t, c)
        /\ c \in complete <=> t[Job(s, c)] = "stored"
    BY DEF Request
  <1>2. t2[Job(s, c)] = t[Job(s, c)]
    BY DEF Job
  <1>3. Progress(s, t2, c)
    BY <1>1 DEF Progress
  <1>4. Answers(s, t2, c)'
    BY <1>1 DEF Answers
  <1>5. Doing(s, c)'
    BY <1>1 DEF Doing
  <1>6. Found(s, t2, c)'
    <2>1. CASE Granted(s, t, c) /\ s.file[c] # 1
      <3>1. s.file[c] \in 2 .. Len(files) /\ t[Job(s, s.owner[s.file[c]])] = "stored"
        BY <1>1, <2>1, StoryType DEF Found, Numbering
      <3>2. Job(s, s.owner[s.file[c]]) \in Conns
        BY <3>1, ConnsOf DEF Numbering
      <3> QED BY <1>1, <1>2, <3>1, <3>2 DEF Found, Granted
    <2>2. CASE ~Granted(s, t, c) \/ s.file[c] = 1
      BY <1>1, <1>2, <2>2 DEF Found, Granted
    <2> QED BY <2>1, <2>2
  <1> QED BY <1>1, <1>2, <1>3, <1>4, <1>5, <1>6

\* What has been collected stays, when another node moves.
LEMMA TallyAgain ==
    ASSUME NEW s \in Stories, NEW t \in [Conns -> Stage], NEW t2 \in [Conns -> Stage], NEW n \in Node,
           NEW c \in Client, client[c] # "off", Request(s, t, c), Elsewhere(n),
           t2[LineOf(s, c)] = t[LineOf(s, c)], s.home[c] = n => t[LineOf(s, c)] # "collect",
           \A i \in Node : t2[DeliverOf(s, c, i)] \in Delivered <=> t[DeliverOf(s, c, i)] \in Delivered
    PROVE  Tally(s, t2, c)'
  <1>1. Tally(s, t, c) /\ s.home[c] \in Node
    BY StoryType DEF Request
  <1>2. Arrived(s, t2, c) = Arrived(s, t, c)
    <2>1. \A i \in 1 .. Parts[s.want[c]] : i \in Node
      BY StoryType, PartsFacts
    <2> QED BY <2>1 DEF Arrived
  <1>3. CASE t[LineOf(s, c)] = "collect"
    <2>1. pc'[s.home[c]] = pc[s.home[c]] /\ ms'[s.home[c]] = ms[s.home[c]]
      BY <1>1, <1>3 DEF Elsewhere
    <2> QED BY <1>1, <1>2, <1>3, <2>1 DEF Tally
  <1>4. CASE t[LineOf(s, c)] # "collect"
    BY <1>4 DEF Tally
  <1> QED BY <1>3, <1>4

\* A connection on which a call has just begun, and the thread that makes the call.
LEMMA DialledLink ==
    ASSUME NEW s \in Stories, NEW t2 \in [Conns -> Stage], NEW x \in Conns, IsCall(s, x), Shape(s, t2, x),
           t2[x] = "queued", wire'[x].up = <<Present>>, wire'[x].down = <<>>, DOMAIN wire'[x] = {"up", "down"},
           pc'[x.from] = "call",
           call'[x.from] = [conn |-> x, script |-> Full(s, x), confirm |-> x.kind \in {"ask", "deliver"},
                            ret |-> Return(x)],
           \E y \in DOMAIN backlog'[x.to] : backlog'[x.to][y] = x
    PROVE  Link(s, t2, x)'
  <1>1. Seat(t2, x)'
    BY DEF Seat
  <1>2. Remaining(s, t2, x) = Full(s, x)
    BY DEF Remaining
  <1>3. Caller(s, t2, x)'
    BY <1>2 DEF Caller
  <1>4. CallTalk(s, t2, x)'
    BY DEF CallTalk, Has
  <1>5. LineTalk(s, t2, x)' /\ RelayTalk(s, t2, x)'
    BY DEF LineTalk, RelayTalk, IsCall
  <1> QED BY <1>1, <1>3, <1>4, <1>5 DEF Link

LEMMA DialThread ==
    ASSUME NEW s \in Stories, NEW t \in [Conns -> Stage], NEW t2 \in [Conns -> Stage], NEW n \in Node,
           Thread(s, t, n), NEW x \in Conns, x.from = n, IsCall(s, x), t2[x] = "queued",
           pc'[n] = "call", call'[n].conn = x, fd' = fd, client_fd' = client_fd,
           \A y \in Conns : /\ t[y] # "none" => t2[y] # "none"
                            /\ t[y] \notin {"none", "queued", "identify"} =>
                                 t2[y] \notin {"none", "queued", "identify"}
    PROVE  Thread(s, t2, n)'
  <1>1. Dialling(s, t2, x)
    BY DEF Dialling
  <1> QED BY <1>1 DEF Thread, Position, Collecting

\* A step that serves connection k and makes the call x for the same request.
LEMMA OneCall ==
    ASSUME NEW s \in Stories, NEW t \in [Conns -> Stage], NEW t2 \in [Conns -> Stage], Explains(s, t),
           NEW n \in Node, NEW c0 \in Client, NEW k \in Conns, k.c = c0, client[c0] # "off",
           NEW x \in Conns, x.c = c0, x.from = n, x.to # n, IsCall(s, x), Shape(s, t2, x),
           t[x] = "none", t2[x] = "queued", \A y \in Conns \ {k, x} : t2[y] = t[y],
           Elsewhere(n), Typed', UNCHANGED <<client, got, at, files, complete>>,
           NEW w, SameBut(wire, w, k), Opens(w, wire', x, <<Present>>), Pushes(x),
           k = LineOf(s, c0) /\ Forwarded(s, c0) => w[k].up = <<>>,
           t[k] \notin {"none", "queued", "stored"}, t2[k] # "none", k.to = n, ~Dialling(s, t, k) \/ k.from = n
              \/ Dialling(s, t2, k),
           pc[n] \in {"fanout", "ask", "packet"}, fd[n] = k, pc'[n] = "call", fd' = fd, client_fd' = client_fd,
           t2[k] \notin {"none", "queued", "identify"},
           call'[n] = [conn |-> x, script |-> Full(s, x), confirm |-> x.kind \in {"ask", "deliver"},
                       ret |-> Return(x)],
           Link(s, t2, k)', Bound(s, t2, k), Bound(s, t2, x),
           Granted(s, t, c0) => Granted(s, t2, c0), Numbered(s, t, c0) => Numbered(s, t2, c0),
           Request(s, t2, c0)',
           Inquiry(s, t2)', Handout(s, t2)', Numbering(s, t2)', Shelves(s, t2)'
    PROVE  Explains(s, t2)'
  <1>1. Queues(t) /\ DOMAIN wire = {y \in Conns : t[y] # "none"} /\ Thread(s, t, n) /\ DOMAIN backlog = Node
    BY DEF Explains, Typed
  <1>2. x # k /\ k \in DOMAIN wire /\ DOMAIN w = DOMAIN wire
    BY <1>1 DEF SameBut
  <1>3. /\ DOMAIN wire' = {y \in Conns : t2[y] # "none"}
        /\ \A y \in Conns \ {k, x} : t2[y] = t[y] /\ (t[y] # "none" => wire'[y] = wire[y])
        /\ wire'[k] = w[k]
    BY <1>1, <1>2 DEF SameBut, Opens
  <1>4. Queues(t2)' /\ QueuedMore(x)
    <2>1. \A y \in Conns : t[y] = "queued" => t2[y] = "queued"
      OBVIOUS
    <2> QED BY <1>1, <2>1, QueuesPush
  <1>5. Link(s, t2, x)'
    <2>1. \E y \in DOMAIN backlog'[x.to] : backlog'[x.to][y] = x
      BY <1>4 DEF QueuedMore
    <2>2. wire'[x].up = <<Present>> /\ wire'[x].down = <<>> /\ DOMAIN wire'[x] = {"up", "down"}
      BY DEF Opens
    <2> QED BY <2>1, <2>2, DialledLink
  <1>6. Thread(s, t2, n)'
    <2>1. call'[n].conn = x
      OBVIOUS
    <2>2. \A y \in Conns : /\ t[y] # "none" => t2[y] # "none"
                           /\ t[y] \notin {"none", "queued", "identify"} =>
                                t2[y] \notin {"none", "queued", "identify"}
      OBVIOUS
    <2> QED BY <1>1, <2>1, <2>2, DialThread
  <1>7. Ripple(s, t, t2, n)
    <2>1. ~Dialling(s, t, x)
      BY DEF Dialling
    <2> QED BY <2>1 DEF Ripple, Pushed
  <1> DEFINE K == {k, x}
  <1>8. /\ \A y \in Conns \ K : t2[y] = t[y] /\ (t[y] # "none" => wire'[y] = wire[y])
        /\ \A y \in Conns : y \in K => y.c = c0 /\ (t[y] = "stored" => t2[y] = "stored")
        /\ LineOf(s, c0) \in K /\ Forwarded(s, c0) => wire'[LineOf(s, c0)].up = <<>>
        /\ pc[n] \notin {"idle", "collect"} => fd[n] \in K
        /\ pc[n] = "call" => call[n].conn \in K
        /\ \A y \in Conns : y \in K /\ t2[y] # "none" => Link(s, t2, y)' /\ Bound(s, t2, y)
    <2>1. LineOf(s, c0) # x
      BY ConnsOf DEF IsCall
    <2> QED BY <1>3, <1>5, <2>1
  <1>9. \A m \in Node : \A y \in DOMAIN backlog[m] :
              backlog[m][y] \notin K => \E z \in DOMAIN backlog'[m] : backlog'[m][z] = backlog[m][y]
    BY <1>4 DEF QueuedMore
  <1>10. /\ UNCHANGED <<client, got, at>>
         /\ \A id \in DOMAIN files : id \in DOMAIN files' /\ files'[id] = files[id]
         /\ \A c \in Client \ {c0} : c \in complete' <=> c \in complete
         /\ (pc[n] \in Collecting => \/ pc'[n] \in Collecting /\ ms'[n] = ms[n]
                                    \/ ms[n].from = LineOf(s, c0))
    BY DEF Collecting
  <1> HIDE DEF K
  <1> QED BY <1>3, <1>4, <1>6, <1>7, <1>8, <1>9, <1>10, OneRequest, ZenonT(60)

\* The shelves stay when no copy changes its place.
LEMMA ShelvesSame ==
    ASSUME NEW s \in Stories, NEW t, NEW t2, Shelves(s, t), UNCHANGED <<files, fs>>,
           \A id \in DOMAIN files : \A j \in 1 .. Copies(files[id]) :
              Placed(s, t2, id, j)' <=> Placed(s, t, id, j)
    PROVE  Shelves(s, t2)'
  <1>1. \A m \in Node, id \in DOMAIN files : On(s, t2, m, id)' = On(s, t, m, id)
    BY DEF On
  <1>2. \A id, j : Entry(s, id, j)' = Entry(s, id, j)
    BY DEF Entry
  <1>3. \A m \in Node, id \in DOMAIN files : Slots(s, t, m, id) => Slots(s, t2, m, id)'
    BY <1>1, <1>2 DEF Slots
  <1> QED BY <1>3 DEF Shelves

-----------------------------------------------------------------------------
(* Fanout *)

\* The index hands out the fragments of the file of client c, which it has on k.
Hands(s, t, k, c) ==
    /\ k = Job(s, c) /\ fd[Index] = k /\ k.to = Index /\ k.c = c /\ t[k] = "fanout"
    /\ k \in DOMAIN wire /\ Link(s, t, k) /\ client[c] # "off" /\ ~IsCall(s, k)
    /\ Numbered(s, t, c) /\ Bound(s, t, k)
    /\ ms[Index].file = s.file[c] /\ ms[Index].buffer = Contents(s, c)
    /\ s.file[c] \in DOMAIN files /\ s.file[c] # 1 /\ files[s.file[c]] = s.want[c]
    /\ s.owner[s.file[c]] = c
    /\ Len(todo) <= Copies(s.want[c])
    /\ \A j \in 1 .. Len(todo) : todo[j] = Table[s.want[c]][Copies(s.want[c]) - Len(todo) + j]
    /\ \A j \in 1 .. Copies(s.want[c]) :
         Copy(s.want[c], j).node_id # Index => (t[StoreOf(s, c, j)] = "none" <=> j <= Len(todo))
    /\ \A d \in Client \ {c} : client[d] # "off" /\ Numbered(s, t, d) => t[Job(s, d)] = "stored"
    /\ k = LineOf(s, c) => wire[k].up = <<>>

\* The index in its fan-out has one creation in hand.
LEMMA OnFanout ==
    ASSUME NEW s \in Stories, NEW t \in [Conns -> Stage], Explains(s, t), pc[Index] = "fanout"
    PROVE  \E k \in Conns, c \in Client : Hands(s, t, k, c)
  <1>1. /\ Serves(t, Index, {"fanout"}) /\ Handout(s, t) /\ Numbering(s, t) /\ Working("fanout")
    BY DEF Explains, Handout, Working
  <1>2. PICK k \in Conns : k = fd[Index]
    BY <1>1 DEF Serves
  <1>3. PICK c \in Client : c = k.c
    BY ConnType
  <1>4. /\ fd[Index] = k /\ k.to = Index /\ k.c = c /\ t[k] = "fanout" /\ k = Job(s, c)
        /\ ms[Index].file = s.file[c] /\ ms[Index].buffer = Contents(s, c)
        /\ Len(todo) <= Copies(s.want[c])
        /\ \A j \in 1 .. Len(todo) : todo[j] = Table[s.want[c]][Copies(s.want[c]) - Len(todo) + j]
        /\ \A j \in 1 .. Copies(s.want[c]) :
             Copy(s.want[c], j).node_id # Index => (t[StoreOf(s, c, j)] = "none" <=> j <= Len(todo))
    BY <1>1, <1>2, <1>3 DEF Handout, Serves
  <1>5. /\ client[c] # "off" /\ Link(s, t, k) /\ Bound(s, t, k) /\ k \in DOMAIN wire
    BY <1>3, <1>4, Attached
  <1>6. Numbered(s, t, c)
    BY <1>4 DEF Numbered
  <1>7. /\ s.file[c] \in DOMAIN files /\ s.file[c] # 1 /\ files[s.file[c]] = s.want[c]
        /\ s.owner[s.file[c]] = c
    BY <1>1, <1>5, <1>6, NumberFacts
  <1>8. \A d \in Client \ {c} : client[d] # "off" /\ Numbered(s, t, d) => t[Job(s, d)] = "stored"
    <2> SUFFICES ASSUME NEW d \in Client \ {c}, t[Job(s, d)] = "fanout" PROVE FALSE
      BY DEF Numbered
    <2>1. Job(s, d) \in Conns /\ Job(s, d).c = d /\ Job(s, d).to = Index
      BY ConnsOf
    <2>2. fd[Index] = Job(s, d)
      BY <2>1, Attached DEF Seated
    <2> QED BY <1>4, <2>1, <2>2
  <1>9. ~IsCall(s, k)
    <2>1. Shape(s, t, k) /\ k.kind \in {"client", "relay"}
      BY <1>4, <1>5, ConnsOf DEF Link
    <2>2. k.kind = "relay" => s.op[k.c] = "write"
      BY <1>4, <2>1 DEF Shape, ReadRelayStages
    <2> QED BY <2>1, <2>2 DEF IsCall
  <1>10. k = LineOf(s, c) => wire[k].up = <<>>
    BY <1>4, <1>5, ConnsOf DEF Link, LineTalk, Is, Has
  <1> QED BY <1>4, <1>5, <1>6, <1>7, <1>8, <1>9, <1>10 DEF Hands

\* The next fragment is that of the last copy that has not been handed out.
LEMMA NextCopy ==
    ASSUME NEW s \in Stories, NEW t \in [Conns -> Stage], NEW k \in Conns, NEW c \in Client,
           Hands(s, t, k, c), todo \in Seq(Pointer), todo # <<>>
    PROVE  /\ Len(todo) \in 1 .. Copies(s.want[c]) /\ Head(todo) = Copy(s.want[c], Len(todo))
           /\ Tail(todo) \in Seq(Pointer) /\ Len(Tail(todo)) = Len(todo) - 1
           /\ \A j \in 1 .. Len(Tail(todo)) :
                Tail(todo)[j] = Table[s.want[c]][Copies(s.want[c]) - Len(Tail(todo)) + j]
           /\ Head(todo).fragment \in 1 .. Parts[s.want[c]] /\ Head(todo).node_id \in Node
           /\ Piece(ms[Index].buffer, Head(todo).fragment) = <<<<c, Head(todo).fragment>>>>
  <1>1. s.want[c] \in Name
    BY StoryType
  <1>2. Copies(s.want[c]) \in Nat /\ Parts[s.want[c]] \in Nat
    BY <1>1, PartsFacts
  <1>3. /\ Len(todo) \in Nat /\ Len(todo) >= 1 /\ Head(todo) = todo[1]
        /\ Tail(todo) \in Seq(Pointer) /\ Len(Tail(todo)) = Len(todo) - 1
        /\ \A j \in 1 .. Len(Tail(todo)) : Tail(todo)[j] = todo[j + 1]
    OBVIOUS
  <1>4. Len(todo) \in 1 .. Copies(s.want[c])
    BY <1>2, <1>3 DEF Hands
  <1>5. Head(todo) = Copy(s.want[c], Len(todo))
    <2>1. Head(todo) = Table[s.want[c]][Copies(s.want[c]) - Len(todo) + 1]
      BY <1>3 DEF Hands
    <2>2. Copies(s.want[c]) - Len(todo) + 1 = Copies(s.want[c]) + 1 - Len(todo)
      BY <1>2, <1>3
    <2> QED BY <2>1, <2>2 DEF Copy
  <1>6. \A j \in 1 .. Len(Tail(todo)) :
                Tail(todo)[j] = Table[s.want[c]][Copies(s.want[c]) - Len(Tail(todo)) + j]
    <2> SUFFICES ASSUME NEW j \in 1 .. Len(Tail(todo))
                 PROVE  Tail(todo)[j] = Table[s.want[c]][Copies(s.want[c]) - Len(Tail(todo)) + j]
      OBVIOUS
    <2>1. j + 1 \in 1 .. Len(todo)
      BY <1>3
    <2>2. todo[j + 1] = Table[s.want[c]][Copies(s.want[c]) - Len(todo) + (j + 1)]
      BY <2>1 DEF Hands
    <2>3. Copies(s.want[c]) - Len(todo) + (j + 1) = Copies(s.want[c]) - Len(Tail(todo)) + j
      BY <1>2, <1>3
    <2> QED BY <1>3, <2>2, <2>3
  <1>7. Head(todo).fragment \in 1 .. Parts[s.want[c]] /\ Head(todo).node_id \in Node
    BY <1>1, <1>4, <1>5, CopyFacts
  <1>8. Piece(ms[Index].buffer, Head(todo).fragment) = <<<<c, Head(todo).fragment>>>>
    BY <1>7 DEF Hands, Piece, Contents
  <1> QED BY <1>3, <1>4, <1>5, <1>6, <1>7, <1>8

LEMMA AtLeast ==
    ASSUME NEW a \in Nat, NEW b \in Nat
    PROVE  (a > b - 1) <=> (a > b \/ a = b)
  OBVIOUS

\* A step of the fan-out that takes up the next pointer and ends no delivery.
TakesNext(t, t2) ==
    /\ todo # <<>> /\ todo' = Tail(todo) /\ files' = files
    /\ \A x \in Conns : t2[x] = t[x] \/ (x.kind = "store" /\ t[x] # "over" /\ t2[x] # "over")

\* What the next fragment changes on the shelves: on the index's own, one copy is placed.
LEMMA PlacedNext ==
    ASSUME NEW s \in Stories, NEW t \in [Conns -> Stage], Explains(s, t), NEW t2 \in [Conns -> Stage],
           NEW k \in Conns, NEW c \in Client, Hands(s, t, k, c), TakesNext(t, t2),
           NEW id \in DOMAIN files, NEW i \in 1 .. Copies(files[id])
    PROVE  Placed(s, t2, id, i)' <=>
             (Placed(s, t, id, i) \/ (id = s.file[c] /\ i = Len(todo) /\ Copy(s.want[c], i).node_id = Index))
  <1>0. /\ todo # <<>> /\ todo' = Tail(todo) /\ files' = files
        /\ \A x \in Conns : t2[x] = t[x] \/ (x.kind = "store" /\ t[x] # "over" /\ t2[x] # "over")
    BY DEF TakesNext
  <1>1. /\ todo \in Seq(Pointer) /\ Numbering(s, t) /\ files \in Seq(Name)
    BY DEF Explains, Typed, Numbering
  <1>2. /\ s.file[c] \in DOMAIN files /\ s.file[c] # 1 /\ files[s.file[c]] = s.want[c]
        /\ s.owner[s.file[c]] = c /\ k = Job(s, c) /\ t[k] = "fanout"
    BY DEF Hands
  <1>3. Len(todo) \in Nat /\ Len(todo') = Len(todo) - 1
    BY <1>0, <1>1, NextCopy
  <1>4. CASE id = 1
    BY <1>0, <1>2, <1>4 DEF Placed
  <1>5. CASE id # 1
    <2>1. id \in 2 .. Len(files)
      BY <1>1, <1>5
    <2>2. PICK d \in Client : /\ s.owner[id] = d /\ client[d] # "off" /\ Numbered(s, t, d)
                              /\ s.file[d] = id /\ files[id] = s.want[d]
      BY <1>1, <2>1 DEF Numbering
    <2>3. Job(s, d) \in Conns /\ Job(s, d).kind # "store"
      BY ConnsOf
    <2>4. /\ StoreOf(s, d, i) \in Conns
      BY <2>2, StoreConn
    <2>5. t2[StoreOf(s, d, i)] = "over" <=> t[StoreOf(s, d, i)] = "over"
      BY <1>0, <2>4
    <2>6. t2[Job(s, d)] = t[Job(s, d)]
      BY <1>0, <2>3
    <2>7. CASE d = c
      <3>1. Left(s, t, d) = Len(todo) /\ Left(s, t2, d)' = Len(todo) - 1
        BY <1>2, <1>3, <2>6, <2>7 DEF Left
      <3>2. i \in Nat
        BY <2>2, StoryType, PartsFacts
      <3>3. (i > Len(todo) - 1) <=> (i > Len(todo) \/ i = Len(todo))
        BY <1>3, <3>2, AtLeast
      <3>4. id = s.file[c] /\ s.owner[id] = c /\ files[id] = s.want[c] /\ files'[id] = s.want[c]
        BY <1>0, <1>2, <2>2, <2>7
      <3>5. Placed(s, t, id, i) <=> \/ Copy(s.want[c], i).node_id = Index /\ i > Len(todo)
                                    \/ Copy(s.want[c], i).node_id # Index /\ t[StoreOf(s, c, i)] = "over"
        BY <1>0, <1>5, <2>7, <3>1, <3>4 DEF Placed
      <3>6. Placed(s, t2, id, i)' <=> \/ Copy(s.want[c], i).node_id = Index /\ i > Len(todo) - 1
                                      \/ Copy(s.want[c], i).node_id # Index /\ t2[StoreOf(s, c, i)] = "over"
        BY <1>0, <1>5, <2>7, <3>1, <3>4 DEF Placed
      <3> QED BY <2>5, <2>7, <3>3, <3>4, <3>5, <3>6
    <2>8. CASE d # c
      <3>1. t[Job(s, d)] = "stored"
        BY <2>2, <2>8 DEF Hands
      <3>2. Left(s, t, d) = 0 /\ Left(s, t2, d)' = 0
        BY <2>6, <3>1 DEF Left
      <3>3. id # s.file[c]
        BY <1>2, <2>2, <2>8
      <3> QED BY <1>0, <1>5, <2>2, <2>5, <3>2, <3>3 DEF Placed
    <2> QED BY <2>7, <2>8
  <1> QED BY <1>4, <1>5

\* One copy less is left to be handed out.
LEMMA HandoutNext ==
    ASSUME NEW s \in Stories, NEW t \in [Conns -> Stage], Explains(s, t), NEW t2 \in [Conns -> Stage],
           NEW k \in Conns, NEW c \in Client, Hands(s, t, k, c), todo # <<>>, todo' = Tail(todo),
           fd' = fd, ms' = ms, t2[k] = t[k],
           \A j \in 1 .. Copies(s.want[c]) : Copy(s.want[c], j).node_id # Index =>
              (t2[StoreOf(s, c, j)] = "none" <=> (t[StoreOf(s, c, j)] = "none" /\ j # Len(todo))),
           pc'[Index] = "call" => call'[Index].conn.c = c
    PROVE  Handout(s, t2)'
  <1>1. todo \in Seq(Pointer)
    BY DEF Explains, Typed
  <1>2. /\ Len(todo) \in 1 .. Copies(s.want[c]) /\ Len(todo') = Len(todo) - 1 /\ Copies(s.want[c]) \in Nat
        /\ \A j \in 1 .. Len(todo') : todo'[j] = Table[s.want[c]][Copies(s.want[c]) - Len(todo') + j]
    BY <1>1, NextCopy, StoryType, PartsFacts
  <1>3. /\ k = Job(s, c) /\ fd'[Index] = k /\ k.to = Index /\ k.c = c /\ t2[k] = "fanout"
        /\ ms'[Index].file = s.file[c] /\ ms'[Index].buffer = Contents(s, c)
    BY DEF Hands
  <1>4. \A j \in 1 .. Copies(s.want[c]) : Copy(s.want[c], j).node_id # Index =>
              (t2[StoreOf(s, c, j)] = "none" <=> j <= Len(todo'))
    <2> SUFFICES ASSUME NEW j \in 1 .. Copies(s.want[c]), Copy(s.want[c], j).node_id # Index
                 PROVE  t2[StoreOf(s, c, j)] = "none" <=> j <= Len(todo')
      OBVIOUS
    <2>1. t[StoreOf(s, c, j)] = "none" <=> j <= Len(todo)
      BY DEF Hands
    <2>2. (j <= Len(todo) /\ j # Len(todo)) <=> j <= Len(todo')
      BY <1>2
    <2> QED BY <2>1, <2>2
  <1>5. Serves(t2, Index, {"fanout"})'
    BY <1>3 DEF Serves
  <1>6. Len(todo') <= Copies(s.want[c])
    BY <1>2
  <1>7. fd'[Index].c = c /\ fd'[Index] = Job(s, c)
    BY <1>3
  <1>8. \A j \in 1 .. Len(todo') : todo'[j] = Table[s.want[c]][Copies(s.want[c]) - Len(todo') + j]
    BY <1>2
  <1> QED BY <1>3, <1>4, <1>5, <1>6, <1>7, <1>8 DEF Handout

\* The request whose fragments the index hands out does not change by it.
LEMMA RequestNext ==
    ASSUME NEW s \in Stories, NEW t \in [Conns -> Stage], Explains(s, t), NEW t2 \in [Conns -> Stage],
           NEW k \in Conns, NEW c \in Client, Hands(s, t, k, c), Elsewhere(Index),
           \A x \in Conns : t2[x] = t[x] \/ x.kind = "store",
           UNCHANGED <<client, got, at, files, complete>>,
           t[RelayOf(s, c)] # "none" => wire'[RelayOf(s, c)].down = wire[RelayOf(s, c)].down
    PROVE  Request(s, t2, c)'
  <1>1. Request(s, t, c) /\ Numbering(s, t) /\ client[c] # "off" /\ k = Job(s, c) /\ t[k] = "fanout"
    BY DEF Explains, Hands
  <1>2. /\ t2[LineOf(s, c)] = t[LineOf(s, c)] /\ t2[RelayOf(s, c)] = t[RelayOf(s, c)]
        /\ t2[Job(s, c)] = t[Job(s, c)]
        /\ \A i \in Node : /\ t2[DeliverOf(s, c, i)] = t[DeliverOf(s, c, i)]
                           /\ t2[AskOf(c, i)] = t[AskOf(c, i)]
    BY ConnsOf
  <1>3. \A i \in 1 .. Parts[s.want[c]] : s.home[c] # Index => Fetch(s, t2, c, i)
    <2>1. \A i \in 1 .. Parts[s.want[c]] : i \in Node
      BY StoryType, PartsFacts
    <2>2. \A i \in 1 .. Parts[s.want[c]] : s.home[c] # Index => Fetch(s, t, c, i)
      BY <1>1 DEF Request
    <2> QED BY <1>2, <2>1, <2>2 DEF Fetch
  <1>4. Tally(s, t2, c)'
    <2>1. s.home[c] = Index => t[LineOf(s, c)] # "collect"
      BY <1>1 DEF Job
    <2> QED BY <1>1, <1>2, <2>1, ParameterFacts, TallyAgain
  <1>5. HandedOut(s, t2, c)
    BY <1>1, <1>2 DEF HandedOut
  <1>6. \A x \in Conns : t[x] = "stored" => t2[x] = "stored"
    <2>1. ASSUME NEW x \in Conns, t[x] = "stored" PROVE x.kind # "store"
      BY <2>1, Attached DEF Link, Shape, CallStages
    <2> QED BY <2>1
  <1> QED BY <1>1, <1>2, <1>3, <1>4, <1>5, <1>6, RequestAgain

\* A copy of the index's own is put on its shelf at once; for another node's it makes a call.
LEMMA FanoutLocal ==
    ASSUME NEW s \in Stories, NEW t \in [Conns -> Stage], Explains(s, t), NEW n \in Node, n = Index, Fanout(n),
           NEW k \in Conns, NEW c \in Client, Hands(s, t, k, c), Head(todo).node_id = n
    PROVE  Explains(s, t)'
  <1>1. /\ Thread(s, t, n) /\ Typed /\ todo \in Seq(Pointer) /\ Numbering(s, t) /\ Shelves(s, t)
        /\ DOMAIN fs = Node /\ \A m \in Node : DOMAIN fs[m] = FileId
    BY DEF Explains, Typed
  <1>2. /\ pc[n] = "fanout" /\ todo # <<>> /\ todo' = Tail(todo)
        /\ fs' = [fs EXCEPT ![n][ms[n].file] = AddFragment(@, [id |-> Head(todo).fragment,
                              bytes |-> Piece(ms[n].buffer, Head(todo).fragment)])]
        /\ UNCHANGED <<net, pc, call, fd, client_fd, packet, ms, files, complete, user, merged, strayed>>
    BY DEF Fanout, At
  <1>3. /\ k = Job(s, c) /\ fd[n] = k /\ k.to = n /\ k.c = c /\ t[k] = "fanout" /\ Link(s, t, k)
        /\ Bound(s, t, k) /\ client[c] # "off" /\ Numbered(s, t, c) /\ ms[n].file = s.file[c]
        /\ s.file[c] \in DOMAIN files /\ s.file[c] # 1 /\ files[s.file[c]] = s.want[c]
        /\ s.owner[s.file[c]] = c
    BY DEF Hands
  <1>4. PICK j \in 1 .. Copies(s.want[c]) : j = Len(todo)
    BY <1>1, <1>2, NextCopy
  <1>5. /\ Head(todo) = Copy(s.want[c], j) /\ Tail(todo) \in Seq(Pointer)
        /\ Piece(ms[n].buffer, Head(todo).fragment) = <<<<c, Head(todo).fragment>>>>
    BY <1>1, <1>2, <1>4, NextCopy
  <1>6. Elsewhere(n) /\ Typed'
    <2>1. DOMAIN fs' = Node /\ \A m \in Node : DOMAIN fs'[m] = FileId
      BY <1>1, <1>2
    <2> QED BY <1>1, <1>2, <1>5, <2>1 DEF Elsewhere, Typed, user, net
  <1>7. UNCHANGED <<client, got, at, files, complete, wire, backlog>>
    BY <1>2 DEF user, net
  <1>8. Link(s, t, k)'
    BY <1>2, <1>3, <1>7, LinkFrame DEF Forwarded
  <1>9. Thread(s, t, n)'
    BY <1>1, <1>2 DEF Thread
  <1>10. Inquiry(s, t)'
    BY <1>2 DEF Inquiry, Working
  <1>11. Handout(s, t)'
    <2>1. ASSUME NEW i \in 1 .. Copies(s.want[c]), Copy(s.want[c], i).node_id # Index
          PROVE  t[StoreOf(s, c, i)] = "none" <=> (t[StoreOf(s, c, i)] = "none" /\ i # Len(todo))
      BY <1>4, <1>5, <2>1
    <2>2. pc'[Index] # "call"
      BY <1>2
    <2> QED BY <1>2, <2>1, <2>2, HandoutNext
  <1>12. Numbering(s, t)'
    BY <1>7, FilesApart
  <1>13. Shelves(s, t)'
    <2>1. ~Placed(s, t, s.file[c], j)
      BY <1>3, <1>4, <1>5 DEF Placed, Left
    <2>2. ASSUME NEW id \in DOMAIN files, NEW i \in 1 .. Copies(files[id])
          PROVE  Placed(s, t, id, i)' <=> (Placed(s, t, id, i) \/ (id = s.file[c] /\ i = j))
      <3>1. Placed(s, t, id, i)' <=>
             (Placed(s, t, id, i) \/ (id = s.file[c] /\ i = Len(todo) /\ Copy(s.want[c], i).node_id = Index))
        <4>1. \A x \in Conns : t[x] = t[x] \/ (x.kind = "store" /\ t[x] # "over" /\ t[x] # "over")
          OBVIOUS
        <4>2. files' = files /\ todo # <<>> /\ todo' = Tail(todo)
          BY <1>2, <1>7
        <4>3. TakesNext(t, t)
          BY <4>1, <4>2, Zenon DEF TakesNext
        <4> QED BY <4>3, PlacedNext, ZenonT(60)
      <3>2. i = j => Copy(s.want[c], i).node_id = Index
        BY <1>5
      <3> QED BY <1>4, <3>1, <3>2, Zenon
    <2>3. [id |-> Head(todo).fragment, bytes |-> Piece(ms[n].buffer, Head(todo).fragment)]
            = Entry(s, s.file[c], j)
      BY <1>3, <1>5 DEF Entry
    <2>4. Gains(s, t, t, n, c, j)
      BY <1>2, <1>3, <1>5, <2>1, <2>2, <2>3 DEF Gains
    <2> QED BY <1>1, <1>3, <1>7, <2>4, SlotsGain
  <1>14. Request(s, t, c)'
    BY <1>6, <1>7, RequestNext
  <1>15. Ripple(s, t, t, n)
    BY DEF Ripple
  <1>16. SameBut(t, t, k) /\ SameBut(wire, wire', k)
    BY <1>7 DEF SameBut
  <1>17. /\ t[k] \notin {"none", "queued", "stored"} /\ t[k] # "none"
         /\ (k = LineOf(s, c) /\ Forwarded(s, c) => wire'[k].up = <<>>)
         /\ (pc[n] \notin {"idle", "collect"} => fd[n] = k) /\ (pc[n] = "call" => call[n].conn = k)
         /\ \A d \in Client \ {c} : d \in complete' <=> d \in complete
         /\ (pc[n] \in Collecting => \/ pc'[n] \in Collecting /\ ms'[n] = ms[n]
                                    \/ ms[n].from = LineOf(s, c))
         /\ UNCHANGED <<client, got, at, backlog>>
         /\ \A id \in DOMAIN files : id \in DOMAIN files' /\ files'[id] = files[id]
    BY <1>2, <1>3, <1>7 DEF Forwarded, Collecting
  <1>18. (Granted(s, t, c) => Granted(s, t, c)) /\ (Numbered(s, t, c) => Numbered(s, t, c))
    OBVIOUS
  <1> QED BY <1>3, <1>6, <1>8, <1>9, <1>10, <1>11, <1>12, <1>13, <1>14, <1>15, <1>16, <1>17, <1>18,
             OneConn, ZenonT(60)

LEMMA FanoutDial ==
    ASSUME NEW s \in Stories, NEW t \in [Conns -> Stage], Explains(s, t), NEW n \in Node, n = Index, Fanout(n),
           NEW k \in Conns, NEW c \in Client, Hands(s, t, k, c), Head(todo).node_id # n
    PROVE  \E t2 \in [Conns -> Stage] : Explains(s, t2)'
  <1>1. /\ Thread(s, t, n) /\ Typed /\ todo \in Seq(Pointer) /\ Numbering(s, t) /\ Shelves(s, t)
        /\ DOMAIN wire = {y \in Conns : t[y] # "none"}
    BY DEF Explains, Typed
  <1>2. /\ k = Job(s, c) /\ fd[n] = k /\ k.to = n /\ k.c = c /\ t[k] = "fanout" /\ Link(s, t, k)
        /\ ~IsCall(s, k)
        /\ Bound(s, t, k) /\ client[c] # "off" /\ Numbered(s, t, c) /\ ms[n].file = s.file[c]
        /\ k \in DOMAIN wire /\ k.kind # "store" /\ (k = LineOf(s, c) => wire[k].up = <<>>)
    BY ConnsOf DEF Hands
  <1>3. /\ pc[n] = "fanout" /\ todo # <<>> /\ todo' = Tail(todo)
        /\ Dial(n, wire, [conn |-> Conn("store", fd[n].c, Len(todo), n, Head(todo).node_id),
                          script |-> <<StoreFragment(ms[n].file, Head(todo).fragment),
                                       Raw(Piece(ms[n].buffer, Head(todo).fragment))>>,
                          confirm |-> FALSE, ret |-> "fanout"])
        /\ UNCHANGED <<fs, fd, client_fd, packet, ms, files, complete, user, merged, strayed>>
    BY DEF Fanout, At
  <1>4. PICK j \in 1 .. Copies(s.want[c]) : j = Len(todo)
    BY <1>1, <1>3, NextCopy
  <1>5. /\ Head(todo) = Copy(s.want[c], j) /\ Tail(todo) \in Seq(Pointer)
        /\ Piece(ms[n].buffer, Head(todo).fragment) = <<<<c, Head(todo).fragment>>>>
    BY <1>1, <1>3, <1>4, NextCopy
  <1>6. PICK x \in Conns : x = StoreOf(s, c, j)
    BY StoreConn
  <1>7. /\ x.kind = "store" /\ x.c = c /\ x.i = j /\ x.from = n /\ x.to = Copy(s.want[c], j).node_id
        /\ x.to # n /\ x.to \in Node
    BY <1>5, <1>6, StoreConn, ConnType
  <1>8. /\ wire' = Opened(wire, x, <<Present>>)
        /\ backlog' = [backlog EXCEPT ![x.to] = Append(@, x)]
        /\ call' = [call EXCEPT ![n] = [conn |-> x, script |-> Full(s, x), confirm |-> FALSE, ret |-> "fanout"]]
        /\ pc' = [pc EXCEPT ![n] = "call"]
    <2>1. Conn("store", fd[n].c, Len(todo), n, Head(todo).node_id) = x
      BY <1>2, <1>4, <1>5, <1>6 DEF StoreOf
    <2>2. StoreFragment(ms[n].file, Head(todo).fragment) = First(s, x)
      BY <1>2, <1>5, <1>7 DEF First
    <2>3. Raw(Piece(ms[n].buffer, Head(todo).fragment)) = Second(s, x)
      BY <1>5, <1>7 DEF Second
    <2>4. Full(s, x) = <<First(s, x), Second(s, x)>>
      BY <1>7 DEF Full, HasBytes
    <2> QED BY <1>3, <2>1, <2>2, <2>3, <2>4 DEF Dial, Goto
  <1>9. /\ DOMAIN pc' = Node /\ pc'[n] = "call" /\ \A m \in Node \ {n} : pc'[m] = pc[m]
        /\ DOMAIN call' = Node /\ \A m \in Node \ {n} : call'[m] = call[m]
        /\ call'[n] = [conn |-> x, script |-> Full(s, x), confirm |-> x.kind \in {"ask", "deliver"},
                       ret |-> Return(x)]
        /\ DOMAIN backlog' = Node
    <2>1. (x.kind \in {"ask", "deliver"}) = FALSE /\ Return(x) = "fanout"
      BY <1>7 DEF Return
    <2>2. DOMAIN pc = Node /\ DOMAIN call = Node /\ DOMAIN backlog = Node
      BY <1>1 DEF Typed
    <2>3. call'[n] = [conn |-> x, script |-> Full(s, x), confirm |-> FALSE, ret |-> "fanout"]
      BY <1>8, <2>2
    <2>4. call'[n] = [conn |-> x, script |-> Full(s, x), confirm |-> x.kind \in {"ask", "deliver"},
                      ret |-> Return(x)]
      BY <2>1, <2>3, Zenon
    <2> QED BY <1>8, <2>2, <2>4
  <1>10. t[x] = "none"
    BY <1>2, <1>4, <1>6, <1>7 DEF Hands
  <1>11. PICK t2 \in [Conns -> Stage] : t2[x] = "queued" /\ SameBut(t, t2, x)
    <2>1. "queued" \in Stage
      BY DEF Stage, LineStages
    <2> QED BY <2>1, Advance
  <1>12. \A y \in Conns \ {x} : t2[y] = t[y]
    BY <1>11 DEF SameBut
  <1>13. UNCHANGED <<client, got, at, files, complete, fs, fd, client_fd, packet, ms>>
    BY <1>3 DEF user
  <1>14. Elsewhere(n) /\ Typed'
    BY <1>1, <1>3, <1>5, <1>9 DEF Elsewhere, Typed, user
  <1>15. Opens(wire, wire', x, <<Present>>) /\ Pushes(x) /\ SameBut(wire, wire, k)
    BY <1>8, WireOpened DEF Pushes, SameBut
  <1>16. k # x /\ t2[k] = "fanout" /\ wire'[k] = wire[k]
    BY <1>2, <1>7, <1>12, <1>15 DEF Opens
  <1>17. Link(s, t2, k)'
    <2>1. ~Dialling(s, t, k) /\ t[k] # "queued"
      BY <1>2 DEF Dialling
    <2>2. k.kind = "relay" /\ Forwarded(s, k.c) => Forwarded(s, k.c)'
      <3>1. Forwarded(s, c) /\ LineOf(s, c) # x
        => Forwarded(s, c)'
        <4>1. LineOf(s, c) \in DOMAIN wire
          <5>1. t[LineOf(s, c)] # "none" /\ LineOf(s, c) \in Conns
            BY <1>2, ConnsOf DEF Explains, Request, Progress
          <5> QED BY <1>1, <5>1
        <4> QED BY <1>13, <1>15, <4>1 DEF Forwarded, Opens
      <3>2. LineOf(s, c) # x
        BY <1>7, ConnsOf
      <3> QED BY <1>2, <3>1, <3>2
    <2>3. Seat(t2, k)'
      BY <1>2, <1>9, <1>13, <1>16 DEF Seat
    <2>4. Shape(s, t2, k)
      BY <1>2, <1>16 DEF Link, Shape
    <2>5. Caller(s, t2, k)' /\ CallTalk(s, t2, k)'
      BY <1>2, <1>16 DEF Caller, Dialling, CallTalk
    <2>6. LineTalk(s, t2, k)'
      BY <1>2, <1>13, <1>16 DEF Link, LineTalk, Is, Has
    <2>7. RelayTalk(s, t2, k)'
      BY <1>2, <1>16, <2>2 DEF Link, RelayTalk
    <2> QED BY <1>2, <1>16, <2>3, <2>4, <2>5, <2>6, <2>7 DEF Link
  <1>18. IsCall(s, x) /\ Shape(s, t2, x)
    BY <1>6, <1>7, <1>11 DEF IsCall, Shape, CallStages
  <1>19. Job(s, c) # x /\ t2[Job(s, c)] = t[Job(s, c)]
    BY <1>2, <1>7, <1>16
  <1>20. Bound(s, t2, k) /\ Bound(s, t2, x) /\ (Granted(s, t, c) => Granted(s, t2, c))
         /\ (Numbered(s, t, c) => Numbered(s, t2, c))
    BY <1>2, <1>7, <1>19 DEF Bound, Granted, Numbered
  <1>21. \A y \in Conns : t2[y] = t[y] \/ (y.kind = "store" /\ t[y] # "over" /\ t2[y] # "over")
    BY <1>7, <1>10, <1>11, <1>12
  <1>22. Request(s, t2, c)'
    <2>1. t[RelayOf(s, c)] # "none" => wire'[RelayOf(s, c)].down = wire[RelayOf(s, c)].down
      BY <1>1, <1>7, <1>15, ConnsOf DEF Opens
    <2>2. \A y \in Conns : t2[y] = t[y] \/ y.kind = "store"
      BY <1>21
    <2> QED BY <1>13, <1>14, <2>1, <2>2, RequestNext
  <1>23. Inquiry(s, t2)'
    BY <1>7, <1>9 DEF Inquiry, Working, Return
  <1>24. Handout(s, t2)'
    <2>1. ASSUME NEW i \in 1 .. Copies(s.want[c]), Copy(s.want[c], i).node_id # Index
          PROVE  t2[StoreOf(s, c, i)] = "none" <=> (t[StoreOf(s, c, i)] = "none" /\ i # Len(todo))
      <3>1. StoreOf(s, c, i) \in Conns /\ StoreOf(s, c, i).i = i
        BY StoreConn
      <3>2. StoreOf(s, c, i) = x <=> i = j
        BY <1>6, <1>7, <3>1
      <3> QED BY <1>4, <1>10, <1>11, <1>12, <3>1, <3>2
    <2>2. call'[Index].conn.c = c
      BY <1>7, <1>9
    <2> QED BY <1>2, <1>3, <1>13, <1>16, <2>1, <2>2, HandoutNext
  <1>25. Numbering(s, t2)'
    <2>1. \A y \in Conns : t2[y] \in {"fanout", "stored"} <=> t[y] \in {"fanout", "stored"}
      BY <1>10, <1>11, <1>12
    <2> QED BY <1>13, <2>1, FilesApart
  <1>26. Shelves(s, t2)'
    <2>1. ASSUME NEW id \in DOMAIN files, NEW i \in 1 .. Copies(files[id])
          PROVE  Placed(s, t2, id, i)' <=> Placed(s, t, id, i)
      <3>1. Placed(s, t2, id, i)' <=>
             (Placed(s, t, id, i) \/ (id = s.file[c] /\ i = Len(todo) /\ Copy(s.want[c], i).node_id = Index))
        <4>1. files' = files /\ todo # <<>> /\ todo' = Tail(todo)
          BY <1>3
        <4>2. TakesNext(t, t2)
          BY <1>21, <4>1, Zenon DEF TakesNext
        <4> QED BY <4>2, PlacedNext, ZenonT(60)
      <3>2. i = Len(todo) => Copy(s.want[c], i).node_id # Index
        BY <1>4, <1>5
      <3> QED BY <3>1, <3>2, Zenon
    <2> QED BY <1>1, <1>13, <2>1, ShelvesSame
  <1>27. /\ \A y \in Conns \ {k, x} : t2[y] = t[y]
         /\ UNCHANGED <<client, got, at, files, complete>> /\ fd' = fd /\ client_fd' = client_fd
         /\ t[k] \notin {"none", "queued", "stored"} /\ t2[k] # "none"
         /\ (~Dialling(s, t, k) \/ k.from = n \/ Dialling(s, t2, k))
         /\ pc[n] \in {"fanout", "ask", "packet"} /\ t2[k] \notin {"none", "queued", "identify"}
    BY <1>2, <1>3, <1>12, <1>13, <1>16 DEF Dialling
  <1> QED BY <1>2, <1>7, <1>9, <1>10, <1>11, <1>14, <1>15, <1>17, <1>18, <1>20, <1>22, <1>23, <1>24, <1>25,
             <1>26, <1>27, OneCall, ZenonT(60)

\* When no copy is left, every copy of another node is with that node.
LEMMA HandedOutAll ==
    ASSUME NEW s \in Stories, NEW t \in [Conns -> Stage], Explains(s, t), pc[Index] = "fanout",
           NEW k \in Conns, NEW c \in Client, Hands(s, t, k, c), todo = <<>>,
           NEW j \in 1 .. Copies(s.want[c]), Copy(s.want[c], j).node_id # Index
    PROVE  t[StoreOf(s, c, j)] \in {"raw", "over"}
  <1>1. PICK x \in Conns : x = StoreOf(s, c, j)
    BY StoreConn
  <1>2. x.kind = "store" /\ x.from = Index
    BY <1>1, StoreConn
  <1>3. t[x] # "none"
    <2>1. ~(j <= Len(todo))
      BY StoryType, PartsFacts
    <2> QED BY <1>1, <2>1 DEF Hands
  <1>4. Shape(s, t, x)
    BY <1>3, Attached DEF Link
  <1>5. ~Dialling(s, t, x)
    BY <1>2, Attached
  <1>6. t[x] \notin {"queued", "identify", "hello", "said", "packet", "ok"}
    BY <1>2, <1>5 DEF Dialling, IsCall
  <1> QED BY <1>1, <1>2, <1>3, <1>4, <1>6 DEF Shape, CallStages

\* The fan-out ends: the creation is complete.
LEMMA FanoutEndStep ==
    ASSUME NEW s \in Stories, NEW t \in [Conns -> Stage], Explains(s, t), NEW n \in Node, FanoutEnd(n)
    PROVE  \E t2 \in [Conns -> Stage] : Explains(s, t2)'
  <1>1. /\ Thread(s, t, n) /\ Typed /\ Numbering(s, t) /\ Shelves(s, t)
        /\ DOMAIN wire = {y \in Conns : t[y] # "none"}
    BY DEF Explains
  <1>2. /\ pc[n] = "fanout" /\ todo = <<>> /\ complete' = complete \cup {fd[n].c}
        /\ pc' = [pc EXCEPT ![n] = "idle"]
        /\ UNCHANGED <<wire, backlog, fd, client_fd, packet, ms, call, todo, fs, files, user, merged, strayed>>
    BY DEF FanoutEnd, At, Goto, net
  <1>3. n = Index
    BY <1>1, <1>2 DEF Thread
  <1>4. PICK k \in Conns, c \in Client : Hands(s, t, k, c)
    BY <1>2, <1>3, OnFanout
  <1>5. /\ k = Job(s, c) /\ fd[n] = k /\ k.to = n /\ k.c = c /\ t[k] = "fanout" /\ Link(s, t, k)
        /\ ~IsCall(s, k) /\ Bound(s, t, k) /\ client[c] # "off" /\ Numbered(s, t, c)
        /\ k \in DOMAIN wire /\ k.kind \in {"client", "relay"} /\ (k = LineOf(s, c) => wire[k].up = <<>>)
        /\ \A d \in Client \ {c} : client[d] # "off" /\ Numbered(s, t, d) => t[Job(s, d)] = "stored"
    BY <1>3, <1>4, ConnsOf DEF Hands
  <1>6. DOMAIN pc' = Node /\ pc'[n] = "idle" /\ \A m \in Node \ {n} : pc'[m] = pc[m]
    BY <1>1, <1>2 DEF Typed
  <1>7. PICK t2 \in [Conns -> Stage] : t2[k] = "stored" /\ SameBut(t, t2, k)
    <2>1. "stored" \in Stage
      BY DEF Stage, LineStages
    <2> QED BY <2>1, Advance
  <1>8. \A y \in Conns \ {k} : t2[y] = t[y]
    BY <1>7 DEF SameBut
  <1>9. UNCHANGED <<client, got, at, overlap>> /\ complete' = complete \cup {c}
    BY <1>2, <1>5 DEF user
  <1>10. Elsewhere(n) /\ Typed'
    BY <1>1, <1>2, <1>6, <1>9 DEF Elsewhere, Typed
  <1>11. Link(s, t2, k)'
    <2>1. Shape(s, t2, k)
      BY <1>5, <1>7 DEF Link, Shape, LineStages, WriteRelayStages, ReadRelayStages
    <2>2. Seat(t2, k)' /\ Caller(s, t2, k)' /\ CallTalk(s, t2, k)'
      BY <1>5, <1>7 DEF Seat, Caller, Dialling, CallTalk
    <2>3. LineTalk(s, t2, k)'
      BY <1>2, <1>5, <1>7, <1>9 DEF Link, LineTalk, Is, Has
    <2>4. RelayTalk(s, t2, k)'
      BY <1>2, <1>5, <1>7, <1>9 DEF Link, RelayTalk, Forwarded
    <2> QED BY <1>2, <1>5, <2>1, <2>2, <2>3, <2>4 DEF Link
  <1>12. Thread(s, t2, n)'
    <2>1. \A x \in Conns : /\ t[x] # "none" => t2[x] # "none"
                           /\ t[x] \notin {"none", "queued", "identify"} =>
                                t2[x] \notin {"none", "queued", "identify"}
      BY <1>5, <1>7, <1>8
    <2> QED BY <1>1, <1>2, <1>6, <2>1 DEF Thread, Position, Collecting
  <1>13. Inquiry(s, t2)' /\ Handout(s, t2)'
    BY <1>3, <1>6 DEF Inquiry, Handout, Working
  <1>14. Numbering(s, t2)'
    <2>1. \A y \in Conns : t2[y] \in {"fanout", "stored"} <=> t[y] \in {"fanout", "stored"}
      BY <1>5, <1>7, <1>8
    <2> QED BY <1>2, <1>9, <2>1, FilesApart
  <1>15. Shelves(s, t2)'
    <2>1. ASSUME NEW d \in Client, Numbered(s, t, d) PROVE Left(s, t2, d)' = Left(s, t, d)
      <3>1. Job(s, d) \in Conns
        BY ConnsOf
      <3>2. t[Job(s, d)] # "none" => client[d] # "off"
        BY <3>1, ConnsOf, Attached
      <3>3. client[d] # "off"
        BY <2>1, <3>2 DEF Numbered
      <3>4. CASE d = c
        <4>1. Left(s, t, d) = Len(todo) /\ Left(s, t2, d)' = 0
          BY <1>5, <1>7, <3>4 DEF Left
        <4> QED BY <1>2, <4>1
      <3>5. CASE d # c
        <4>1. t[Job(s, d)] = "stored" /\ Job(s, d) # k
          BY <1>5, <2>1, <3>3, <3>5
        <4> QED BY <1>8, <3>1, <4>1 DEF Left
      <3> QED BY <3>4, <3>5
    <2>2. \A y \in Conns : y.kind = "store" => (t2[y] = "over" <=> t[y] = "over")
      BY <1>5, <1>7, <1>8
    <2> QED BY <1>1, <1>2, <2>1, <2>2, ShelvesFrame
  <1>16. Request(s, t2, c)'
    <2>1. /\ Progress(s, t, c) /\ Answers(s, t, c) /\ Doing(s, c) /\ Tally(s, t, c)
          /\ \A i \in 1 .. Parts[s.want[c]] : s.home[c] # Index => Fetch(s, t, c, i)
      BY <1>5 DEF Explains, Request
    <2>2. /\ LineOf(s, c).kind = "client" /\ RelayOf(s, c).kind = "relay"
          /\ LineOf(s, c) \in Conns /\ RelayOf(s, c) \in Conns /\ k \in {LineOf(s, c), RelayOf(s, c)}
          /\ \A i \in Node : /\ DeliverOf(s, c, i) \in Conns \ {k} /\ AskOf(c, i) \in Conns \ {k}
      BY <1>5, ConnsOf DEF Job
    <2>3. k = RelayOf(s, c) => s.op[c] # "read"
      BY <1>5, <2>2 DEF IsCall
    <2>4. ASSUME k = LineOf(s, c)
                 PROVE  /\ Progress(s, t2, c)' /\ Answers(s, t2, c)' /\ Tally(s, t2, c)'
                        /\ \A i \in 1 .. Parts[s.want[c]] : s.home[c] # Index => Fetch(s, t2, c, i)'
      <3>1. t2[RelayOf(s, c)] = t[RelayOf(s, c)] /\ s.home[c] = Index
        BY <1>5, <1>8, <2>2, <2>4 DEF Job
      <3>2. Progress(s, t2, c)
        BY <1>5, <1>7, <2>1, <2>4, <3>1 DEF Progress
      <3>3. Answers(s, t2, c)' /\ Tally(s, t2, c)'
        BY <1>7, <2>4 DEF Answers, Tally
      <3>4. \A i \in 1 .. Parts[s.want[c]] : s.home[c] # Index => Fetch(s, t2, c, i)
        BY <3>1
      <3> QED BY <3>2, <3>3, <3>4 DEF Progress, Fetch
    <2>5. ASSUME k = RelayOf(s, c)
                 PROVE  /\ Progress(s, t2, c)' /\ Answers(s, t2, c)' /\ Tally(s, t2, c)'
                        /\ \A i \in 1 .. Parts[s.want[c]] : s.home[c] # Index => Fetch(s, t2, c, i)'
      <3>1. t2[LineOf(s, c)] = t[LineOf(s, c)] /\ k # LineOf(s, c) /\ s.home[c] # Index
        BY <1>5, <1>8, <2>2, <2>5 DEF Job
      <3>2. Progress(s, t2, c)
        BY <1>5, <1>7, <2>1, <2>3, <2>5, <3>1 DEF Progress
      <3>3. Answers(s, t2, c)'
        BY <1>7, <2>5 DEF Answers
      <3>4. \A i \in 1 .. Parts[s.want[c]] : s.home[c] # Index => Fetch(s, t2, c, i)
        <4>1. \A i \in 1 .. Parts[s.want[c]] : i \in Node
          BY StoryType, PartsFacts
        <4> QED BY <1>8, <2>1, <2>2, <3>1, <4>1 DEF Fetch
      <3>5. Tally(s, t2, c)'
        <4>1. \A i \in Node : t2[DeliverOf(s, c, i)] \in Delivered <=> t[DeliverOf(s, c, i)] \in Delivered
          BY <1>8, <2>2
        <4>2. s.home[c] = n => t[LineOf(s, c)] # "collect"
          BY <1>3, <3>1
        <4>3. Request(s, t, c)
          BY DEF Explains
        <4> QED BY <1>5, <1>10, <3>1, <4>1, <4>2, <4>3, TallyAgain
      <3> QED BY <3>2, <3>3, <3>4, <3>5 DEF Progress, Fetch
    <2>6. Doing(s, c)' /\ Found(s, t2, c)'
      BY <1>5, <1>7, <1>9, <2>1 DEF Doing, Found, Granted
    <2>7. HandedOut(s, t2, c)
      <3> SUFFICES ASSUME NEW j \in 1 .. Copies(s.want[c]), Copy(s.want[c], j).node_id # Index
                   PROVE  t2[StoreOf(s, c, j)] \in {"raw", "over"}
        BY DEF HandedOut
      <3>1. t[StoreOf(s, c, j)] \in {"raw", "over"}
        BY <1>2, <1>3, <1>4, HandedOutAll
      <3>2. StoreOf(s, c, j) \in Conns \ {k}
        BY <1>5, StoreConn
      <3> QED BY <1>8, <3>1, <3>2
    <2>8. c \in complete' /\ t2[Job(s, c)] = "stored"
      BY <1>5, <1>7, <1>9
    <2> QED BY <2>2, <2>4, <2>5, <2>6, <2>7, <2>8 DEF Request
  <1>17. Ripple(s, t, t2, n)
    BY <1>5, <1>7, <1>8 DEF Ripple, Dialling
  <1>18. SameBut(wire, wire', k) /\ Bound(s, t2, k)
    BY <1>2, <1>5 DEF Bound, SameBut
  <1>19. /\ t[k] \notin {"none", "queued", "stored"} /\ t2[k] # "none"
         /\ (k = LineOf(s, c) /\ Forwarded(s, c) => wire'[k].up = <<>>)
         /\ (pc[n] \notin {"idle", "collect"} => fd[n] = k) /\ (pc[n] = "call" => call[n].conn = k)
         /\ \A d \in Client \ {c} : d \in complete' <=> d \in complete
         /\ (pc[n] \in Collecting => \/ pc'[n] \in Collecting /\ ms'[n] = ms[n]
                                    \/ ms[n].from = LineOf(s, c))
         /\ UNCHANGED <<client, got, at, backlog>>
         /\ \A id \in DOMAIN files : id \in DOMAIN files' /\ files'[id] = files[id]
         /\ (Granted(s, t, c) => Granted(s, t2, c)) /\ (Numbered(s, t, c) => Numbered(s, t2, c))
    BY <1>2, <1>5, <1>7, <1>9 DEF Collecting, Granted, Numbered
  <1> QED BY <1>5, <1>7, <1>10, <1>11, <1>12, <1>13, <1>14, <1>15, <1>16, <1>17, <1>18, <1>19,
             OneConn, ZenonT(60)

\* One pointer of the table is handed out.
LEMMA FanoutStep ==
    ASSUME NEW s \in Stories, NEW t \in [Conns -> Stage], Explains(s, t), NEW n \in Node, Fanout(n)
    PROVE  \E t2 \in [Conns -> Stage] : Explains(s, t2)'
  <1>1. pc[n] = "fanout" /\ Thread(s, t, n)
    BY DEF Fanout, At, Explains
  <1>2. n = Index
    BY <1>1 DEF Thread
  <1>3. PICK k \in Conns, c \in Client : Hands(s, t, k, c)
    BY <1>1, <1>2, OnFanout
  <1>4. CASE Head(todo).node_id = n
    <2>1. Explains(s, t)'
      BY <1>2, <1>3, <1>4, FanoutLocal
    <2> QED BY <2>1
  <1>5. CASE Head(todo).node_id # n
    BY <1>2, <1>3, <1>5, FanoutDial
  <1> QED BY <1>4, <1>5

-----------------------------------------------------------------------------
(* The fragment that a node is asked for *)

\* There are no more files than clients, and the one from before.
LEMMA FewFiles ==
    ASSUME NEW s \in Stories, NEW t, Numbering(s, t)
    PROVE  DOMAIN files \subseteq FileId
  <1>1. files \in Seq(Name) /\ Len(files) \in Nat /\ Len(files) >= 1 /\ DOMAIN files = 1 .. Len(files)
    BY DEF Numbering
  <1>2. IsFiniteSet(Client) /\ Cardinality(Client) \in Nat
    BY ParameterFacts, FS_CardinalityType
  <1>3. ASSUME Cardinality(Client) < Len(files) - 1 PROVE FALSE
    <2> DEFINE g == [id \in 2 .. Len(files) |-> s.owner[id]]
    <2>1. g \in [2 .. Len(files) -> Client]
      BY DEF Numbering
    <2>2. IsFiniteSet(2 .. Len(files)) /\ Cardinality(2 .. Len(files)) = Len(files) - 1
      <3>1. Len(files) >= 2
        BY <1>1, <1>2, <1>3
      <3> QED BY <1>1, <3>1, FS_Interval
    <2>3. \E x, y \in 2 .. Len(files) : x # y /\ g[x] = g[y]
      <3> HIDE DEF g
      <3> QED BY <1>2, <1>3, <2>1, <2>2, FS_PigeonHole
    <2>4. PICK x, y \in 2 .. Len(files) : x # y /\ s.owner[x] = s.owner[y]
      BY <2>3
    <2>5. s.file[s.owner[x]] = x /\ s.file[s.owner[y]] = y
      BY DEF Numbering
    <2> QED BY <2>4, <2>5
  <1> QED BY <1>1, <1>2, <1>3 DEF FileId

\* File id has been handed out: it is the one from before, or its creation is stored.
Stocked(s, t, id) == id \in DOMAIN files /\ (id = 1 \/ t[Job(s, s.owner[id])] = "stored")

\* Of such a file a node that is not just reading bytes has all that it is to have.
LEMMA InPlace ==
    ASSUME NEW s \in Stories, NEW t \in [Conns -> Stage], Explains(s, t), NEW n \in Node, pc[n] # "raw",
           NEW id, Stocked(s, t, id), NEW j \in 1 .. Copies(files[id]), Copy(files[id], j).node_id = n
    PROVE  Placed(s, t, id, j)
  <1>1. id \in DOMAIN files /\ Numbering(s, t) /\ files \in Seq(Name) /\ Len(files) \in Nat
    BY DEF Stocked, Explains, Numbering
  <1>2. CASE id = 1
    BY <1>2 DEF Placed
  <1>3. CASE id # 1
    <2>1. id \in 2 .. Len(files)
      BY <1>1, <1>3
    <2>2. PICK d \in Client : /\ s.owner[id] = d /\ client[d] # "off" /\ Numbered(s, t, d)
                              /\ s.file[d] = id /\ files[id] = s.want[d]
      BY <1>1, <2>1 DEF Numbering
    <2>3. t[Job(s, d)] = "stored"
      BY <1>3, <2>2 DEF Stocked
    <2>4. files[id] \in Name /\ Copies(files[id]) \in Nat
      BY <1>1, PartsFacts
    <2>5. CASE n = Index
      BY <1>3, <2>2, <2>3, <2>5 DEF Placed, Left
    <2>6. CASE n # Index
      <3>1. Request(s, t, d)
        BY DEF Explains
      <3>2. t[StoreOf(s, d, j)] \in {"raw", "over"}
        BY <2>2, <2>3, <2>6, <3>1 DEF Request, HandedOut
      <3>3. PICK x \in Conns : x = StoreOf(s, d, j)
        BY <2>2, StoreConn
      <3>4. x.kind = "store" /\ x.to = n
        BY <2>2, <3>3, StoreConn
      <3>5. t[x] # "raw"
        <4> SUFFICES ASSUME t[x] = "raw" PROVE FALSE
          OBVIOUS
        <4>1. Link(s, t, x)
          BY Attached
        <4> QED BY <3>4, <4>1 DEF Link, Seat
      <3> QED BY <1>3, <2>2, <2>6, <3>2, <3>3, <3>5 DEF Placed
    <2> QED BY <2>5, <2>6
  <1> QED BY <1>2, <1>3

\* A fragment of file id.
Fragment(s, id, i) == [id |-> i, bytes |-> <<<<s.owner[id], i>>>>]

\* Node n has fragment n of every file that can be read, and finds it.
LEMMA OwnFragment ==
    ASSUME NEW s \in Stories, NEW t \in [Conns -> Stage], Explains(s, t), NEW n \in Node, pc[n] # "raw",
           NEW id, Stocked(s, t, id), n <= Parts[files[id]]
    PROVE  /\ FragmentBytes(n, id, n) = <<<<s.owner[id], n>>>>
           /\ LocalFragment(fs[n][id], n) = Fragment(s, id, n)
  <1>1. /\ id \in DOMAIN files /\ Numbering(s, t) /\ files \in Seq(Name) /\ files[id] \in Name
        /\ Shelves(s, t)
    BY DEF Stocked, Explains, Numbering
  <1>2. id \in FileId
    BY <1>1, FewFiles
  <1>3. Slots(s, t, n, id)
    BY <1>1, <1>2 DEF Shelves
  <1>4. n \in 1 .. Parts[files[id]]
    BY <1>1, PartsFacts, ParameterFacts
  <1>5. PICK j \in 1 .. Copies(files[id]) : Copy(files[id], j).fragment = n /\ Copy(files[id], j).node_id = n
    BY <1>1, <1>4, CopyFacts
  <1>6. j \in On(s, t, n, id)
    BY <1>5, InPlace DEF On
  <1>7. Entry(s, id, j) = Fragment(s, id, n)
    BY <1>5 DEF Entry, Fragment
  <1>8. \A l : Entry(s, id, l).id = n => Entry(s, id, l) = Fragment(s, id, n)
    BY DEF Entry, Fragment
  <1>9. \/ fs[n][id] = <<Fragment(s, id, n)>>
        \/ \E l : fs[n][id] = <<Fragment(s, id, n), Entry(s, id, l)>>
        \/ \E l : fs[n][id] = <<Entry(s, id, l), Fragment(s, id, n)>>
    BY <1>3, <1>6, <1>7 DEF Slots
  <1>10. PICK q : q = fs[n][id]
    OBVIOUS
  <1>11. /\ DOMAIN q = 1 .. Len(q) /\ Len(q) \in {1, 2}
         /\ \A x \in DOMAIN q : q[x].id = n => q[x] = Fragment(s, id, n)
         /\ \E x \in DOMAIN q : q[x].id = n
         /\ Len(q) = 1 => q[1].id = n
    <2>1. Fragment(s, id, n).id = n
      BY DEF Fragment
    <2>2. CASE q = <<Fragment(s, id, n)>>
      BY <2>1, <2>2
    <2>3. CASE \E l : q = <<Fragment(s, id, n), Entry(s, id, l)>>
      BY <1>8, <2>1, <2>3
    <2>4. CASE \E l : q = <<Entry(s, id, l), Fragment(s, id, n)>>
      BY <1>8, <2>1, <2>4
    <2> QED BY <1>9, <1>10, <2>2, <2>3, <2>4
  <1>12. FragmentBytes(n, id, n) = <<<<s.owner[id], n>>>>
    <2> DEFINE has == {x \in DOMAIN q : q[x].id = n}
    <2>1. has \in SUBSET Nat /\ has # {}
      BY <1>11
    <2>2. Least(has) \in has
      <3> HIDE DEF has
      <3> QED BY <2>1, LeastOf
    <2>3. q[Least(has)] = Fragment(s, id, n)
      BY <1>11, <2>2
    <2>4. FragmentBytes(n, id, n) = q[Least(has)].bytes
      BY <1>10 DEF FragmentBytes
    <2> QED BY <2>3, <2>4 DEF Fragment
  <1>13. LocalFragment(q, n) = Fragment(s, id, n)
    <2>1. CASE q[1].id = n
      BY <1>11, <2>1 DEF LocalFragment
    <2>2. CASE q[1].id # n
      <3>1. Len(q) = 2 /\ q[2].id = n
        BY <1>11, <2>2
      <3> QED BY <1>11, <2>2, <3>1 DEF LocalFragment
    <2> QED BY <2>1, <2>2
  <1> QED BY <1>10, <1>12, <1>13

-----------------------------------------------------------------------------
(* The index asks for the fragments of a read *)

\* The index asks for the fragments of the file that client c reads; it has the request on k.
Asks(s, t, k, c) ==
    /\ k = Job(s, c) /\ fd[Index] = k /\ k.to = Index /\ k.c = c /\ t[k] = "asking"
    /\ k \in DOMAIN wire /\ Link(s, t, k) /\ client[c] # "off" /\ ~Dialling(s, t, k)
    /\ Granted(s, t, c) /\ Bound(s, t, k) /\ s.op[c] = "read"
    /\ Stocked(s, t, s.file[c]) /\ files[s.file[c]] = s.want[c]
    /\ ms[Index].file = s.file[c] /\ ms[Index].to = Reader(s, c)
    /\ Len(todo) <= Parts[s.want[c]]
    /\ \A j \in 1 .. Len(todo) : todo[j] = Chosen[s.want[c]][Parts[s.want[c]] - Len(todo) + j]
    /\ \A i \in Parts[s.want[c]] - Len(todo) + 1 .. Parts[s.want[c]] :
         t[AskOf(c, i)] = "none" /\ t[DeliverOf(s, c, i)] = "none"
    /\ \A x \in Conns : t[x] # "fanout"

\* What has been granted can be read: all its copies are in place.
LEMMA GrantedFile ==
    ASSUME NEW s \in Stories, NEW t \in [Conns -> Stage], Explains(s, t), NEW c \in Client,
           client[c] # "off", Granted(s, t, c)
    PROVE  /\ s.op[c] = "read" /\ Stocked(s, t, s.file[c]) /\ files[s.file[c]] = s.want[c]
           /\ ~Numbered(s, t, c) /\ ~Forwarded(s, c) /\ c \notin complete
  <1>1. Request(s, t, c)
    BY DEF Explains
  <1>2. Found(s, t, c) /\ Doing(s, c) /\ (c \in complete <=> t[Job(s, c)] = "stored")
    BY <1>1 DEF Request
  <1>3. s.op[c] = "read" /\ Stocked(s, t, s.file[c]) /\ files[s.file[c]] = s.want[c]
    BY <1>2 DEF Found, Stocked
  <1> QED BY <1>2, <1>3 DEF Granted, Numbered, Doing, Forwarded

\* The index that asks for fragments has one read in hand.
LEMMA OnAsk ==
    ASSUME NEW s \in Stories, NEW t \in [Conns -> Stage], Explains(s, t), pc[Index] = "ask"
    PROVE  \E k \in Conns, c \in Client : Asks(s, t, k, c)
  <1>1. Serves(t, Index, {"asking"}) /\ Inquiry(s, t) /\ Working("ask")
    BY DEF Explains, Inquiry, Working
  <1>2. PICK k \in Conns : k = fd[Index]
    BY <1>1 DEF Serves
  <1>3. PICK c \in Client : c = k.c
    BY ConnType
  <1>4. /\ fd[Index] = k /\ k.to = Index /\ k.c = c /\ t[k] = "asking" /\ k = Job(s, c)
        /\ ms[Index].file = s.file[c] /\ ms[Index].to = Reader(s, c)
        /\ Len(todo) <= Parts[s.want[c]]
        /\ \A j \in 1 .. Len(todo) : todo[j] = Chosen[s.want[c]][Parts[s.want[c]] - Len(todo) + j]
        /\ \A i \in Parts[s.want[c]] - Len(todo) + 1 .. Parts[s.want[c]] :
             t[AskOf(c, i)] = "none" /\ t[DeliverOf(s, c, i)] = "none"
    BY <1>1, <1>2, <1>3 DEF Inquiry, Serves
  <1>5. client[c] # "off" /\ Link(s, t, k) /\ Bound(s, t, k) /\ k \in DOMAIN wire
    BY <1>3, <1>4, Attached
  <1>6. Granted(s, t, c)
    BY <1>4 DEF Granted
  <1>7. s.op[c] = "read" /\ Stocked(s, t, s.file[c]) /\ files[s.file[c]] = s.want[c]
    BY <1>5, <1>6, GrantedFile
  <1>8. ~Dialling(s, t, k)
    BY <1>4 DEF Dialling
  <1>9. \A x \in Conns : t[x] # "fanout"
    <2> SUFFICES ASSUME NEW x \in Conns, t[x] = "fanout" PROVE FALSE
      OBVIOUS
    <2>1. Link(s, t, x) /\ fd[x.to] = x /\ x.kind \in Kinds
      BY Attached, ConnType DEF Seated
    <2>2. x.to = Index
      <3>1. x.kind = "client" => x.to = Index
        BY <2>1 DEF Link, LineTalk
      <3>2. x.kind = "relay" => x.to = Index
        BY <2>1, CallEnds DEF Link
      <3>3. x.kind \in {"client", "relay"}
        BY <2>1 DEF Link, Shape, CallStages, Kinds
      <3> QED BY <3>1, <3>2, <3>3
    <2> QED BY <1>4, <2>1, <2>2
  <1> QED BY <1>4, <1>5, <1>6, <1>7, <1>8, <1>9 DEF Asks

\* The next fragment is the first that has not been asked for; its own node has it.
LEMMA NextPart ==
    ASSUME NEW s \in Stories, NEW t \in [Conns -> Stage], NEW k \in Conns, NEW c \in Client,
           Asks(s, t, k, c), todo \in Seq(Pointer), todo # <<>>
    PROVE  \E i \in 1 .. Parts[s.want[c]] :
           /\ Parts[s.want[c]] - Len(todo) + 1 = i /\ Head(todo).fragment = i /\ Head(todo).node_id = i
           /\ t[AskOf(c, i)] = "none" /\ t[DeliverOf(s, c, i)] = "none"
           /\ Tail(todo) \in Seq(Pointer) /\ Len(Tail(todo)) \in Nat
           /\ Parts[s.want[c]] - Len(Tail(todo)) = i
           /\ \A j \in 1 .. Len(Tail(todo)) :
                Tail(todo)[j] = Chosen[s.want[c]][Parts[s.want[c]] - Len(Tail(todo)) + j]
  <1>1. s.want[c] \in Name /\ Parts[s.want[c]] \in Nat
    BY StoryType, PartsFacts
  <1>2. /\ Len(todo) \in Nat /\ Len(todo) >= 1 /\ Head(todo) = todo[1]
        /\ Tail(todo) \in Seq(Pointer) /\ Len(Tail(todo)) = Len(todo) - 1
        /\ \A j \in 1 .. Len(Tail(todo)) : Tail(todo)[j] = todo[j + 1]
    OBVIOUS
  <1>3. Len(todo) <= Parts[s.want[c]]
    BY DEF Asks
  <1>4. PICK i \in 1 .. Parts[s.want[c]] : i = Parts[s.want[c]] - Len(todo) + 1
    <2>1. Parts[s.want[c]] - Len(todo) + 1 \in 1 .. Parts[s.want[c]]
      <3>1. Len(todo) \in Nat /\ Len(todo) >= 1
        BY <1>2
      <3> QED BY <1>1, <1>3, <3>1
    <2> QED BY <2>1
  <1>5. Head(todo) = Chosen[s.want[c]][i]
    BY <1>2, <1>4 DEF Asks
  <1>6. Head(todo).fragment = i /\ Head(todo).node_id = i
    BY <1>1, <1>5, TableFacts
  <1>7. t[AskOf(c, i)] = "none" /\ t[DeliverOf(s, c, i)] = "none"
    BY <1>1, <1>4 DEF Asks
  <1>8. \A j \in 1 .. Len(Tail(todo)) :
                Tail(todo)[j] = Chosen[s.want[c]][Parts[s.want[c]] - Len(Tail(todo)) + j]
    <2> SUFFICES ASSUME NEW j \in 1 .. Len(Tail(todo))
                 PROVE  Tail(todo)[j] = Chosen[s.want[c]][Parts[s.want[c]] - Len(Tail(todo)) + j]
      OBVIOUS
    <2>1. j + 1 \in 1 .. Len(todo)
      BY <1>2
    <2>2. todo[j + 1] = Chosen[s.want[c]][Parts[s.want[c]] - Len(todo) + (j + 1)]
      BY <2>1 DEF Asks
    <2>3. Parts[s.want[c]] - Len(todo) + (j + 1) = Parts[s.want[c]] - Len(Tail(todo)) + j
      <3>1. /\ Parts[s.want[c]] \in Int /\ Len(todo) \in Int /\ j \in Int
            /\ Len(Tail(todo)) = Len(todo) - 1
        BY <1>1, <1>2
      <3>2. \A p, l, m, q \in Int : m = l - 1 => p - l + (q + 1) = p - m + q
        OBVIOUS
      <3> QED BY <3>1, <3>2, SMTT(30)
    <2> QED BY <1>2, <2>2, <2>3
  <1>9. Len(Tail(todo)) \in Nat /\ Parts[s.want[c]] - Len(Tail(todo)) = i
    BY <1>1, <1>2, <1>4
  <1> QED BY <1>2, <1>4, <1>6, <1>7, <1>8, <1>9

\* The rest of the work is like the work before.
LEMMA InquiryNext ==
    ASSUME NEW s \in Stories, NEW t \in [Conns -> Stage], Explains(s, t), NEW t2 \in [Conns -> Stage],
           NEW k \in Conns, NEW c \in Client, Asks(s, t, k, c), todo # <<>>, todo' = Tail(todo),
           fd' = fd, ms' = ms, t2[k] = t[k],
           \A x \in Conns : t2[x] # t[x] => x.i = Parts[s.want[c]] - Len(todo) + 1
    PROVE  Inquiry(s, t2)'
  <1>1. todo \in Seq(Pointer)
    BY DEF Explains, Typed
  <1>2. PICK i \in 1 .. Parts[s.want[c]] :
           /\ Parts[s.want[c]] - Len(todo) + 1 = i /\ Len(todo') \in Nat /\ Parts[s.want[c]] - Len(todo') = i
           /\ \A j \in 1 .. Len(todo') :
                todo'[j] = Chosen[s.want[c]][Parts[s.want[c]] - Len(todo') + j]
    BY <1>1, NextPart
  <1>3. s.want[c] \in Name /\ Parts[s.want[c]] \in Nat /\ i \in Nat /\ i >= 1
    BY <1>2, StoryType, PartsFacts
  <1>4. /\ k = Job(s, c) /\ fd'[Index] = k /\ k.to = Index /\ k.c = c /\ t2[k] = "asking"
        /\ ms'[Index].file = s.file[c] /\ ms'[Index].to = Reader(s, c)
    BY DEF Asks
  <1>5. \A l \in Parts[s.want[c]] - Len(todo') + 1 .. Parts[s.want[c]] :
          t2[AskOf(c, l)] = "none" /\ t2[DeliverOf(s, c, l)] = "none"
    <2> SUFFICES ASSUME NEW l \in Parts[s.want[c]] - Len(todo') + 1 .. Parts[s.want[c]]
                 PROVE  t2[AskOf(c, l)] = "none" /\ t2[DeliverOf(s, c, l)] = "none"
      OBVIOUS
    <2>1. l \in i + 1 .. Parts[s.want[c]] /\ l \in 1 .. Parts[s.want[c]] /\ l # i
      BY <1>2, <1>3
    <2>2. l \in Parts[s.want[c]] - Len(todo) + 1 .. Parts[s.want[c]]
      BY <1>2, <1>3, <2>1
    <2>3. l \in Node
      BY <1>3, <2>1, PartsFacts
    <2>4. t[AskOf(c, l)] = "none" /\ t[DeliverOf(s, c, l)] = "none"
      BY <2>2 DEF Asks
    <2> QED BY <1>2, <2>1, <2>3, <2>4, ConnsOf
  <1>6. Serves(t2, Index, {"asking"})'
    BY <1>4 DEF Serves
  <1>7. Len(todo') <= Parts[s.want[c]]
    BY <1>2, <1>3
  <1>8. fd'[Index].c = c /\ fd'[Index] = Job(s, c)
    BY <1>4
  <1> QED BY <1>2, <1>4, <1>5, <1>6, <1>7, <1>8 DEF Inquiry

\* While a fragment is missing, the client's node waits for the answer or collects.
LEMMA WaitsForParts ==
    ASSUME NEW s \in Stories, NEW t \in [Conns -> Stage], Explains(s, t), NEW c \in Client,
           client[c] # "off", Granted(s, t, c), s.home[c] # Index,
           NEW i \in 1 .. Parts[s.want[c]], t[DeliverOf(s, c, i)] \notin Delivered
    PROVE  t[LineOf(s, c)] \in {"answer", "collect"}
  <1>1. Request(s, t, c)
    BY DEF Explains
  <1>2. /\ Progress(s, t, c) /\ Doing(s, c) /\ Fetch(s, t, c, i) /\ s.op[c] = "read"
    BY <1>1, GrantedFile DEF Request
  <1>3. PICK l \in Conns : l = LineOf(s, c)
    BY ConnsOf
  <1>4. l.kind = "client" /\ l.c = c /\ l.to = s.home[c]
    BY <1>3, ConnsOf
  <1>5. t[l] # "none"
    BY <1>2, <1>3 DEF Progress
  <1>6. Link(s, t, l)
    BY <1>5, Attached
  <1>7. t[l] \in LineStages
    BY <1>4, <1>6 DEF Link, Shape
  <1>8. t[RelayOf(s, c)] \in {"asking", "asked"}
    BY DEF Granted, Job
  <1>9. t[l] \notin {"queued", "identify", "open", "packet", "relay", "refused"}
    BY <1>2, <1>3, <1>8 DEF Progress
  <1>10. t[l] \notin {"raw", "passed"}
    BY <1>2, <1>4, <1>6 DEF Link, LineTalk, Taken, Is, Doing
  <1>11. t[l] \notin {"fanout", "stored", "asking", "asked"}
    BY <1>4, <1>6 DEF Link, LineTalk
  <1>12. t[l] \notin {"hand_over", "served"}
    BY <1>2, <1>3 DEF Fetch
  <1> QED BY <1>3, <1>7, <1>9, <1>10, <1>11, <1>12 DEF LineStages

\* A call about fragment i begins.
CallsFor(s, t, t2, c, i, x) ==
    /\ x \in Conns /\ x \in {AskOf(c, i), DeliverOf(s, c, i)} /\ t[x] = "none" /\ t2[x] = "queued"
    /\ t[DeliverOf(s, c, i)] = "none"
    /\ x = DeliverOf(s, c, i) =>
         /\ s.home[c] # Index
         /\ t2[AskOf(c, i)] \notin {"queued", "identify", "hello", "said", "packet"}
    /\ \A y \in Conns \ {x, AskOf(c, i)} : t2[y] = t[y]

\* A request for which a call begins stays where it is.
LEMMA CallsRequest ==
    ASSUME NEW s \in Stories, NEW t \in [Conns -> Stage], Explains(s, t), NEW t2 \in [Conns -> Stage],
           NEW c \in Client, client[c] # "off", Granted(s, t, c), NEW n \in Node, Elsewhere(n),
           pc[n] \notin Collecting, NEW i \in 1 .. Parts[s.want[c]], NEW x, CallsFor(s, t, t2, c, i, x),
           UNCHANGED <<client, got, at, files, complete>>,
           wire'[RelayOf(s, c)].down = wire[RelayOf(s, c)].down \/ t[RelayOf(s, c)] = "none"
    PROVE  Request(s, t2, c)'
  <1>1. Request(s, t, c) /\ Numbering(s, t)
    BY DEF Explains
  <1>2. s.want[c] \in Name /\ i \in Node /\ \A l \in 1 .. Parts[s.want[c]] : l \in Node
    BY StoryType, PartsFacts
  <1>3. x \in Conns /\ AskOf(c, i) \in Conns /\ x.kind \in {"ask", "deliver"} /\ AskOf(c, i).kind = "ask"
        /\ x.i = i /\ AskOf(c, i).i = i
    BY <1>2, ConnsOf DEF CallsFor
  <1>4. \A y \in Conns : y.kind \notin {"ask", "deliver"} => t2[y] = t[y]
    BY <1>3 DEF CallsFor
  <1>5. t2[LineOf(s, c)] = t[LineOf(s, c)] /\ t2[RelayOf(s, c)] = t[RelayOf(s, c)]
    BY <1>4, ConnsOf
  <1>6. ASSUME NEW l \in 1 .. Parts[s.want[c]], s.home[c] # Index PROVE Fetch(s, t2, c, l)
    <2>1. Fetch(s, t, c, l) /\ l \in Node
      BY <1>1, <1>2, <1>6 DEF Request
    <2>2. CASE l # i
      <3>1. DeliverOf(s, c, l) \notin {x, AskOf(c, i)} /\ AskOf(c, l) \notin {x, AskOf(c, i)}
        BY <1>3, <2>2, ConnsOf
      <3>2. t2[DeliverOf(s, c, l)] = t[DeliverOf(s, c, l)] /\ t2[AskOf(c, l)] = t[AskOf(c, l)]
        BY <2>1, <3>1, ConnsOf DEF CallsFor
      <3> QED BY <1>5, <2>1, <3>2 DEF Fetch
    <2>3. CASE l = i
      <3>1. t[LineOf(s, c)] \in {"answer", "collect"}
        BY <1>6, WaitsForParts DEF CallsFor, Delivered
      <3>2. DeliverOf(s, c, i) \in Conns /\ DeliverOf(s, c, i) # AskOf(c, i)
        BY <1>2, ConnsOf
      <3>3. CASE x = DeliverOf(s, c, i)
        BY <1>5, <2>3, <3>1, <3>3 DEF Fetch, CallsFor, Delivered
      <3>4. CASE x # DeliverOf(s, c, i)
        <4>1. t2[DeliverOf(s, c, i)] = "none"
          BY <3>2, <3>4 DEF CallsFor
        <4> QED BY <1>5, <2>3, <3>1, <4>1 DEF Fetch, Undelivered, Delivered
      <3> QED BY <3>3, <3>4
    <2> QED BY <2>2, <2>3
  <1>7. Tally(s, t2, c)'
    <2>1. s.home[c] = n => t[LineOf(s, c)] # "collect"
      BY <1>1 DEF Request, Tally
    <2>2. ASSUME NEW l \in Node
          PROVE  t2[DeliverOf(s, c, l)] \in Delivered <=> t[DeliverOf(s, c, l)] \in Delivered
      <3>1. DeliverOf(s, c, l) \in Conns /\ DeliverOf(s, c, l) # AskOf(c, i)
        BY <1>2, ConnsOf
      <3>2. CASE DeliverOf(s, c, l) = x
        BY <3>2 DEF CallsFor, Delivered
      <3>3. CASE DeliverOf(s, c, l) # x
        BY <3>1, <3>3 DEF CallsFor
      <3> QED BY <3>2, <3>3
    <2> QED BY <1>1, <1>5, <2>1, <2>2, TallyAgain
  <1>8. HandedOut(s, t2, c)
    <2>1. Job(s, c) \in Conns /\ Job(s, c).kind \in {"client", "relay"}
      BY ConnsOf
    <2> QED BY <1>4, <2>1 DEF HandedOut, Granted
  <1>9. \A y \in Conns : t[y] = "stored" => t2[y] = "stored"
    <2>1. ASSUME NEW y \in Conns, t[y] = "stored" PROVE y.kind \notin {"ask", "deliver"}
      BY <2>1, Attached DEF Link, Shape, CallStages
    <2> QED BY <1>4, <2>1
  <1>10. t[RelayOf(s, c)] \in {"asking", "asked", "refused"} =>
             wire'[RelayOf(s, c)].down = wire[RelayOf(s, c)].down
    OBVIOUS
  <1>11. c \in complete' <=> c \in complete
    OBVIOUS
  <1> QED BY <1>1, <1>5, <1>6, <1>7, <1>8, <1>9, <1>10, <1>11, RequestAgain

\* kk calls on x, about fragment i of that file.
Calling(s, c, i, kk, x) ==
    /\ x.c = c /\ x.i = i /\ x.from = Index /\ x.to # Index /\ x.to # Nowhere /\ x.kind \in {"ask", "deliver"}
    /\ (x.kind = "deliver" => x = DeliverOf(s, c, i) /\ s.home[c] # Index)
    /\ (x.kind = "ask" => x = AskOf(c, i) /\ i # Index /\ i # s.home[c])
    /\ kk = [conn |-> x, script |-> Full(s, x), confirm |-> TRUE, ret |-> "ask"]

\* The call that the index makes for fragment i: to the holder, or its own fragment to the reader.
LEMMA PartCalled ==
    ASSUME NEW s \in Stories, NEW t \in [Conns -> Stage], Explains(s, t), pc[Index] = "ask",
           NEW k \in Conns, NEW c \in Client, Asks(s, t, k, c), NEW i \in 1 .. Parts[s.want[c]],
           NEW p, p.fragment = i, p.node_id = i, NEW kk, kk = FragmentCall(Index, c, s.file[c], p, Reader(s, c))
    PROVE  /\ (i = Index /\ s.home[c] = Index) => kk.conn.to = Nowhere
           /\ ~(i = Index /\ s.home[c] = Index) =>
                \E x \in Conns : Calling(s, c, i, kk, x)
  <1>1. s.want[c] \in Name /\ i \in Node /\ i # Nowhere /\ s.home[c] \in Node
    BY StoryType, PartsFacts, ParameterFacts
  <1>2. Nowhere \notin Node
    BY ParameterFacts
  <1>3. CASE i = Index /\ s.home[c] = Index
    <2>1. kk = SendFragment(Index, c, s.file[c], i, Nowhere, "ask")
      BY <1>1, <1>3 DEF FragmentCall, Reader
    <2> QED BY <1>3, <2>1, ConnFacts DEF SendFragment
  <1>4. CASE i = Index /\ s.home[c] # Index
    <2>1. kk = SendFragment(Index, c, s.file[c], i, s.home[c], "ask")
      BY <1>1, <1>4 DEF FragmentCall, Reader
    <2>2. PICK x \in Conns : x = DeliverOf(s, c, i)
      BY <1>1, ConnsOf
    <2>3. x.kind = "deliver" /\ x.c = c /\ x.i = i /\ x.from = Index /\ x.to = s.home[c]
      BY <1>4, <2>2, ConnsOf
    <2>4. Conn("deliver", c, i, Index, s.home[c]) = x
      BY <1>4, <2>2 DEF DeliverOf
    <2>5. FragmentBytes(Index, s.file[c], i) = <<<<s.owner[s.file[c]], i>>>>
      <3>1. Stocked(s, t, s.file[c]) /\ Index <= Parts[files[s.file[c]]]
        BY <1>1, <1>4, PartsFacts DEF Asks
      <3> QED BY <1>4, <3>1, OwnFragment, ParameterFacts
    <2>6. Full(s, x) = <<DeclareFrag(s.file[c], i), Raw(FragmentBytes(Index, s.file[c], i))>>
      BY <1>4, <2>3, <2>5 DEF Full, HasBytes, First, Second
    <2>7. kk = [conn |-> x, script |-> Full(s, x), confirm |-> TRUE, ret |-> "ask"]
      BY <2>1, <2>4, <2>6 DEF SendFragment
    <2> QED BY <1>1, <1>2, <1>4, <2>2, <2>3, <2>7 DEF Calling
  <1>5. CASE i # Index /\ i = s.home[c]
    <2>1. kk = SendUseLocal(Index, c, i, i)
      BY <1>1, <1>5 DEF FragmentCall, Reader
    <2>2. PICK x \in Conns : x = DeliverOf(s, c, i)
      BY <1>1, ConnsOf
    <2>3. x.kind = "deliver" /\ x.c = c /\ x.i = i /\ x.from = Index /\ x.to = s.home[c]
      BY <1>5, <2>2, ConnsOf
    <2>4. Conn("deliver", c, i, Index, i) = x
      BY <1>5, <2>2 DEF DeliverOf
    <2>5. Full(s, x) = <<UseLocal(i)>>
      BY <1>5, <2>3 DEF Full, HasBytes, First
    <2>6. kk = [conn |-> x, script |-> Full(s, x), confirm |-> TRUE, ret |-> "ask"]
      BY <2>1, <2>4, <2>5 DEF SendUseLocal
    <2> QED BY <1>1, <1>2, <1>5, <2>2, <2>3, <2>6 DEF Calling
  <1>6. CASE i # Index /\ i # s.home[c]
    <2>1. kk = SendRequestFragment(Index, c, s.file[c], i, i, Reader(s, c))
      <3>1. p.node_id # Reader(s, c) /\ p.node_id \notin {Reader(s, c), Index} /\ p.node_id # Index
        BY <1>1, <1>6 DEF Reader
      <3> QED BY <3>1 DEF FragmentCall
    <2>2. PICK x \in Conns : x = AskOf(c, i)
      BY <1>1, ConnsOf
    <2>3. x.kind = "ask" /\ x.c = c /\ x.i = i /\ x.from = Index /\ x.to = i
      BY <2>2, ConnsOf
    <2>4. Conn("ask", c, i, Index, i) = x
      BY <2>2 DEF AskOf
    <2>5. Full(s, x) = <<RequestFrag(s.file[c], i, Reader(s, c))>>
      BY <2>3 DEF Full, HasBytes, First
    <2>6. kk = [conn |-> x, script |-> Full(s, x), confirm |-> TRUE, ret |-> "ask"]
      BY <2>1, <2>4, <2>5 DEF SendRequestFragment
    <2> QED BY <1>1, <1>2, <1>6, <2>2, <2>3, <2>6 DEF Calling
  <1> QED BY <1>3, <1>4, <1>5, <1>6

\* The connection that the index has the request on does not change with the next call.
LEMMA AsksOn ==
    ASSUME NEW s \in Stories, NEW t \in [Conns -> Stage], NEW t2 \in [Conns -> Stage],
           NEW k \in Conns, NEW c \in Client, Asks(s, t, k, c), t2[k] = t[k], wire'[k] = wire[k],
           pc'[Index] \in {"ask", "call"}, fd' = fd, client' = client
    PROVE  Link(s, t2, k)'
  <1>1. /\ Link(s, t, k) /\ k.to = Index /\ fd[Index] = k /\ k.c = c /\ t[k] = "asking" /\ s.op[c] = "read"
        /\ k = Job(s, c)
    BY DEF Asks
  <1>2. Shape(s, t2, k)
    BY <1>1 DEF Link, Shape
  <1>3. Seat(t2, k)'
    BY <1>1 DEF Seat
  <1>4. Caller(s, t2, k)' /\ CallTalk(s, t2, k)'
    BY <1>1 DEF Caller, Dialling, CallTalk
  <1>5. LineTalk(s, t2, k)'
    BY <1>1 DEF Link, LineTalk, Promised, Is, Has
  <1>6. RelayTalk(s, t2, k)'
    BY <1>1 DEF RelayTalk
  <1> QED BY <1>1, <1>2, <1>3, <1>4, <1>5, <1>6 DEF Link

\* The index makes that call.
LEMMA RequestFragmentsDial ==
    ASSUME NEW s \in Stories, NEW t \in [Conns -> Stage], Explains(s, t), NEW n \in Node, n = Index,
           RequestFragments(n), NEW k \in Conns, NEW c \in Client, Asks(s, t, k, c),
           NEW i \in 1 .. Parts[s.want[c]], i = Parts[s.want[c]] - Len(todo) + 1, Tail(todo) \in Seq(Pointer),
           t[AskOf(c, i)] = "none", t[DeliverOf(s, c, i)] = "none",
           NEW x \in Conns, x.c = c, x.i = i, x.from = n, x.to # n, x.to # Nowhere, x.kind \in {"ask", "deliver"},
           x.kind = "deliver" => x = DeliverOf(s, c, i) /\ s.home[c] # Index,
           x.kind = "ask" => x = AskOf(c, i) /\ i # Index /\ i # s.home[c],
           FragmentCall(n, fd[n].c, ms[n].file, Head(todo), ms[n].to) =
              [conn |-> x, script |-> Full(s, x), confirm |-> TRUE, ret |-> "ask"]
    PROVE  \E t2 \in [Conns -> Stage] : Explains(s, t2)'
  <1>1. /\ Thread(s, t, n) /\ Typed /\ todo \in Seq(Pointer) /\ Numbering(s, t) /\ Shelves(s, t)
        /\ DOMAIN wire = {y \in Conns : t[y] # "none"}
    BY DEF Explains, Typed
  <1>2. /\ k = Job(s, c) /\ fd[n] = k /\ k.to = n /\ k.c = c /\ t[k] = "asking" /\ Link(s, t, k)
        /\ Bound(s, t, k) /\ client[c] # "off" /\ Granted(s, t, c) /\ ~Dialling(s, t, k)
        /\ k \in DOMAIN wire /\ k.kind \notin {"ask", "deliver"} /\ \A y \in Conns : t[y] # "fanout"
    BY ConnsOf DEF Asks
  <1>3. /\ pc[n] = "ask" /\ todo # <<>> /\ todo' = Tail(todo)
        /\ Dial(n, wire, [conn |-> x, script |-> Full(s, x), confirm |-> TRUE, ret |-> "ask"])
        /\ UNCHANGED <<fd, client_fd, packet, ms, data, user, merged, strayed>>
    <2>1. [conn |-> x, script |-> Full(s, x), confirm |-> TRUE, ret |-> "ask"].conn = x
      OBVIOUS
    <2> QED BY <2>1 DEF RequestFragments, At
  <1>4. /\ wire' = Opened(wire, x, <<Present>>)
        /\ backlog' = [backlog EXCEPT ![x.to] = Append(@, x)]
        /\ call' = [call EXCEPT ![n] = [conn |-> x, script |-> Full(s, x), confirm |-> TRUE, ret |-> "ask"]]
        /\ pc' = [pc EXCEPT ![n] = "call"]
    BY <1>3 DEF Dial, Goto
  <1>5. x.to \in Node
    BY ConnType
  <1>6. /\ DOMAIN pc' = Node /\ pc'[n] = "call" /\ \A m \in Node \ {n} : pc'[m] = pc[m]
        /\ DOMAIN call' = Node /\ \A m \in Node \ {n} : call'[m] = call[m]
        /\ call'[n] = [conn |-> x, script |-> Full(s, x), confirm |-> x.kind \in {"ask", "deliver"},
                       ret |-> Return(x)]
        /\ DOMAIN backlog' = Node
    <2>1. (x.kind \in {"ask", "deliver"}) = TRUE /\ Return(x) = "ask"
      BY <1>2 DEF Return
    <2>2. DOMAIN pc = Node /\ DOMAIN call = Node /\ DOMAIN backlog = Node
      BY <1>1 DEF Typed
    <2>3. call'[n] = [conn |-> x, script |-> Full(s, x), confirm |-> TRUE, ret |-> "ask"]
      BY <1>4, <2>2
    <2>4. call'[n] = [conn |-> x, script |-> Full(s, x), confirm |-> x.kind \in {"ask", "deliver"},
                      ret |-> Return(x)]
      BY <2>1, <2>3, Zenon
    <2> QED BY <1>4, <2>2, <2>4
  <1>7. t[x] = "none" /\ x \in {AskOf(c, i), DeliverOf(s, c, i)}
    OBVIOUS
  <1>8. PICK t2 \in [Conns -> Stage] : t2[x] = "queued" /\ SameBut(t, t2, x)
    <2>1. "queued" \in Stage
      BY DEF Stage, LineStages
    <2> QED BY <2>1, Advance
  <1>9. \A y \in Conns \ {x} : t2[y] = t[y]
    BY <1>8 DEF SameBut
  <1>10. UNCHANGED <<client, got, at, files, complete, fs, fd, client_fd, packet, ms>> /\ files' = files
         /\ fd' = fd /\ ms' = ms /\ client' = client
    BY <1>3 DEF user, data
  <1>11. Elsewhere(n) /\ Typed'
    BY <1>1, <1>3, <1>6 DEF Elsewhere, Typed, user, data
  <1>12. Opens(wire, wire', x, <<Present>>) /\ Pushes(x) /\ SameBut(wire, wire, k)
    BY <1>4, WireOpened DEF Pushes, SameBut
  <1>13. k # x /\ t2[k] = t[k] /\ wire'[k] = wire[k]
    BY <1>2, <1>9, <1>12 DEF Opens
  <1>14. Link(s, t2, k)'
    BY <1>6, <1>10, <1>13, AsksOn
  <1>15. IsCall(s, x) /\ Shape(s, t2, x)
    BY <1>8 DEF IsCall, Shape, CallStages
  <1>16. t2[Job(s, c)] = t[Job(s, c)]
    BY <1>2, <1>13
  <1>17. Bound(s, t2, k) /\ Bound(s, t2, x) /\ (Granted(s, t, c) => Granted(s, t2, c))
         /\ (Numbered(s, t, c) => Numbered(s, t2, c))
    BY <1>2, <1>16 DEF Bound, Granted, Numbered
  <1>18. Request(s, t2, c)'
    <2>1. CallsFor(s, t, t2, c, i, x)
      <3>1. AskOf(c, i).kind = "ask" /\ DeliverOf(s, c, i).kind = "deliver"
        BY ConnsOf
      <3>2. i \in Node
        BY StoryType, PartsFacts
      <3>3. AskOf(c, i) \in Conns
        BY <3>2, ConnsOf
      <3>4. x = DeliverOf(s, c, i) => s.home[c] # Index /\ t2[AskOf(c, i)] = "none"
        BY <1>9, <3>1, <3>3
      <3> QED BY <1>7, <1>8, <1>9, <3>4 DEF CallsFor
    <2>2. pc[n] \notin Collecting
      BY <1>3 DEF Collecting
    <2>3. wire'[RelayOf(s, c)].down = wire[RelayOf(s, c)].down \/ t[RelayOf(s, c)] = "none"
      <3>1. RelayOf(s, c) \in Conns /\ RelayOf(s, c) # x
        BY ConnsOf
      <3> QED BY <1>1, <1>12, <3>1 DEF Opens
    <2> QED BY <1>2, <1>10, <1>11, <2>1, <2>2, <2>3, CallsRequest
  <1>19. Inquiry(s, t2)'
    <2>1. \A y \in Conns : t2[y] # t[y] => y.i = Parts[s.want[c]] - Len(todo) + 1
      BY <1>9
    <2>2. todo # <<>> /\ todo' = Tail(todo)
      BY <1>3
    <2> QED BY <1>10, <1>13, <2>1, <2>2, InquiryNext
  <1>20. Handout(s, t2)'
    BY <1>6, <1>2 DEF Handout, Working, Return
  <1>21. Numbering(s, t2)'
    <2>1. \A y \in Conns : t2[y] \in {"fanout", "stored"} <=> t[y] \in {"fanout", "stored"}
      BY <1>7, <1>8, <1>9
    <2> QED BY <1>10, <2>1, FilesApart
  <1>22. Shelves(s, t2)'
    <2>1. UNCHANGED <<files, fs>>
      BY <1>10
    <2>2. \A y \in Conns : t[y] # "fanout"
      BY <1>2
    <2>3. /\ \A y \in Conns : t2[y] = "stored" <=> t[y] = "stored"
          /\ \A y \in Conns : y.kind = "store" => (t2[y] = "over" <=> t[y] = "over")
      BY <1>7, <1>8, <1>9
    <2> QED BY <2>1, <2>2, <2>3, ShelvesApart
  <1>23. /\ \A y \in Conns \ {k, x} : t2[y] = t[y]
         /\ UNCHANGED <<client, got, at, files, complete>> /\ fd' = fd /\ client_fd' = client_fd
         /\ t[k] \notin {"none", "queued", "stored"} /\ t2[k] # "none"
         /\ (~Dialling(s, t, k) \/ k.from = n \/ Dialling(s, t2, k))
         /\ pc[n] \in {"fanout", "ask", "packet"} /\ t2[k] \notin {"none", "queued", "identify"}
         /\ (k = LineOf(s, c) /\ Forwarded(s, c) => wire[k].up = <<>>)
    <2>1. ~Forwarded(s, c)
      BY <1>2, GrantedFile
    <2> QED BY <1>2, <1>3, <1>9, <1>10, <1>13, <2>1
  <1> QED BY <1>2, <1>6, <1>7, <1>8, <1>11, <1>12, <1>14, <1>15, <1>17, <1>18, <1>19, <1>20, <1>21,
             <1>22, <1>23, OneCall, ZenonT(60)

\* The node that asked is none: the fragment of the index is passed over.
LEMMA RequestFragmentsSkip ==
    ASSUME NEW s \in Stories, NEW t \in [Conns -> Stage], Explains(s, t), NEW n \in Node, n = Index,
           RequestFragments(n), NEW k \in Conns, NEW c \in Client, Asks(s, t, k, c), Tail(todo) \in Seq(Pointer),
           FragmentCall(n, fd[n].c, ms[n].file, Head(todo), ms[n].to).conn.to = Nowhere
    PROVE  Explains(s, t)'
  <1>1. /\ Thread(s, t, n) /\ Typed /\ Numbering(s, t) /\ Shelves(s, t) /\ Request(s, t, c)
        /\ DOMAIN wire = {y \in Conns : t[y] # "none"}
    BY DEF Explains
  <1>2. /\ k = Job(s, c) /\ fd[n] = k /\ k.to = n /\ k.c = c /\ t[k] = "asking"
        /\ Bound(s, t, k) /\ client[c] # "off" /\ Granted(s, t, c) /\ \A y \in Conns : t[y] # "fanout"
    BY DEF Asks
  <1>3. /\ pc[n] = "ask" /\ todo # <<>> /\ todo' = Tail(todo)
        /\ UNCHANGED <<net, pc, call, fd, client_fd, packet, ms, data, user, merged, strayed>>
    BY DEF RequestFragments, At
  <1>4. /\ UNCHANGED <<client, got, at, backlog>> /\ UNCHANGED <<client, got, at, files, complete, fs, wire, ms, pc, fd>>
        /\ files' = files /\ fd' = fd /\ ms' = ms /\ wire' = wire /\ pc' = pc /\ client' = client
    BY <1>3 DEF user, data, net
  <1>5. Elsewhere(n) /\ Typed'
    BY <1>1, <1>3 DEF Elsewhere, Typed, user, data, net
  <1>6. Link(s, t, k)'
    <2>1. pc'[Index] \in {"ask", "call"} /\ wire'[k] = wire[k]
      BY <1>3, <1>4
    <2> QED BY <1>4, <2>1, AsksOn
  <1>7. Thread(s, t, n)'
    BY <1>1, <1>3 DEF Thread
  <1>8. Inquiry(s, t)'
    <2>1. \A y \in Conns : t[y] # t[y] => y.i = Parts[s.want[c]] - Len(todo) + 1
      OBVIOUS
    <2>2. todo # <<>> /\ todo' = Tail(todo)
      BY <1>3
    <2> QED BY <1>4, <2>1, <2>2, InquiryNext
  <1>9. Handout(s, t)'
    BY <1>3, <1>4 DEF Handout, Working
  <1>10. Numbering(s, t)'
    BY <1>4, FilesApart
  <1>11. Shelves(s, t)'
    <2>1. UNCHANGED <<files, fs>> /\ \A y \in Conns : t[y] # "fanout"
      BY <1>2, <1>4
    <2> QED BY <2>1, ShelvesApart
  <1>12. Request(s, t, c)'
    <2>1. \A y \in Conns : y.c = c => Alike(s, t[y], t[y], y)
      BY DEF Alike
    <2>2. \A id \in DOMAIN files : id \in DOMAIN files' /\ files'[id] = files[id]
      BY <1>4
    <2>3. t[LineOf(s, c)] = "collect" => pc'[s.home[c]] \in Collecting /\ ms'[s.home[c]] = ms[s.home[c]]
      BY <1>1, <1>2, <1>4 DEF Request, Tally
    <2>4. /\ client'[c] = client[c] /\ got'[c] = got[c] /\ at'[c] = at[c] /\ (c \in complete' <=> c \in complete)
          /\ wire'[RelayOf(s, c)].down = wire[RelayOf(s, c)].down
      BY <1>4
    <2> QED BY <1>1, <2>1, <2>2, <2>3, <2>4, RequestFrame
  <1>13. Ripple(s, t, t, n)
    BY DEF Ripple
  <1>14. SameBut(t, t, k) /\ SameBut(wire, wire', k)
    BY <1>4 DEF SameBut
  <1>15. /\ t[k] \notin {"none", "queued", "stored"} /\ t[k] # "none"
         /\ (k = LineOf(s, c) /\ Forwarded(s, c) => wire'[k].up = <<>>)
         /\ (pc[n] \notin {"idle", "collect"} => fd[n] = k) /\ (pc[n] = "call" => call[n].conn = k)
         /\ \A d \in Client \ {c} : d \in complete' <=> d \in complete
         /\ (pc[n] \in Collecting => \/ pc'[n] \in Collecting /\ ms'[n] = ms[n]
                                    \/ ms[n].from = LineOf(s, c))
         /\ \A id \in DOMAIN files : id \in DOMAIN files' /\ files'[id] = files[id]
    <2>1. ~Forwarded(s, c)
      BY <1>2, GrantedFile
    <2> QED BY <1>2, <1>3, <1>4, <2>1
  <1> QED BY <1>2, <1>4, <1>5, <1>6, <1>7, <1>8, <1>9, <1>10, <1>11, <1>12, <1>13, <1>14, <1>15,
             OneConn, ZenonT(60)

\* One pointer of the file is asked for, or skipped when the index reads for itself.
LEMMA RequestFragmentsStep ==
    ASSUME NEW s \in Stories, NEW t \in [Conns -> Stage], Explains(s, t), NEW n \in Node, RequestFragments(n)
    PROVE  \E t2 \in [Conns -> Stage] : Explains(s, t2)'
  <1>1. pc[n] = "ask" /\ Thread(s, t, n) /\ todo \in Seq(Pointer) /\ todo # <<>>
    BY DEF RequestFragments, At, Explains, Typed
  <1>2. n = Index
    BY <1>1 DEF Thread
  <1>3. PICK k \in Conns, c \in Client : Asks(s, t, k, c)
    BY <1>1, <1>2, OnAsk
  <1>4. PICK i \in 1 .. Parts[s.want[c]] :
           /\ Parts[s.want[c]] - Len(todo) + 1 = i /\ Head(todo).fragment = i /\ Head(todo).node_id = i
           /\ t[AskOf(c, i)] = "none" /\ t[DeliverOf(s, c, i)] = "none" /\ Tail(todo) \in Seq(Pointer)
    BY <1>1, <1>3, NextPart
  <1>5. fd[n].c = c /\ ms[n].file = s.file[c] /\ ms[n].to = Reader(s, c)
    BY <1>2, <1>3 DEF Asks
  <1>6. PICK kk : kk = FragmentCall(n, c, s.file[c], Head(todo), Reader(s, c))
    OBVIOUS
  <1>7. PICK p : p = Head(todo)
    OBVIOUS
  <1>8. kk = FragmentCall(Index, c, s.file[c], p, Reader(s, c)) /\ p.fragment = i /\ p.node_id = i
    BY <1>2, <1>4, <1>6, <1>7
  <1>9. kk = FragmentCall(n, fd[n].c, ms[n].file, Head(todo), ms[n].to)
    BY <1>5, <1>6
  <1>10. CASE i = Index /\ s.home[c] = Index
    <2>1. kk.conn.to = Nowhere
      BY <1>1, <1>2, <1>3, <1>8, <1>10, PartCalled
    <2>2. Explains(s, t)'
      BY <1>2, <1>3, <1>4, <1>9, <2>1, RequestFragmentsSkip
    <2> QED BY <2>2
  <1>11. CASE ~(i = Index /\ s.home[c] = Index)
    <2>0. pc[Index] = "ask"
      BY <1>1, <1>2
    <2>1. PICK x \in Conns : Calling(s, c, i, kk, x)
      BY <1>3, <1>8, <1>11, <2>0, PartCalled
    <2>2. FragmentCall(n, fd[n].c, ms[n].file, Head(todo), ms[n].to) =
              [conn |-> x, script |-> Full(s, x), confirm |-> TRUE, ret |-> "ask"]
      BY <1>9, <2>1 DEF Calling
    <2>3. /\ x.c = c /\ x.i = i /\ x.to # Nowhere /\ x.kind \in {"ask", "deliver"}
          /\ (x.kind = "deliver" => x = DeliverOf(s, c, i) /\ s.home[c] # Index)
          /\ (x.kind = "ask" => x = AskOf(c, i) /\ i # Index /\ i # s.home[c])
          /\ i = Parts[s.want[c]] - Len(todo) + 1 /\ x.from = n /\ x.to # n
          /\ t[AskOf(c, i)] = "none" /\ t[DeliverOf(s, c, i)] = "none" /\ Tail(todo) \in Seq(Pointer)
      BY <1>2, <1>4, <2>1 DEF Calling
    <2> QED BY <1>2, <1>3, <2>1, <2>2, <2>3, RequestFragmentsDial, ZenonT(60)
  <1> QED BY <1>10, <1>11

\* The inquiry ends.
LEMMA RequestFragmentsEndStep ==
    ASSUME NEW s \in Stories, NEW t \in [Conns -> Stage], Explains(s, t), NEW n \in Node, RequestFragmentsEnd(n)
    PROVE  \E t2 \in [Conns -> Stage] : Explains(s, t2)'
  <1>1. /\ Thread(s, t, n) /\ Typed /\ Numbering(s, t) /\ DOMAIN wire = {y \in Conns : t[y] # "none"}
    BY DEF Explains
  <1>2. /\ pc[n] = "ask" /\ todo = <<>> /\ pc' = [pc EXCEPT ![n] = "idle"]
        /\ UNCHANGED <<wire, backlog, fd, client_fd, packet, ms, call, todo, fs, files, complete, user, merged, strayed>>
    BY DEF RequestFragmentsEnd, At, Goto, net, data
  <1>3. n = Index
    BY <1>1, <1>2 DEF Thread
  <1>4. PICK k \in Conns, c \in Client : Asks(s, t, k, c)
    BY <1>2, <1>3, OnAsk
  <1>5. /\ k = Job(s, c) /\ fd[n] = k /\ k.to = n /\ k.c = c /\ t[k] = "asking" /\ Link(s, t, k)
        /\ Bound(s, t, k) /\ client[c] # "off" /\ Granted(s, t, c) /\ ~Dialling(s, t, k) /\ s.op[c] = "read"
        /\ k \in DOMAIN wire /\ k.kind \in {"client", "relay"}
    BY <1>3, <1>4, ConnsOf DEF Asks
  <1>6. DOMAIN pc' = Node /\ pc'[n] = "idle" /\ \A m \in Node \ {n} : pc'[m] = pc[m]
    BY <1>1, <1>2 DEF Typed
  <1>7. PICK t2 \in [Conns -> Stage] : t2[k] = "asked" /\ SameBut(t, t2, k)
    <2>1. "asked" \in Stage
      BY DEF Stage, LineStages
    <2> QED BY <2>1, Advance
  <1>8. \A y \in Conns \ {k} : t2[y] = t[y]
    BY <1>7 DEF SameBut
  <1>9. UNCHANGED <<client, got, at, overlap>>
    BY <1>2 DEF user
  <1>10. Elsewhere(n) /\ Typed'
    BY <1>1, <1>2, <1>6, <1>9 DEF Elsewhere, Typed
  <1>11. Link(s, t2, k)'
    <2>1. Shape(s, t2, k)
      BY <1>5, <1>7 DEF Link, Shape, LineStages, WriteRelayStages, ReadRelayStages
    <2>2. Seat(t2, k)' /\ Caller(s, t2, k)' /\ CallTalk(s, t2, k)'
      BY <1>5, <1>7 DEF Seat, Caller, Dialling, CallTalk
    <2>3. LineTalk(s, t2, k)'
      BY <1>2, <1>5, <1>7, <1>9 DEF Link, LineTalk, Promised, Is, Has
    <2>4. RelayTalk(s, t2, k)'
      BY <1>5 DEF RelayTalk
    <2> QED BY <1>2, <1>5, <2>1, <2>2, <2>3, <2>4 DEF Link
  <1>12. Thread(s, t2, n)'
    <2>1. \A x \in Conns : /\ t[x] # "none" => t2[x] # "none"
                           /\ t[x] \notin {"none", "queued", "identify"} =>
                                t2[x] \notin {"none", "queued", "identify"}
      BY <1>5, <1>7, <1>8
    <2> QED BY <1>1, <1>2, <1>6, <2>1 DEF Thread, Position, Collecting
  <1>13. Inquiry(s, t2)' /\ Handout(s, t2)'
    BY <1>3, <1>6 DEF Inquiry, Handout, Working
  <1>14. Numbering(s, t2)'
    <2>1. \A y \in Conns : t2[y] \in {"fanout", "stored"} <=> t[y] \in {"fanout", "stored"}
      BY <1>5, <1>7, <1>8
    <2> QED BY <1>2, <1>9, <2>1, FilesApart
  <1>15. Shelves(s, t2)'
    <2>1. /\ \A x \in Conns : t2[x] = "stored" <=> t[x] = "stored"
          /\ \A x \in Conns : x.kind = "store" => (t2[x] = "over" <=> t[x] = "over")
      BY <1>5, <1>7, <1>8
    <2> QED BY <1>2, <2>1, ShelvesApart
  <1>16. Request(s, t2, c)'
    <2>1. \A x \in Conns : x.c = c => Alike(s, t[x], t2[x], x)
      BY <1>5, <1>7, <1>8 DEF Alike, Within
    <2>2. \A x \in Conns : t[x] = "stored" => t2[x] = "stored"
      BY <1>5, <1>7, <1>8
    <2>3. t[LineOf(s, c)] = "collect" => pc'[s.home[c]] \in Collecting /\ ms'[s.home[c]] = ms[s.home[c]]
      <3>1. SUFFICES ASSUME t[LineOf(s, c)] = "collect"
                     PROVE  pc'[s.home[c]] \in Collecting /\ ms'[s.home[c]] = ms[s.home[c]]
        OBVIOUS
      <3>2. Tally(s, t, c)
        BY <1>5 DEF Explains, Request
      <3>3. pc[s.home[c]] \in Collecting
        BY <3>1, <3>2 DEF Tally
      <3>4. s.home[c] # n /\ s.home[c] \in Node
        BY <1>2, <3>3, StoryType DEF Collecting
      <3> QED BY <1>2, <1>6, <3>3, <3>4
    <2>4. Request(s, t, c)
      BY DEF Explains
    <2>5. /\ client'[c] = client[c] /\ got'[c] = got[c] /\ at'[c] = at[c]
          /\ (\A id \in DOMAIN files : id \in DOMAIN files' /\ files'[id] = files[id])
          /\ (c \in complete' <=> c \in complete)
          /\ (t[RelayOf(s, c)] \in {"asking", "asked", "refused"} =>
               wire'[RelayOf(s, c)].down = wire[RelayOf(s, c)].down)
      BY <1>2, <1>9
    <2> QED BY <1>1, <2>1, <2>2, <2>3, <2>4, <2>5, RequestFrame, ZenonT(60)
  <1>17. Ripple(s, t, t2, n)
    BY <1>5, <1>7, <1>8 DEF Ripple, Dialling
  <1>18. SameBut(wire, wire', k) /\ Bound(s, t2, k)
    BY <1>2, <1>5 DEF Bound, SameBut
  <1>19. /\ t[k] \notin {"none", "queued", "stored"} /\ t2[k] # "none"
         /\ (k = LineOf(s, c) /\ Forwarded(s, c) => wire'[k].up = <<>>)
         /\ (pc[n] \notin {"idle", "collect"} => fd[n] = k) /\ (pc[n] = "call" => call[n].conn = k)
         /\ \A d \in Client \ {c} : d \in complete' <=> d \in complete
         /\ (pc[n] \in Collecting => \/ pc'[n] \in Collecting /\ ms'[n] = ms[n]
                                    \/ ms[n].from = LineOf(s, c))
         /\ UNCHANGED <<client, got, at, backlog>>
         /\ \A id \in DOMAIN files : id \in DOMAIN files' /\ files'[id] = files[id]
         /\ (Granted(s, t, c) => Granted(s, t2, c)) /\ (Numbered(s, t, c) => Numbered(s, t2, c))
    <2>1. ~Forwarded(s, c)
      BY <1>5, GrantedFile
    <2> QED BY <1>2, <1>5, <1>7, <1>9, <2>1 DEF Collecting, Granted, Numbered
  <1> QED BY <1>5, <1>7, <1>10, <1>11, <1>12, <1>13, <1>14, <1>15, <1>16, <1>17, <1>18, <1>19,
             OneConn, ZenonT(60)

\* Node n has read, on k, what the index asks of it for client c: its own fragment.
Requested(s, t, n, k, c) ==
    /\ k = AskOf(c, n) /\ k \in Conns /\ k.kind = "ask" /\ k.c = c /\ k.i = n /\ k.to = n /\ fd[n] = k
    /\ t[k] = "packet"
    /\ Link(s, t, k) /\ Bound(s, t, k) /\ k \in DOMAIN wire /\ DOMAIN wire[k] = {"up", "down"}
    /\ wire[k].up = <<>> /\ wire[k].down = <<>>
    /\ client[c] # "off" /\ Granted(s, t, c)
    /\ n \in 1 .. Parts[s.want[c]] /\ n # Index /\ n # s.home[c]
    /\ Head(packet[n]) = RequestFrag(s.file[c], n, Reader(s, c))

\* REQUEST_FRAG is in hand of the holder of the fragment, for a reader that has been granted it.
LEMMA RequestedInHand ==
    ASSUME NEW s \in Stories, NEW t \in [Conns -> Stage], Explains(s, t), NEW n \in Node,
           pc[n] = "packet", Got(n, "REQUEST_FRAG")
    PROVE  \E k \in Conns, c \in Client : Requested(s, t, n, k, c)
  <1>1. PICK k \in Conns : Handles(s, t, n, k)
    BY InHand
  <1>2. /\ fd[n] = k /\ k.to = n /\ t[k] = "packet" /\ Link(s, t, k) /\ k \in DOMAIN wire
        /\ DOMAIN wire[k] = {"up", "down"} /\ client[k.c] # "off"
        /\ k.kind = "ask" /\ packet[n] = <<First(s, k)>>
    BY <1>1 DEF Handles, Got
  <1>3. k.c \in Client
    BY ConnType
  <1>4. k = AskOf(k.c, k.i) /\ k.i \in 1 .. Parts[s.want[k.c]] /\ k.i # Index /\ k.i # s.home[k.c]
    BY <1>2 DEF Link, Shape
  <1>5. AskOf(k.c, k.i).to = k.i
    BY <1>3, ConnsOf
  <1>6. k.i = n
    BY <1>2, <1>4, <1>5
  <1>7. wire[k].up = <<>> /\ wire[k].down = <<>>
    BY <1>2 DEF Link, CallTalk, IsCall, Has
  <1>8. Bound(s, t, k)
    BY <1>2, Attached
  <1>9. Granted(s, t, k.c)
    BY <1>2, <1>8 DEF Bound
  <1>10. Head(packet[n]) = RequestFrag(s.file[k.c], n, Reader(s, k.c))
    BY <1>2, <1>6, Reading1 DEF First
  <1>11. Requested(s, t, n, k, k.c)
    BY <1>2, <1>4, <1>6, <1>7, <1>8, <1>9, <1>10 DEF Requested
  <1> QED BY <1>3, <1>11

LEMMA RequestedLink ==
    ASSUME NEW s \in Stories, NEW t \in [Conns -> Stage], NEW t2 \in [Conns -> Stage], NEW n \in Node,
           NEW k \in Conns, NEW c \in Client, Requested(s, t, n, k, c), t2[k] = "done", Elsewhere(n),
           wire'[k].down = <<Ok>>, DOMAIN wire'[k] = {"up", "down"}
    PROVE  Link(s, t2, k)'
  <1>1. /\ Shape(s, t, k) /\ Caller(s, t, k) /\ k.kind = "ask" /\ k.to = n /\ t[k] = "packet"
    BY DEF Requested, Link
  <1>2. Shape(s, t2, k)
    BY <1>1 DEF Shape, CallStages
  <1>3. Seat(t2, k)'
    BY DEF Seat
  <1>4. Caller(s, t2, k)'
    <2>1. Dialling(s, t2, k) => Dialling(s, t, k) /\ Remaining(s, t2, k) = Remaining(s, t, k)
      BY <1>1 DEF Dialling, Remaining, Rest, HasBytes
    <2> QED BY <1>1, <2>1, CallerWaits
  <1>5. CallTalk(s, t2, k)' /\ LineTalk(s, t2, k)' /\ RelayTalk(s, t2, k)'
    BY <1>1 DEF CallTalk, LineTalk, RelayTalk
  <1> QED BY <1>2, <1>3, <1>4, <1>5 DEF Link

\* A node delivers to the node of the client.
LEMMA DeliverStep ==
    ASSUME NEW s \in Stories, NEW t \in [Conns -> Stage], Explains(s, t), NEW n \in Node,
           At(n, "packet"), HandleRequestFrag(n), NEW k \in Conns, NEW c \in Client,
           Requested(s, t, n, k, c), s.home[c] # Index
    PROVE  \E t2 \in [Conns -> Stage] : Explains(s, t2)'
  <1> DEFINE x == DeliverOf(s, c, n)
             w == Sent(wire, k, n, <<Ok>>)
             id == s.file[c]
  <1>1. /\ Thread(s, t, n) /\ Typed /\ Numbering(s, t) /\ Shelves(s, t)
        /\ DOMAIN wire = {y \in Conns : t[y] # "none"} /\ Request(s, t, c)
    BY DEF Explains
  <1>2. /\ k = AskOf(c, n) /\ k.kind = "ask" /\ k.c = c /\ k.i = n /\ k.to = n /\ fd[n] = k
        /\ t[k] = "packet" /\ Bound(s, t, k) /\ k \in DOMAIN wire
        /\ client[c] # "off" /\ Granted(s, t, c) /\ n \in 1 .. Parts[s.want[c]] /\ n # Index /\ n # s.home[c]
    BY DEF Requested
  <1>3. s.home[c] \in Node /\ s.home[c] # Nowhere /\ s.want[c] \in Name
    BY StoryType, ParameterFacts
  <1>4. /\ Head(packet[n]).to = s.home[c] /\ Head(packet[n]).file = id /\ Head(packet[n]).frag = n
    BY PacketFacts DEF Requested, Reader
  <1>5. /\ pc[n] = "packet" /\ Dial(n, w, SendFragment(n, c, id, n, s.home[c], "idle"))
        /\ UNCHANGED <<fd, client_fd, packet, ms, todo, data, user, merged, strayed>>
    BY <1>2, <1>3, <1>4 DEF HandleRequestFrag, At
  <1>6. x = Conn("deliver", c, n, n, s.home[c]) /\ x \in Conns /\ x.kind = "deliver" /\ x.c = c
        /\ x.i = n /\ x.from = n /\ x.to = s.home[c]
    BY <1>2, ConnsOf DEF DeliverOf
  <1>7. Stocked(s, t, id) /\ files[id] = s.want[c] /\ ~Forwarded(s, c)
    BY <1>2, GrantedFile
  <1>8. FragmentBytes(n, id, n) = <<<<s.owner[id], n>>>>
    BY <1>2, <1>5, <1>7, OwnFragment
  <1>9. SendFragment(n, c, id, n, s.home[c], "idle") =
          [conn |-> x, script |-> Full(s, x), confirm |-> TRUE, ret |-> "idle"]
    <2>1. Full(s, x) = <<DeclareFrag(id, n), Raw(<<<<s.owner[id], n>>>>)>>
      BY <1>2, <1>6 DEF Full, HasBytes, First, Second
    <2> HIDE DEF x
    <2>2. SendFragment(n, c, id, n, s.home[c], "idle") =
            [conn |-> Conn("deliver", c, n, n, s.home[c]), confirm |-> TRUE, ret |-> "idle",
             script |-> <<DeclareFrag(id, n), Raw(FragmentBytes(n, id, n))>>]
      BY Zenon DEF SendFragment
    <2> QED BY <1>6, <1>8, <2>1, <2>2
  <1>10. /\ wire' = Opened(w, x, <<Present>>)
         /\ backlog' = [backlog EXCEPT ![x.to] = Append(@, x)]
         /\ call' = [call EXCEPT ![n] = [conn |-> x, script |-> Full(s, x), confirm |-> TRUE, ret |-> "idle"]]
         /\ pc' = [pc EXCEPT ![n] = "call"]
    <2>1. [conn |-> x, script |-> Full(s, x), confirm |-> TRUE, ret |-> "idle"].conn = x
      OBVIOUS
    <2> QED BY <1>5, <1>9, <2>1 DEF Dial, Goto
  <1>11. /\ DOMAIN pc' = Node /\ pc'[n] = "call" /\ \A m \in Node \ {n} : pc'[m] = pc[m]
         /\ DOMAIN call' = Node /\ \A m \in Node \ {n} : call'[m] = call[m]
         /\ call'[n] = [conn |-> x, script |-> Full(s, x), confirm |-> x.kind \in {"ask", "deliver"},
                        ret |-> Return(x)]
         /\ DOMAIN backlog' = Node
    <2>1. (x.kind \in {"ask", "deliver"}) = TRUE /\ Return(x) = "idle"
      BY <1>2, <1>6 DEF Return
    <2>2. DOMAIN pc = Node /\ DOMAIN call = Node /\ DOMAIN backlog = Node
      BY <1>1 DEF Typed
    <2>3. call'[n] = [conn |-> x, script |-> Full(s, x), confirm |-> TRUE, ret |-> "idle"]
      BY <1>10, <2>2
    <2>4. call'[n] = [conn |-> x, script |-> Full(s, x), confirm |-> x.kind \in {"ask", "deliver"},
                      ret |-> Return(x)]
      BY <2>1, <2>3, Zenon
    <2> QED BY <1>10, <2>2, <2>4
  <1>12. Flows(wire, w, k, <<>>, <<Ok>>)
    <2>1. Flows(wire, w, k, wire[k].up, wire[k].down \o <<Ok>>)
      BY <1>2, ServerSends DEF Requested
    <2> QED BY <2>1, Sending DEF Requested
  <1>13. t[x] = "none"
    BY <1>1, <1>2 DEF Request, Fetch
  <1>14. x # k
    BY <1>2, <1>6
  <1>15. PICK t2 \in [Conns -> Stage] : Both(t, t2, k, "done", x, "queued")
    <2>1. "queued" \in Stage /\ "done" \in Stage
      BY DEF Stage, LineStages, CallStages
    <2> QED BY <1>6, <1>14, <2>1, AdvanceTwo
  <1>16. t2[k] = "done" /\ t2[x] = "queued" /\ \A y \in Conns \ {k, x} : t2[y] = t[y]
    BY <1>15 DEF Both
  <1>17. UNCHANGED <<client, got, at, files, complete>> /\ UNCHANGED <<files, fs>> /\ files' = files
         /\ fd' = fd /\ client_fd' = client_fd /\ todo' = todo /\ client' = client
    BY <1>5 DEF user, data
  <1>18. Elsewhere(n) /\ Typed'
    BY <1>1, <1>5, <1>11 DEF Elsewhere, Typed, user, data
  <1>19. SameBut(wire, w, k) /\ Opens(w, wire', x, <<Present>>) /\ Pushes(x)
    BY <1>10, <1>12, WireOpened DEF Flows, Pushes
  <1>20. wire'[k] = w[k]
    BY <1>2, <1>12, <1>14, <1>19 DEF Opens, Flows, SameBut
  <1>21. Link(s, t2, k)'
    BY <1>12, <1>16, <1>18, <1>20, RequestedLink DEF Flows
  <1>22. IsCall(s, x) /\ Shape(s, t2, x)
    BY <1>2, <1>6, <1>16 DEF IsCall, Shape, CallStages
  <1>23. t2[Job(s, c)] = t[Job(s, c)]
    BY <1>2, <1>6, <1>16, ConnsOf
  <1>24. Bound(s, t2, k) /\ Bound(s, t2, x) /\ (Granted(s, t, c) => Granted(s, t2, c))
         /\ (Numbered(s, t, c) => Numbered(s, t2, c))
    BY <1>2, <1>6, <1>23 DEF Bound, Granted, Numbered
  <1>25. Request(s, t2, c)'
    <2>1. CallsFor(s, t, t2, c, n, x)
      BY <1>2, <1>6, <1>13, <1>16 DEF CallsFor
    <2>2. pc[n] \notin Collecting
      BY <1>5 DEF Collecting
    <2>3. wire'[RelayOf(s, c)].down = wire[RelayOf(s, c)].down \/ t[RelayOf(s, c)] = "none"
      <3>1. RelayOf(s, c) \in Conns /\ RelayOf(s, c) # x /\ RelayOf(s, c) # k
        BY <1>2, <1>6, ConnsOf
      <3> QED BY <1>1, <1>19, <3>1 DEF Opens, SameBut
    <2> QED BY <1>2, <1>17, <1>18, <2>1, <2>2, <2>3, CallsRequest
  <1>26. Inquiry(s, t2)'
    <2>1. \A y \in Conns : t[y] = "asking" => t2[y] = "asking"
      BY <1>2, <1>13, <1>16
    <2>2. \A y \in Conns : y.kind \in {"ask", "deliver"} /\ t[y] = "none" /\ t2[y] # "none" =>
                              y.kind = "deliver" /\ t[AskOf(y.c, y.i)] # "none"
      BY <1>2, <1>6, <1>16
    <2> QED BY <1>2, <1>17, <1>18, <2>1, <2>2, InquiryApart
  <1>27. Handout(s, t2)'
    <2>1. /\ \A y \in Conns : t[y] = "fanout" => t2[y] = "fanout"
          /\ \A y \in Conns : y.kind = "store" => (t2[y] = "none" <=> t[y] = "none")
      BY <1>2, <1>6, <1>13, <1>16
    <2> QED BY <1>2, <1>17, <1>18, <2>1, HandoutApart
  <1>28. Numbering(s, t2)'
    <2>1. \A y \in Conns : t2[y] \in {"fanout", "stored"} <=> t[y] \in {"fanout", "stored"}
      BY <1>2, <1>13, <1>16
    <2> QED BY <1>17, <2>1, FilesApart
  <1>29. Shelves(s, t2)'
    <2>1. /\ \A y \in Conns : t2[y] = "stored" <=> t[y] = "stored"
          /\ \A y \in Conns : y.kind = "store" => (t2[y] = "over" <=> t[y] = "over")
      BY <1>2, <1>6, <1>13, <1>16
    <2> QED BY <1>17, <2>1, ShelvesApart
  <1>30. /\ t[k] \notin {"none", "queued", "stored"} /\ t2[k] # "none"
         /\ (~Dialling(s, t, k) \/ k.from = n \/ Dialling(s, t2, k))
         /\ pc[n] \in {"fanout", "ask", "packet"} /\ t2[k] \notin {"none", "queued", "identify"}
         /\ (k = LineOf(s, c) /\ Forwarded(s, c) => w[k].up = <<>>)
         /\ x.to # n
    BY <1>2, <1>5, <1>6, <1>7, <1>16 DEF Dialling, IsCall
  <1> HIDE DEF x, w, id
  <1> QED BY <1>2, <1>6, <1>11, <1>13, <1>16, <1>17, <1>18, <1>19, <1>21, <1>22, <1>24, <1>25, <1>26,
             <1>27, <1>28, <1>29, <1>30, OneCall, ZenonT(60)

\* The request names no node: the dial fails, and that is all.
LEMMA DeliverNowhere ==
    ASSUME NEW s \in Stories, NEW t \in [Conns -> Stage], Explains(s, t), NEW n \in Node,
           At(n, "packet"), HandleRequestFrag(n), NEW k \in Conns, NEW c \in Client,
           Requested(s, t, n, k, c), s.home[c] = Index
    PROVE  \E t2 \in [Conns -> Stage] : Explains(s, t2)'
  <1>1. /\ Thread(s, t, n) /\ Typed
    BY DEF Explains
  <1>2. /\ k.kind = "ask" /\ k.to = n /\ fd[n] = k /\ t[k] = "packet" /\ k \in DOMAIN wire
    BY DEF Requested
  <1>3. Head(packet[n]).to = Nowhere
    BY PacketFacts DEF Requested, Reader
  <1>4. /\ pc[n] = "packet" /\ pc' = [pc EXCEPT ![n] = "idle"] /\ wire' = Sent(wire, k, n, <<Ok>>)
        /\ UNCHANGED <<backlog, fd, client_fd, packet, ms, call, todo, data, user, merged, strayed>>
    BY <1>2, <1>3 DEF HandleRequestFrag, At, Goto
  <1>5. Flows(wire, wire', k, <<>>, <<Ok>>)
    <2>1. Flows(wire, wire', k, wire[k].up, wire[k].down \o <<Ok>>)
      BY <1>2, <1>4, ServerSends DEF Requested
    <2> QED BY <2>1, Sending DEF Requested
  <1>6. /\ DOMAIN pc = Node /\ pc'[n] = "idle" /\ DOMAIN pc' = Node
    BY <1>1, <1>4 DEF Typed
  <1>7. PICK t2 \in [Conns -> Stage] : t2[k] = "done" /\ SameBut(t, t2, k)
    <2>1. "done" \in Stage
      BY DEF Stage, CallStages
    <2> QED BY <2>1, Advance
  <1>8. Elsewhere(n)
    BY <1>1, <1>4 DEF Elsewhere, Typed
  <1>9. Link(s, t2, k)' /\ SameBut(wire, wire', k)
    BY <1>5, <1>7, <1>8, RequestedLink DEF Flows
  <1>10. Typed'
    BY <1>1, <1>4, <1>6 DEF Typed, data, user
  <1>11. Thread(s, t2, n)'
    <2>1. \A x \in Conns : /\ t[x] # "none" => t2[x] # "none"
                           /\ x.kind = "client" => t2[x] = t[x]
      BY <1>2, <1>7 DEF SameBut
    <2> QED BY <1>1, <1>4, <1>6, <2>1 DEF Thread, Position, Collecting
  <1>12. Inquiry(s, t2)' /\ Handout(s, t2)'
    BY <1>2, <1>4, <1>6, <1>7, <1>8, SoftAside
  <1>13. Alike(s, t[k], t2[k], k)
    BY <1>2, <1>7 DEF Alike
  <1>14. Dialling(s, t, k) => Dialling(s, t2, k)
    BY <1>2, <1>7 DEF Dialling
  <1>15. \A x \in Conns : x \in {k} /\ t2[x] # "none" => Link(s, t2, x)'
    BY <1>9
  <1> QED BY <1>2, <1>4, <1>6, <1>7, <1>8, <1>9, <1>10, <1>11, <1>12, <1>13, <1>14, <1>15,
             SoftStep DEF data, user, Collecting

\* REQUEST_FRAG: the holder delivers its fragment to the reader's node.
LEMMA HandleRequestFragStep ==
    ASSUME NEW s \in Stories, NEW t \in [Conns -> Stage], Explains(s, t), NEW n \in Node,
           At(n, "packet"), HandleRequestFrag(n)
    PROVE  \E t2 \in [Conns -> Stage] : Explains(s, t2)'
  <1>1. pc[n] = "packet" /\ Got(n, "REQUEST_FRAG")
    BY DEF At, HandleRequestFrag
  <1>2. PICK k \in Conns, c \in Client : Requested(s, t, n, k, c)
    BY <1>1, RequestedInHand
  <1>3. CASE s.home[c] = Index
    BY <1>2, <1>3, DeliverNowhere
  <1>4. CASE s.home[c] # Index
    BY <1>2, <1>4, DeliverStep
  <1> QED BY <1>3, <1>4

-----------------------------------------------------------------------------
(* Answer *)

\* Node n serves client c on l, and has asked the index on r, which has answered.
Awaits(s, t, n, c, l, r) ==
    /\ l = LineOf(s, c) /\ r = RelayOf(s, c) /\ l # r /\ s.home[c] = n /\ n # Index
    /\ l \in Conns /\ r \in Conns /\ l.kind = "client" /\ r.kind = "relay" /\ l.c = c /\ r.c = c
    /\ l.to = n /\ r.to = Index /\ r.from = n /\ r = Job(s, c)
    /\ fd[n] = l /\ call[n].conn = r /\ t[l] = "answer" /\ client[c] = "asked" /\ s.op[c] = "read"
    /\ Link(s, t, l) /\ Link(s, t, r)
    /\ l \in DOMAIN wire /\ DOMAIN wire[l] = {"up", "down"} /\ r \in DOMAIN wire /\ DOMAIN wire[r] = {"up", "down"}
    /\ wire[l].up = <<>> /\ wire[l].down = <<>>
    /\ \/ t[r] \in {"asking", "asked"} /\ wire[r].down = <<Grant(s, c)>>
       \/ t[r] = "refused" /\ wire[r].down = <<NotOk>>

\* A node that waits for the index's answer finds it on the relay of its client's request.
LEMMA OnAnswer ==
    ASSUME NEW s \in Stories, NEW t \in [Conns -> Stage], Explains(s, t), NEW n \in Node,
           pc[n] = "answer", Queue(call[n].conn, n) # <<>>
    PROVE  \E c \in Client, l \in Conns, r \in Conns : Awaits(s, t, n, c, l, r)
  <1>1. Thread(s, t, n)
    BY DEF Explains
  <1>2. Serves(t, n, {"answer"})
    BY <1>1 DEF Thread
  <1> DEFINE l == fd[n]
             c == l.c
             r == RelayOf(s, c)
  <1>3. /\ l \in Conns /\ l.to = n /\ t[l] = "answer" /\ Link(s, t, l) /\ l \in DOMAIN wire
        /\ DOMAIN wire[l] = {"up", "down"} /\ client[c] # "off"
    BY <1>2, Served
  <1>4. l.kind = "client"
    BY <1>3, ConnType DEF Link, Shape, Kinds, CallStages, ReadRelayStages, WriteRelayStages
  <1>5. c \in Client /\ l = LineOf(s, c)
    BY <1>3, <1>4, ConnType DEF Link, Shape
  <1>6. s.home[c] = n
    BY <1>3, <1>5, ConnsOf
  <1>7. n # Index /\ client[c] = "asked" /\ wire[l].up = <<>> /\ wire[l].down = <<>> /\ call[n].conn = r
    BY <1>3, <1>4 DEF Link, LineTalk, Is, Has
  <1>8. Progress(s, t, c) /\ Answers(s, t, c) /\ Doing(s, c)
    BY <1>3, <1>5 DEF Explains, Request
  <1>9. s.op[c] = "read"
    BY <1>7, <1>8 DEF Doing
  <1>10. t[r] \in {"said", "packet", "asking", "asked", "refused"}
    BY <1>3, <1>5, <1>6, <1>7, <1>8, <1>9 DEF Progress
  <1>11. r \in Conns /\ r.kind = "relay" /\ r.c = c /\ r.to = Index /\ r.from = n /\ r = Job(s, c)
    BY <1>5, <1>6, <1>7, ConnsOf DEF Job
  <1>12. Link(s, t, r) /\ r \in DOMAIN wire /\ DOMAIN wire[r] = {"up", "down"}
    BY <1>10, <1>11, Attached
  <1>13. Queue(r, n) = wire[r].down
    BY <1>7, <1>11 DEF Queue, In
  <1>14. t[r] \notin {"said", "packet"}
    BY <1>7, <1>9, <1>11, <1>12, <1>13 DEF Link, CallTalk, IsCall, Has
  <1>15. \/ t[r] \in {"asking", "asked"} /\ wire[r].down = <<Grant(s, c)>>
         \/ t[r] = "refused" /\ wire[r].down = <<NotOk>>
    BY <1>3, <1>5, <1>8, <1>10, <1>14 DEF Answers
  <1>16. Awaits(s, t, n, c, l, r)
    BY <1>3, <1>4, <1>5, <1>6, <1>7, <1>9, <1>11, <1>12, <1>15 DEF Awaits
  <1> QED BY <1>3, <1>5, <1>11, <1>16

\* What n makes of the answer.
Answering(s, t, n, c, l, r) ==
    /\ wire'[r].up = wire[r].up /\ DOMAIN wire'[r] = {"up", "down"}
    /\ wire'[l].up = <<>> /\ DOMAIN wire'[l] = {"up", "down"}
    /\ DOMAIN wire' = DOMAIN wire /\ \A y \in DOMAIN wire \ {l, r} : wire'[y] = wire[y]
    /\ merged' \in BOOLEAN
    /\ t[r] = "refused" => wire'[l].down = <<NotOk>> /\ pc' = [pc EXCEPT ![n] = "idle"] /\ ms' = ms
    /\ t[r] # "refused" =>
         /\ wire'[l].down = <<Grant(s, c)>> /\ pc' = [pc EXCEPT ![n] = "collect"]
         /\ ms' = [ms EXCEPT ![n] = [Idle EXCEPT !.file = s.file[c], !.count = Parts[s.want[c]],
                       !.from = l, !.buffer = [i \in 1 .. Parts[s.want[c]] |-> <<0, 0>>]]]

\* What it reads, and where it goes then.
LEMMA AnswerRead ==
    ASSUME NEW s \in Stories, NEW t \in [Conns -> Stage], Explains(s, t), NEW n \in Node, Answer(n),
           NEW c \in Client, NEW l \in Conns, NEW r \in Conns, Awaits(s, t, n, c, l, r)
    PROVE  Answering(s, t, n, c, l, r)
  <1>1. /\ l # r /\ l.to = n /\ r.to # n /\ fd[n] = l /\ call[n].conn = r
        /\ l \in DOMAIN wire /\ DOMAIN wire[l] = {"up", "down"} /\ r \in DOMAIN wire /\ DOMAIN wire[r] = {"up", "down"}
        /\ wire[l].up = <<>> /\ wire[l].down = <<>>
    BY DEF Awaits
  <1>2. PICK a : wire[r].down = <<a>> /\ a = IF t[r] = "refused" THEN NotOk ELSE Grant(s, c)
    BY DEF Awaits
  <1>3. Queue(r, n) = <<a>>
    BY <1>1, <1>2 DEF Queue, In
  <1> DEFINE w == Read(wire, r, n, 1)
  <1>4. IF a.type = "NOT_OK"
             THEN /\ wire' = Sent(w, l, n, <<NotOk>>) /\ pc' = [pc EXCEPT ![n] = "idle"] /\ ms' = ms
             ELSE /\ wire' = Sent(w, l, n, <<Response(a.file, a.frag)>>)
                  /\ ms' = [ms EXCEPT ![n] = [Idle EXCEPT
                              !.file = a.file, !.count = a.frag, !.from = l,
                              !.buffer = [i \in 1 .. a.frag |-> <<0, 0>>]]]
                  /\ pc' = [pc EXCEPT ![n] = "collect"]
    <2>1. PICK j \in 1 .. Len(Queue(r, n)) :
            /\ Recv(r, n, j)
            /\ IF Queue(r, n)[1].type = "NOT_OK"
                 THEN /\ wire' = Sent(Read(wire, r, n, j), l, n, <<NotOk>>)
                      /\ Goto(n, "idle")
                      /\ UNCHANGED ms
                 ELSE /\ wire' = Sent(Read(wire, r, n, j), l, n, <<Response(Queue(r, n)[1].file, Queue(r, n)[1].frag)>>)
                      /\ ms' = [ms EXCEPT ![n] = [Idle EXCEPT
                                  !.file = Queue(r, n)[1].file, !.count = Queue(r, n)[1].frag, !.from = l,
                                  !.buffer = [i \in 1 .. Queue(r, n)[1].frag |-> <<0, 0>>]]]
                      /\ Goto(n, "collect")
      BY <1>1 DEF Answer
    <2>2. j = 1 /\ Queue(r, n)[1] = a
      BY <1>3, TakesOne
    <2> QED BY <2>1, <2>2 DEF Goto
  <1>5. merged' \in BOOLEAN
    <2>1. merged \in BOOLEAN
      BY DEF Explains, Typed
    <2>2. \E j \in 1 .. Len(Queue(r, n)) : Recv(r, n, j)
      BY <1>1 DEF Answer
    <2> QED BY <2>1, <2>2, ReadsSome
  <1>6. Flows(wire, w, r, wire[r].up, <<>>)
    <2>1. Flows(wire, w, r, wire[r].up, SubSeq(wire[r].down, 1 + 1, Len(wire[r].down)))
      <3>1. w = Read(wire, r, n, 1)
        OBVIOUS
      <3> HIDE DEF w
      <3> QED BY <1>1, <3>1, CallerReads
    <2>2. Len(wire[r].down) = 1
      BY <1>2, Lengths
    <2>3. SubSeq(wire[r].down, 1 + 1, Len(wire[r].down)) = <<>>
      BY <1>2, <2>2, Reading1
    <2> QED BY <2>1, <2>3
  <1>7. ASSUME NEW b, wire' = Sent(w, l, n, <<b>>)
        PROVE  /\ wire'[r].up = wire[r].up /\ DOMAIN wire'[r] = {"up", "down"}
               /\ wire'[l].up = <<>> /\ wire'[l].down = <<b>> /\ DOMAIN wire'[l] = {"up", "down"}
               /\ DOMAIN wire' = DOMAIN wire /\ \A y \in DOMAIN wire \ {l, r} : wire'[y] = wire[y]
    <2>1. w[l] = wire[l] /\ l \in DOMAIN w
      BY <1>1, <1>6 DEF Flows, SameBut
    <2>2. Flows(w, wire', l, w[l].up, w[l].down \o <<b>>)
      BY <1>1, <1>7, <2>1, ServerSends
    <2>3. w[l].down \o <<b>> = <<b>>
      BY <1>1, <2>1, Sending
    <2> HIDE DEF w
    <2> QED BY <1>1, <1>6, <2>1, <2>2, <2>3 DEF Flows, SameBut
  <1>8. CASE t[r] = "refused"
    <2>1. a = NotOk /\ a.type = "NOT_OK"
      BY <1>2, <1>8, PacketFacts
    <2>2. wire' = Sent(w, l, n, <<NotOk>>) /\ pc' = [pc EXCEPT ![n] = "idle"] /\ ms' = ms
      BY <1>4, <2>1
    <2> QED BY <1>4, <1>5, <1>7, <1>8, <2>2 DEF Answering
  <1>9. CASE t[r] # "refused"
    <2>1. a = Grant(s, c)
      BY <1>2, <1>9
    <2>2. a.type = "RESPONSE" /\ a.file = s.file[c] /\ a.frag = Parts[s.want[c]]
      BY <2>1, PacketFacts DEF Grant
    <2>3. Response(a.file, a.frag) = Grant(s, c)
      BY <2>2 DEF Grant
    <2>4. wire' = Sent(w, l, n, <<Grant(s, c)>>) /\ pc' = [pc EXCEPT ![n] = "collect"]
          /\ ms' = [ms EXCEPT ![n] = [Idle EXCEPT !.file = s.file[c], !.count = Parts[s.want[c]],
                       !.from = l, !.buffer = [i \in 1 .. Parts[s.want[c]] |-> <<0, 0>>]]]
      BY <1>4, <2>2, <2>3
    <2> QED BY <1>4, <1>5, <1>7, <1>9, <2>4 DEF Answering
  <1> QED BY <1>8, <1>9

\* The two connections, behind the answer.
LEMMA AnswerLinks ==
    ASSUME NEW s \in Stories, NEW t \in [Conns -> Stage], NEW t2 \in [Conns -> Stage], NEW n \in Node,
           NEW c \in Client, NEW l \in Conns, NEW r \in Conns, Awaits(s, t, n, c, l, r),
           Answering(s, t, n, c, l, r), t2[l] = IF t[r] = "refused" THEN "refused" ELSE "collect",
           t2[r] = t[r], Elsewhere(n), UNCHANGED <<client, fd>>
    PROVE  Link(s, t2, l)' /\ Link(s, t2, r)'
  <1>1. /\ l # r /\ l.kind = "client" /\ r.kind = "relay" /\ l.c = c /\ r.c = c /\ l.to = n /\ r.to = Index
        /\ n # Index /\ client[c] = "asked" /\ s.op[c] = "read"
        /\ Shape(s, t, l) /\ Shape(s, t, r) /\ Seat(t, r)
        /\ t[r] \in {"asking", "asked", "refused"}
    BY DEF Awaits, Link
  <1>2. /\ wire'[l].up = <<>> /\ DOMAIN wire'[l] = {"up", "down"} /\ DOMAIN wire'[r] = {"up", "down"}
        /\ wire'[l].down = IF t[r] = "refused" THEN <<NotOk>> ELSE <<Grant(s, c)>>
    BY DEF Answering
  <1>3. Link(s, t2, l)'
    <2>1. Shape(s, t2, l)
      BY <1>1 DEF Shape, LineStages
    <2>2. Seat(t2, l)'
      BY <1>1 DEF Seat
    <2>3. Caller(s, t2, l)' /\ CallTalk(s, t2, l)' /\ RelayTalk(s, t2, l)'
      BY <1>1 DEF Caller, Dialling, IsCall, CallTalk, RelayTalk
    <2>4. LineTalk(s, t2, l)'
      BY <1>1, <1>2 DEF LineTalk, Promised, Is, Has
    <2> QED BY <1>2, <2>1, <2>2, <2>3, <2>4 DEF Link
  <1>4. Link(s, t2, r)'
    <2>1. Shape(s, t2, r)
      BY <1>1 DEF Shape
    <2>2. Seat(t2, r)'
      BY <1>1, ParameterFacts DEF Seat, Elsewhere
    <2>3. Caller(s, t2, r)' /\ CallTalk(s, t2, r)' /\ RelayTalk(s, t2, r)' /\ LineTalk(s, t2, r)'
      BY <1>1 DEF Caller, Dialling, IsCall, CallTalk, RelayTalk, LineTalk
    <2> QED BY <1>2, <2>1, <2>2, <2>3 DEF Link
  <1> QED BY <1>3, <1>4

\* The request, behind the answer.
LEMMA AnswerRequest ==
    ASSUME NEW s \in Stories, NEW t \in [Conns -> Stage], Explains(s, t), NEW t2 \in [Conns -> Stage], NEW n \in Node,
           NEW c \in Client, NEW l \in Conns, NEW r \in Conns, Awaits(s, t, n, c, l, r),
           Answering(s, t, n, c, l, r), t2[l] = IF t[r] = "refused" THEN "refused" ELSE "collect",
           \A x \in Conns \ {l} : t2[x] = t[x],
           UNCHANGED <<client, got, at, files, complete>>
    PROVE  /\ Request(s, t2, c)'
           /\ t[r] # "refused" => ms'[n].found = 0 /\ ms'[n].count = Parts[s.want[c]] /\ ms'[n].from = l
  <1>1. /\ l = LineOf(s, c) /\ r = RelayOf(s, c) /\ l # r /\ s.home[c] = n /\ n # Index
        /\ t[l] = "answer" /\ client[c] = "asked" /\ s.op[c] = "read" /\ r = Job(s, c)
        /\ t[r] \in {"asking", "asked", "refused"}
    BY DEF Awaits
  <1>2. /\ Progress(s, t, c) /\ Answers(s, t, c) /\ Doing(s, c) /\ Tally(s, t, c) /\ Found(s, t, c)
        /\ \A i \in 1 .. Parts[s.want[c]] : s.home[c] # Index => Fetch(s, t, c, i)
        /\ (c \in complete <=> t[Job(s, c)] = "stored")
    BY <1>1 DEF Explains, Request
  <1>3. t2[r] = t[r]
    BY <1>1
  <1>4. Progress(s, t2, c)
    BY <1>1, <1>2, <1>3 DEF Progress
  <1>5. Answers(s, t2, c)'
    BY <1>1 DEF Answers
  <1>6. Doing(s, c)'
    BY <1>2 DEF Doing
  <1>7. ASSUME NEW i \in 1 .. Parts[s.want[c]]
        PROVE  /\ Fetch(s, t2, c, i) /\ t2[DeliverOf(s, c, i)] \notin Delivered
    <2>1. i \in Node
      BY StoryType, PartsFacts
    <2>2. /\ DeliverOf(s, c, i) \in Conns \ {l} /\ AskOf(c, i) \in Conns \ {l}
          /\ DeliverOf(s, c, i).kind = "deliver" /\ DeliverOf(s, c, i).c = c
      BY <1>1, <2>1, ConnsOf
    <2>3. Fetch(s, t, c, i)
      BY <1>1, <1>2
    <2>4. t[DeliverOf(s, c, i)] \notin Delivered
      BY <1>1, <2>3 DEF Fetch
    <2>5. t[r] = "refused" => t[DeliverOf(s, c, i)] = "none"
      <3>1. t[r] = "refused" => ~Granted(s, t, c)
        BY <1>1 DEF Granted
      <3>2. t[DeliverOf(s, c, i)] # "none" => Granted(s, t, c)
        BY <2>2, GrantedWhen
      <3> QED BY <3>1, <3>2
    <2>6. t2[DeliverOf(s, c, i)] = t[DeliverOf(s, c, i)] /\ t2[AskOf(c, i)] = t[AskOf(c, i)]
      BY <2>2
    <2> QED BY <1>1, <2>3, <2>4, <2>5, <2>6 DEF Fetch, Undelivered
  <1>8. ms \in [Node -> Machine] /\ DOMAIN pc = Node
    BY DEF Explains, Typed
  <1>9. t[r] # "refused" =>
          /\ pc'[n] = "collect" /\ ms'[n].file = s.file[c] /\ ms'[n].count = Parts[s.want[c]]
          /\ ms'[n].from = l /\ ms'[n].found = 0
          /\ ms'[n].buffer = [i \in 1 .. Parts[s.want[c]] |-> <<0, 0>>]
    <2>1. SUFFICES ASSUME t[r] # "refused"
                   PROVE  /\ pc'[n] = "collect" /\ ms'[n].file = s.file[c] /\ ms'[n].count = Parts[s.want[c]]
                          /\ ms'[n].from = l /\ ms'[n].found = 0
                          /\ ms'[n].buffer = [i \in 1 .. Parts[s.want[c]] |-> <<0, 0>>]
      OBVIOUS
    <2>2. ms'[n] = [Idle EXCEPT !.file = s.file[c], !.count = Parts[s.want[c]],
                       !.from = l, !.buffer = [i \in 1 .. Parts[s.want[c]] |-> <<0, 0>>]]
      BY <1>8, <2>1 DEF Answering
    <2>3. pc'[n] = "collect"
      BY <1>8, <2>1 DEF Answering
    <2> QED BY <2>2, <2>3, IdleFacts
  <1>10. Tally(s, t2, c)'
    <2>1. SUFFICES ASSUME t2[l] = "collect"
                   PROVE  /\ pc'[n] \in Collecting
                          /\ ms'[n].from = l /\ ms'[n].file = s.file[c]
                          /\ ms'[n].count = Parts[s.want[c]] /\ ms'[n].found = Cardinality(Arrived(s, t2, c))
                          /\ ms'[n].buffer = [i \in 1 .. Parts[s.want[c]] |->
                               IF i \in Arrived(s, t2, c) THEN <<s.owner[s.file[c]], i>> ELSE <<0, 0>>]
      BY <1>1 DEF Tally, Arrived
    <2>2. t[r] # "refused"
      BY <2>1
    <2>3. Arrived(s, t2, c) = {}
      BY <1>7 DEF Arrived
    <2>4. Cardinality(Arrived(s, t2, c)) = 0
      BY <2>3, FS_EmptySet
    <2>5. ms'[n].buffer = [i \in 1 .. Parts[s.want[c]] |->
                               IF i \in Arrived(s, t2, c) THEN <<s.owner[s.file[c]], i>> ELSE <<0, 0>>]
      BY <1>9, <2>2, <2>3
    <2>6. pc'[n] \in Collecting
      BY <1>9, <2>2 DEF Collecting
    <2> QED BY <1>9, <2>2, <2>4, <2>5, <2>6
  <1>11. Found(s, t2, c)'
    <2>1. Granted(s, t2, c) => Granted(s, t, c)
      BY <1>1, <1>3 DEF Granted
    <2>2. ASSUME NEW x \in Conns, t[x] = "stored" PROVE t2[x] = "stored"
      BY <1>1, <2>2
    <2>3. s.file[c] \in DOMAIN files /\ s.file[c] # 1 => s.owner[s.file[c]] \in Client
      <3>1. Numbering(s, t)
        BY DEF Explains
      <3>2. \A id \in DOMAIN files : id \in 1 .. Len(files) /\ Len(files) \in Nat
        BY <3>1 DEF Numbering
      <3> QED BY <3>1, <3>2 DEF Numbering
    <2>4. s.owner[s.file[c]] \in Client => Job(s, s.owner[s.file[c]]) \in Conns
      BY ConnsOf
    <2> QED BY <1>2, <2>1, <2>2, <2>3, <2>4 DEF Found
  <1>12. HandedOut(s, t2, c) /\ (c \in complete' <=> t2[Job(s, c)] = "stored")
    BY <1>1, <1>2, <1>3 DEF HandedOut
  <1>13. Request(s, t2, c)'
    BY <1>4, <1>5, <1>6, <1>7, <1>10, <1>11, <1>12 DEF Request, Progress, Fetch, HandedOut
  <1> QED BY <1>9, <1>13

\* The answer goes on to the client; after a grant the node begins to collect.
LEMMA AnswerStep ==
    ASSUME NEW s \in Stories, NEW t \in [Conns -> Stage], Explains(s, t), NEW n \in Node, Answer(n)
    PROVE  \E t2 \in [Conns -> Stage] : Explains(s, t2)'
  <1>1. /\ Thread(s, t, n) /\ Typed /\ Queues(t) /\ DOMAIN wire = {y \in Conns : t[y] # "none"}
    BY DEF Explains
  <1>2. /\ pc[n] = "answer" /\ Queue(call[n].conn, n) # <<>>
        /\ UNCHANGED <<backlog, fd, client_fd, packet, call, todo, data, user, strayed>>
    <2>1. PICK j \in 1 .. Len(Queue(call[n].conn, n)) : TRUE
      BY DEF Answer
    <2>2. Queue(call[n].conn, n) # <<>>
      BY <2>1, TakesNone
    <2> QED BY <2>2 DEF Answer, At
  <1>3. PICK c \in Client, l \in Conns, r \in Conns : Awaits(s, t, n, c, l, r)
    BY <1>2, OnAnswer
  <1>4. /\ l = LineOf(s, c) /\ r = RelayOf(s, c) /\ l # r /\ s.home[c] = n /\ n # Index
        /\ l.kind = "client" /\ r.kind = "relay" /\ l.c = c /\ r.c = c /\ l.to = n /\ r.to = Index
        /\ fd[n] = l /\ t[l] = "answer" /\ client[c] = "asked" /\ s.op[c] = "read" /\ r = Job(s, c)
        /\ t[r] \in {"asking", "asked", "refused"}
    BY <1>3 DEF Awaits
  <1>5. Answering(s, t, n, c, l, r)
    BY <1>3, AnswerRead
  <1>6. PICK t2 \in [Conns -> Stage] :
          t2[l] = (IF t[r] = "refused" THEN "refused" ELSE "collect") /\ SameBut(t, t2, l)
    <2>1. (IF t[r] = "refused" THEN "refused" ELSE "collect") \in Stage
      BY DEF Stage, LineStages
    <2> QED BY <2>1, Advance
  <1>7. \A y \in Conns \ {l} : t2[y] = t[y]
    BY <1>6 DEF SameBut
  <1>8. /\ DOMAIN pc' = Node /\ \A m \in Node \ {n} : pc'[m] = pc[m] /\ ms'[m] = ms[m]
        /\ pc'[n] = IF t[r] = "refused" THEN "idle" ELSE "collect"
    BY <1>1, <1>5 DEF Answering, Typed
  <1>9. UNCHANGED <<client, got, at, files, complete, overlap, fs>> /\ UNCHANGED <<files, fs>>
        /\ fd' = fd /\ todo' = todo /\ client_fd' = client_fd /\ files' = files
    BY <1>2 DEF user, data
  <1>10. Elsewhere(n)
    BY <1>2, <1>8 DEF Elsewhere
  <1>11. /\ Request(s, t2, c)'
         /\ t[r] # "refused" => ms'[n].found = 0 /\ ms'[n].count = Parts[s.want[c]] /\ ms'[n].from = l
    BY <1>3, <1>5, <1>6, <1>7, <1>9, AnswerRequest
  <1>12. ms' \in [Node -> Machine] /\ ms'[n].found <= ms'[n].count
    <2>1. CASE t[r] = "refused"
      BY <1>1, <1>5, <2>1 DEF Answering, Typed
    <2>2. CASE t[r] # "refused"
      <3>1. /\ Parts[s.want[c]] \in Nat /\ Parts[s.want[c]] >= 1 /\ s.file[c] \in Nat
        BY StoryType, PartsFacts
      <3>2. [i \in 1 .. Parts[s.want[c]] |-> <<0, 0>>] \in Seq(Part)
        <4>1. <<0, 0>> \in Part
          <5>1. 0 \in Client \cup {0} /\ 0 \in Nat
            OBVIOUS
          <5> QED BY <5>1, Zenon DEF Part
        <4> DEFINE e == <<0, 0>>
        <4>2. e \in Part
          BY <4>1
        <4> HIDE DEF e
        <4>3. [i \in 1 .. Parts[s.want[c]] |-> e] \in Seq(Part)
          BY <3>1, <4>2
        <4> QED BY <4>3 DEF e
      <3>3. [Idle EXCEPT !.file = s.file[c], !.count = Parts[s.want[c]],
                       !.from = l, !.buffer = [i \in 1 .. Parts[s.want[c]] |-> <<0, 0>>]] \in Machine
        <4> DEFINE B == [i \in 1 .. Parts[s.want[c]] |-> <<0, 0>>]
        <4>1. B \in Seq(Part)
          BY <3>2
        <4> HIDE DEF B
        <4>2. [Idle EXCEPT !.file = s.file[c], !.count = Parts[s.want[c]], !.from = l, !.buffer = B] \in Machine
          BY <3>1, <4>1, IdleFacts DEF Machine
        <4> QED BY <4>2 DEF B
      <3> DEFINE m == [Idle EXCEPT !.file = s.file[c], !.count = Parts[s.want[c]],
                       !.from = l, !.buffer = [i \in 1 .. Parts[s.want[c]] |-> <<0, 0>>]]
      <3>4. ms' = [ms EXCEPT ![n] = m]
        BY <1>5, <2>2 DEF Answering
      <3>5. m \in Machine
        BY <3>3
      <3>6. ms \in [Node -> Machine]
        BY <1>1 DEF Typed
      <3> HIDE DEF m
      <3>7. ms' \in [Node -> Machine]
        BY <3>4, <3>5, <3>6
      <3> QED BY <1>11, <2>2, <3>1, <3>7
    <2> QED BY <2>1, <2>2
  <1>13. Typed'
    <2>1. \A m \in Node : ms'[m].found <= ms'[m].count
      BY <1>1, <1>8, <1>12 DEF Typed
    <2>2. merged' \in BOOLEAN
      BY <1>5 DEF Answering
    <2> QED BY <1>1, <1>2, <1>8, <1>9, <1>12, <2>1, <2>2 DEF Typed
  <1>14. Link(s, t2, l)' /\ Link(s, t2, r)'
    BY <1>3, <1>4, <1>5, <1>6, <1>7, <1>9, <1>10, AnswerLinks
  <1>15. Thread(s, t2, n)'
    <2>1. \A x \in Conns : /\ t[x] # "none" => t2[x] # "none"
                           /\ t[x] \notin {"none", "queued", "identify"} =>
                                t2[x] \notin {"none", "queued", "identify"}
      BY <1>4, <1>6, <1>7
    <2>2. t[r] # "refused" => ms'[n].from = l
      BY <1>11
    <2> QED BY <1>1, <1>2, <1>4, <1>6, <1>8, <2>1, <2>2 DEF Thread, Position, Collecting
  <1>16. Inquiry(s, t2)'
    <2>1. \A y \in Conns : t[y] = "asking" => t2[y] = "asking"
      BY <1>4, <1>7
    <2>2. \A y \in Conns : y.kind \in {"ask", "deliver"} /\ t[y] = "none" /\ t2[y] # "none" =>
                              y.kind = "deliver" /\ t[AskOf(y.c, y.i)] # "none"
      BY <1>4, <1>7
    <2> QED BY <1>4, <1>9, <1>10, <2>1, <2>2, InquiryApart
  <1>17. Handout(s, t2)'
    <2>1. /\ \A y \in Conns : t[y] = "fanout" => t2[y] = "fanout"
          /\ \A y \in Conns : y.kind = "store" => (t2[y] = "none" <=> t[y] = "none")
      BY <1>4, <1>7
    <2> QED BY <1>4, <1>9, <1>10, <2>1, HandoutApart
  <1>18. Numbering(s, t2)'
    <2>1. \A y \in Conns : t2[y] \in {"fanout", "stored"} <=> t[y] \in {"fanout", "stored"}
      BY <1>4, <1>6, <1>7
    <2> QED BY <1>9, <2>1, FilesApart
  <1>19. Shelves(s, t2)'
    <2>1. /\ \A y \in Conns : t2[y] = "stored" <=> t[y] = "stored"
          /\ \A y \in Conns : y.kind = "store" => (t2[y] = "over" <=> t[y] = "over")
      BY <1>4, <1>6, <1>7
    <2> QED BY <1>9, <2>1, ShelvesApart
  <1>20. Ripple(s, t, t2, n)
    <2>1. ~IsCall(s, l)
      BY <1>4 DEF IsCall
    <2> QED BY <1>4, <1>6, <1>7, <2>1 DEF Ripple, Dialling
  <1>21. Queues(t2)'
    <2>1. \A y \in Conns : t[y] = "queued" => t2[y] = "queued"
      BY <1>4, <1>7
    <2> QED BY <1>1, <1>2, <2>1, QueuesKept
  <1>22. DOMAIN wire' = {y \in Conns : t2[y] # "none"}
    BY <1>1, <1>4, <1>5, <1>6, <1>7 DEF Answering
  <1> DEFINE K == {l, r}
  <1>23. \A x \in Conns \ K : t2[x] = t[x] /\ (t[x] # "none" => wire'[x] = wire[x])
    BY <1>1, <1>5, <1>7 DEF Answering
  <1>24. \A x \in Conns : x \in K => x.c = c /\ (t[x] = "stored" => t2[x] = "stored")
    BY <1>4, <1>7
  <1>25. \A x \in Conns : x \in K /\ t2[x] # "none" => Link(s, t2, x)' /\ Bound(s, t2, x)
    BY <1>4, <1>14 DEF Bound
  <1>26. /\ client[c] # "off" /\ UNCHANGED <<client, got, at>>
         /\ \A id \in DOMAIN files : id \in DOMAIN files' /\ files'[id] = files[id]
         /\ (LineOf(s, c) \in K /\ Forwarded(s, c) => wire'[LineOf(s, c)].up = <<>>)
         /\ \A m \in Node : \A x \in DOMAIN backlog[m] :
              backlog[m][x] \notin K => \E y \in DOMAIN backlog'[m] : backlog'[m][y] = backlog[m][x]
         /\ (pc[n] \notin {"idle", "collect"} => fd[n] \in K) /\ (pc[n] = "call" => call[n].conn \in K)
         /\ \A d \in Client \ {c} : d \in complete' <=> d \in complete
         /\ (pc[n] \in Collecting => \/ pc'[n] \in Collecting /\ ms'[n] = ms[n]
                                     \/ ms[n].from = LineOf(s, c))
    BY <1>2, <1>4, <1>9 DEF Forwarded, Collecting
  <1>27. (Granted(s, t, c) => Granted(s, t2, c)) /\ (Numbered(s, t, c) => Numbered(s, t2, c))
    BY <1>4, <1>7 DEF Granted, Numbered
  <1> HIDE DEF K
  <1> QED BY <1>10, <1>11, <1>13, <1>15, <1>16, <1>17, <1>18, <1>19, <1>20, <1>21, <1>22, <1>23, <1>24,
             <1>25, <1>26, <1>27, OneRequest, ZenonT(60)

-----------------------------------------------------------------------------
(* The node that collects *)

\* Node n collects the fragments for client c, which it has on l.
Collects(s, t, n, c, l) ==
    /\ l = LineOf(s, c) /\ l \in Conns /\ l.kind = "client" /\ l.c = c /\ l.to = n /\ t[l] = "collect"
    /\ s.home[c] = n /\ n # Index /\ ms[n].from = l /\ ms[n].file = s.file[c]
    /\ client[c] \in {"asked", "fetch"} /\ client[c] # "off" /\ s.op[c] = "read"
    /\ Granted(s, t, c) /\ ~Forwarded(s, c) /\ ~Numbered(s, t, c) /\ c \notin complete
    /\ Link(s, t, l) /\ Tally(s, t, c)

\* A node that collects does so for the line of one client that has been granted its file.
LEMMA OnCollect ==
    ASSUME NEW s \in Stories, NEW t \in [Conns -> Stage], Explains(s, t), NEW n \in Node, pc[n] \in Collecting
    PROVE  \E c \in Client, l \in Conns : Collects(s, t, n, c, l)
  <1> DEFINE l == ms[n].from
             c == l.c
  <1>1. l \in Conns /\ l.kind = "client" /\ l.to = n /\ t[l] = "collect"
    BY DEF Explains, Thread
  <1>2. Link(s, t, l) /\ client[c] # "off" /\ c \in Client
    BY <1>1, Attached, ConnType
  <1>3. l = LineOf(s, c)
    BY <1>1, <1>2 DEF Link, Shape
  <1>4. s.home[c] = n
    BY <1>1, <1>2, <1>3, ConnsOf
  <1>5. n # Index /\ client[c] \in {"asked", "fetch"}
    BY <1>1, <1>2 DEF Link, LineTalk, Promised, Is
  <1>6. Granted(s, t, c)
    BY <1>1, GrantedWhen
  <1>7. s.op[c] = "read" /\ ~Forwarded(s, c) /\ ~Numbered(s, t, c) /\ c \notin complete
    BY <1>2, <1>6, GrantedFile
  <1>8. Tally(s, t, c)
    BY <1>2 DEF Explains, Request
  <1>9. ms[n].file = s.file[c]
    BY <1>1, <1>3, <1>4, <1>8 DEF Tally
  <1>10. Collects(s, t, n, c, l)
    BY <1>1, <1>2, <1>3, <1>4, <1>5, <1>6, <1>7, <1>8, <1>9 DEF Collects
  <1> QED BY <1>1, <1>2, <1>10

\* A delivery that n serves is one that it collects.
LEMMA Delivery ==
    ASSUME NEW s \in Stories, NEW t \in [Conns -> Stage], Explains(s, t), NEW n \in Node, pc[n] \in Collecting,
           NEW k \in Conns, k.kind = "deliver", t[k] \in {"hello", "said", "ok", "raw"}, k.to = n
    PROVE  \E c \in Client, l \in Conns :
             /\ Collects(s, t, n, c, l) /\ k.c = c /\ k = DeliverOf(s, c, k.i)
             /\ k.i \in 1 .. Parts[s.want[c]] /\ k.i \in Node
  <1> DEFINE c == k.c
             l == LineOf(s, c)
  <1>1. PICK c0 \in Client, l0 \in Conns : Collects(s, t, n, c0, l0)
    BY OnCollect
  <1>2. c \in Client /\ Link(s, t, k) /\ client[c] # "off"
    BY ConnType, Attached
  <1>3. k = DeliverOf(s, c, k.i) /\ k.i \in 1 .. Parts[s.want[c]] /\ s.home[c] # Index
    BY <1>2 DEF Link, Shape
  <1>4. k.i \in Node
    BY <1>2, <1>3, StoryType, PartsFacts
  <1>5. s.home[c] = n /\ l \in Conns /\ l.kind = "client" /\ l.to = n
    BY <1>2, <1>3, ConnsOf
  <1>6. Fetch(s, t, c, k.i)
    BY <1>2, <1>3 DEF Explains, Request
  <1>7. t[l] \in {"answer", "collect"}
    BY <1>3, <1>6 DEF Fetch, Undelivered
  <1>8. Link(s, t, l)
    BY <1>5, <1>7, Attached
  <1>9. t[l] # "answer"
    BY <1>5, <1>8 DEF Link, Seat, Collecting
  <1>10. Tally(s, t, c)
    BY <1>2 DEF Explains, Request
  <1>11. ms[n].from = l
    BY <1>5, <1>7, <1>9, <1>10 DEF Tally
  <1>12. l0 = l
    BY <1>1, <1>11 DEF Collects
  <1>13. l.c = c /\ l0.c = c0
    BY <1>1, <1>2, ConnsOf DEF Collects
  <1>14. c0 = c
    BY <1>12, <1>13
  <1> QED BY <1>1, <1>2, <1>3, <1>4, <1>5, <1>12, <1>14

\* Fragment k.i has come on connection k.
Comes(s, t, n, k) ==
    /\ k.kind = "deliver" /\ fd[n] = k /\ k.to = n /\ k \in DOMAIN wire
    /\ \/ t[k] = "raw" /\ pc[n] = "collect_raw"
       \/ t[k] = "said" /\ pc[n] = "collect_packet" /\ k.i = n
    /\ Flows(wire, wire', k, <<>>, <<Ok>>)
    /\ ms' = [ms EXCEPT ![n] = Collected(@, k.i, <<<<s.owner[s.file[k.c]], k.i>>>>)]
    /\ pc' = [pc EXCEPT ![n] = "collect"] /\ merged' \in BOOLEAN
    /\ UNCHANGED <<backlog, fd, client_fd, packet, call, todo, data, user, strayed>>

\* One fragment more in the buffer.
LEMMA CollectedFacts ==
    ASSUME NEW m \in Machine, NEW i \in DOMAIN m.buffer, NEW e \in Part
    PROVE  /\ Collected(m, i, <<e>>) \in Machine
           /\ Collected(m, i, <<e>>).found = m.found + 1 /\ Collected(m, i, <<e>>).count = m.count
           /\ Collected(m, i, <<e>>).from = m.from /\ Collected(m, i, <<e>>).file = m.file
           /\ Collected(m, i, <<e>>).buffer = [m.buffer EXCEPT ![i] = e]
  <1>1. m.buffer \in Seq(Part) /\ m.found \in Nat
    BY DEF Machine
  <1>2. [m.buffer EXCEPT ![i] = e] \in Seq(Part)
    <2> DEFINE P == Part
    <2>1. m.buffer \in Seq(P) /\ e \in P
      BY <1>1
    <2> HIDE DEF P
    <2>2. [m.buffer EXCEPT ![i] = e] \in Seq(P)
      BY <2>1
    <2> QED BY <2>2 DEF P
  <1>3. <<e>>[1] = e
    OBVIOUS
  <1> DEFINE b == [m.buffer EXCEPT ![i] = e]
  <1>4. Collected(m, i, <<e>>) = [m EXCEPT !.buffer = b, !.found = m.found + 1]
    BY <1>3 DEF Collected
  <1>5. b \in Seq(Part)
    BY <1>2
  <1> HIDE DEF b
  <1> DEFINE r == Collected(m, i, <<e>>)
             v == [m EXCEPT !.buffer = b, !.found = m.found + 1]
  <1>6. /\ v \in Machine /\ v.found = m.found + 1 /\ v.buffer = b
        /\ v.count = m.count /\ v.from = m.from /\ v.file = m.file
    <2> DEFINE T == Node \cup {Nowhere}
               F == Conns \cup {NoConn}
               B == Seq(Part)
               M == [file : Nat, count : Nat, found : Nat, to : T, from : F, buffer : B]
    <2>1. m \in M /\ b \in B /\ m.found + 1 \in Nat /\ M = Machine
      BY <1>1, <1>5 DEF Machine
    <2> HIDE DEF T, F, B
    <2>2. v \in M
      BY <2>1
    <2>3. /\ v.found = m.found + 1 /\ v.buffer = b
          /\ v.count = m.count /\ v.from = m.from /\ v.file = m.file
      BY <2>1
    <2> QED BY <2>1, <2>2, <2>3
  <1>7. b = [m.buffer EXCEPT ![i] = e]
    BY DEF b
  <1>8. r = v
    BY <1>4
  <1> HIDE DEF v, r
  <1>9. /\ r \in Machine /\ r.found = m.found + 1 /\ r.count = m.count
        /\ r.from = m.from /\ r.file = m.file /\ r.buffer = [m.buffer EXCEPT ![i] = e]
    BY <1>6, <1>7, <1>8
  <1> QED BY <1>9 DEF r

\* A delivery that ends makes one fragment more that has arrived.
LEMMA ArrivedNext ==
    ASSUME NEW s \in Stories, NEW t \in [Conns -> Stage], NEW t2 \in [Conns -> Stage], NEW k \in Conns, NEW c \in Client,
           k = DeliverOf(s, c, k.i), k.i \in 1 .. Parts[s.want[c]],
           t[k] \notin Delivered, t2[k] = "done", \A x \in Conns \ {k} : t2[x] = t[x]
    PROVE  /\ Arrived(s, t2, c) = Arrived(s, t, c) \cup {k.i} /\ k.i \notin Arrived(s, t, c)
           /\ Cardinality(Arrived(s, t2, c)) = Cardinality(Arrived(s, t, c)) + 1
  <1>1. \A i \in 1 .. Parts[s.want[c]] : i \in Node
    BY StoryType, PartsFacts
  <1>2. \A i \in 1 .. Parts[s.want[c]] : i # k.i =>
          t2[DeliverOf(s, c, i)] = t[DeliverOf(s, c, i)]
    BY <1>1, ConnsOf
  <1>3. /\ Arrived(s, t2, c) = Arrived(s, t, c) \cup {k.i} /\ k.i \notin Arrived(s, t, c)
    BY <1>2 DEF Arrived, Delivered
  <1>4. IsFiniteSet(Arrived(s, t, c))
    <2>1. Parts[s.want[c]] \in Nat
      BY StoryType, PartsFacts
    <2>2. 1 \in Int /\ Parts[s.want[c]] \in Int
      BY <2>1
    <2>3. IsFiniteSet(1 .. Parts[s.want[c]])
      BY <2>2, FS_Interval, Zenon
    <2>4. Arrived(s, t, c) \in SUBSET (1 .. Parts[s.want[c]])
      BY DEF Arrived
    <2> QED BY <2>3, <2>4, FS_Subset
  <1> QED BY <1>3, <1>4, FS_AddElement

\* What has been collected is what has arrived, also behind the next fragment.
LEMMA TallyNext ==
    ASSUME NEW s \in Stories, NEW t \in [Conns -> Stage], Explains(s, t), NEW t2 \in [Conns -> Stage], NEW n \in Node,
           NEW c \in Client, NEW l \in Conns, Collects(s, t, n, c, l), pc[n] \in Collecting,
           NEW k \in Conns, Comes(s, t, n, k), k.c = c, k = DeliverOf(s, c, k.i), k.i \in 1 .. Parts[s.want[c]],
           t2[k] = "done", \A x \in Conns \ {k} : t2[x] = t[x]
    PROVE  /\ Tally(s, t2, c)' /\ ms' \in [Node -> Machine] /\ \A m \in Node \ {n} : ms'[m] = ms[m]
           /\ ms'[n].found = ms[n].found + 1 /\ ms'[n].count = ms[n].count /\ ms'[n].from = ms[n].from
  <1>1. /\ l = LineOf(s, c) /\ t[l] = "collect" /\ s.home[c] = n /\ Tally(s, t, c)
    BY DEF Collects
  <1> DEFINE F == s.want[c]
             id == s.file[c]
             e == <<s.owner[id], k.i>>
  <1>2. /\ ms[n].file = id /\ ms[n].from = l /\ ms[n].count = Parts[F] /\ ms[n].found = Cardinality(Arrived(s, t, c))
        /\ ms[n].buffer = [i \in 1 .. Parts[F] |-> IF i \in Arrived(s, t, c) THEN <<s.owner[id], i>> ELSE <<0, 0>>]
    BY <1>1 DEF Tally
  <1>3. e \in Part
    <2>1. s.file[c] \in Nat /\ s.owner[s.file[c]] \in Client \cup {0} /\ k.i \in Nat
      BY StoryType, ConnType
    <2> QED BY <2>1, Zenon DEF Part
  <1>4. ms \in [Node -> Machine] /\ DOMAIN pc = Node
    BY DEF Explains, Typed
  <1>5. k.i \in DOMAIN ms[n].buffer
    BY <1>2
  <1>6. ms' = [ms EXCEPT ![n] = Collected(ms[n], k.i, <<e>>)] /\ pc' = [pc EXCEPT ![n] = "collect"]
    BY DEF Comes
  <1> DEFINE r == Collected(ms[n], k.i, <<e>>)
  <1>7. /\ r \in Machine /\ r.found = ms[n].found + 1 /\ r.count = ms[n].count
        /\ r.from = ms[n].from /\ r.file = ms[n].file /\ r.buffer = [ms[n].buffer EXCEPT ![k.i] = e]
    <2>1. ms[n] \in Machine
      BY <1>4
    <2> HIDE DEF e
    <2> QED BY <1>3, <1>5, <2>1, CollectedFacts
  <1>8. ms' = [ms EXCEPT ![n] = r]
    BY <1>6
  <1> HIDE DEF r
  <1>9. /\ ms' \in [Node -> Machine] /\ ms'[n] = r /\ \A m \in Node \ {n} : ms'[m] = ms[m]
    BY <1>4, <1>7, <1>8
  <1>10. t[k] \notin Delivered
    BY DEF Comes, Delivered
  <1>11. /\ Arrived(s, t2, c) = Arrived(s, t, c) \cup {k.i}
         /\ Cardinality(Arrived(s, t2, c)) = Cardinality(Arrived(s, t, c)) + 1
    BY <1>10, ArrivedNext
  <1>12. r.buffer = [i \in 1 .. Parts[F] |->
                       IF i \in Arrived(s, t2, c) THEN <<s.owner[id], i>> ELSE <<0, 0>>]
    BY <1>2, <1>7, <1>11
  <1>13. pc'[n] \in Collecting
    BY <1>4, <1>6 DEF Collecting
  <1>14. Arrived(s, t2, c)' = Arrived(s, t2, c)
    BY DEF Arrived
  <1>15. Tally(s, t2, c)'
    BY <1>1, <1>2, <1>7, <1>9, <1>11, <1>12, <1>13, <1>14 DEF Tally
  <1> QED BY <1>7, <1>9, <1>15

\* The bytes of a delivery go to their place in the buffer.
LEMMA DeliveredStep ==
    ASSUME NEW s \in Stories, NEW t \in [Conns -> Stage], Explains(s, t), NEW n \in Node, pc[n] \in Collecting,
           NEW k \in Conns, Comes(s, t, n, k)
    PROVE  \E t2 \in [Conns -> Stage] : Explains(s, t2)'
  <1>1. /\ Thread(s, t, n) /\ Typed /\ Queues(t) /\ DOMAIN wire = {y \in Conns : t[y] # "none"}
    BY DEF Explains
  <1>2. /\ k.kind = "deliver" /\ fd[n] = k /\ k.to = n /\ k \in DOMAIN wire /\ t[k] \in {"raw", "said"}
        /\ (t[k] = "raw" => pc[n] = "collect_raw") /\ (t[k] = "said" => pc[n] = "collect_packet" /\ k.i = n)
        /\ Flows(wire, wire', k, <<>>, <<Ok>>)
        /\ pc' = [pc EXCEPT ![n] = "collect"] /\ merged' \in BOOLEAN
        /\ UNCHANGED <<backlog, fd, client_fd, packet, call, todo, data, user, strayed>>
    BY DEF Comes
  <1>3. PICK c \in Client, l \in Conns :
             /\ Collects(s, t, n, c, l) /\ k.c = c /\ k = DeliverOf(s, c, k.i)
             /\ k.i \in 1 .. Parts[s.want[c]] /\ k.i \in Node
    BY <1>2, Delivery
  <1>4. /\ l = LineOf(s, c) /\ l.kind = "client" /\ t[l] = "collect" /\ s.home[c] = n /\ n # Index
        /\ ms[n].from = l /\ client[c] # "off" /\ ~Forwarded(s, c)
        /\ Granted(s, t, c) /\ ~Numbered(s, t, c)
    BY <1>3 DEF Collects
  <1>5. PICK t2 \in [Conns -> Stage] : t2[k] = "done" /\ SameBut(t, t2, k)
    <2>1. "done" \in Stage
      BY DEF Stage, CallStages
    <2> QED BY <2>1, Advance
  <1>6. \A y \in Conns \ {k} : t2[y] = t[y]
    BY <1>5 DEF SameBut
  <1>7. /\ Tally(s, t2, c)' /\ ms' \in [Node -> Machine] /\ \A m \in Node \ {n} : ms'[m] = ms[m]
        /\ ms'[n].found = ms[n].found + 1 /\ ms'[n].count = ms[n].count /\ ms'[n].from = l
    BY <1>3, <1>4, <1>5, <1>6, TallyNext
  <1>8. /\ DOMAIN pc' = Node /\ pc'[n] = "collect" /\ \A m \in Node \ {n} : pc'[m] = pc[m]
    BY <1>1, <1>2 DEF Typed
  <1>9. UNCHANGED <<client, got, at, files, complete, overlap, fs>> /\ UNCHANGED <<files, fs>>
        /\ fd' = fd /\ todo' = todo /\ client_fd' = client_fd /\ files' = files
    BY <1>2 DEF user, data
  <1>10. Elsewhere(n)
    BY <1>2, <1>7, <1>8 DEF Elsewhere
  <1>11. Typed'
    <2>1. ms[n].found < ms[n].count /\ ms[n].found \in Nat /\ ms[n].count \in Nat
      BY <1>1, <1>2 DEF Thread, Collecting, Typed, Machine
    <2>2. \A m \in Node : ms'[m].found <= ms'[m].count
      BY <1>1, <1>7, <2>1 DEF Typed
    <2> QED BY <1>1, <1>2, <1>7, <1>8, <1>9, <2>2 DEF Typed
  <1>12. Link(s, t2, k)'
    <2>1. Link(s, t, k)
      BY <1>2, Attached
    <2>2. Shape(s, t2, k)
      BY <1>2, <1>5, <2>1 DEF Link, Shape, CallStages
    <2>3. Seat(t2, k)'
      BY <1>5 DEF Seat
    <2>4. Caller(s, t2, k)'
      <3>1. t[k] = "said" => ~HasBytes(s, k)
        BY <1>2, <1>3, <1>4 DEF HasBytes
      <3>2. Dialling(s, t2, k) => Dialling(s, t, k) /\ Remaining(s, t2, k) = Remaining(s, t, k)
        BY <1>2, <1>5, <3>1 DEF Dialling, Remaining, Rest
      <3> QED BY <1>2, <1>10, <2>1, <3>2, CallerWaits DEF Link
    <2>5. CallTalk(s, t2, k)' /\ LineTalk(s, t2, k)' /\ RelayTalk(s, t2, k)'
      BY <1>2, <1>5 DEF CallTalk, LineTalk, RelayTalk, Flows
    <2> QED BY <1>2, <2>2, <2>3, <2>4, <2>5 DEF Link, Flows
  <1>13. Thread(s, t2, n)'
    <2>1. \A x \in Conns : /\ t[x] # "none" => t2[x] # "none"
                           /\ t[x] \notin {"none", "queued", "identify"} =>
                                t2[x] \notin {"none", "queued", "identify"}
      BY <1>2, <1>5, <1>6
    <2>2. t2[l] = "collect" /\ l \in Conns /\ l.to = n
      BY <1>2, <1>3, <1>4, <1>6 DEF Collects
    <2> QED BY <1>1, <1>2, <1>4, <1>7, <1>8, <2>1, <2>2 DEF Thread, Position, Collecting
  <1>14. Inquiry(s, t2)' /\ Handout(s, t2)'
    <2>1. t[k] \notin {"none", "fanout", "stored", "asking"} /\ t2[k] \notin {"none", "fanout", "stored"}
          /\ pc'[n] \notin {"ask", "fanout", "call"}
      BY <1>2, <1>5, <1>8
    <2> QED BY <1>5, <1>9, <1>10, <2>1, SoftAside
  <1>15. Numbering(s, t2)'
    <2>1. \A y \in Conns : t2[y] \in {"fanout", "stored"} <=> t[y] \in {"fanout", "stored"}
      BY <1>2, <1>5, <1>6
    <2> QED BY <1>9, <2>1, FilesApart
  <1>16. Shelves(s, t2)'
    <2>1. /\ \A y \in Conns : t2[y] = "stored" <=> t[y] = "stored"
          /\ \A y \in Conns : y.kind = "store" => (t2[y] = "over" <=> t[y] = "over")
      BY <1>2, <1>5, <1>6
    <2> QED BY <1>9, <2>1, ShelvesApart
  <1>17. Request(s, t2, c)'
    <2>1. /\ Request(s, t, c) /\ Numbering(s, t) /\ HandedOut(s, t, c)
          /\ \A i \in 1 .. Parts[s.want[c]] : s.home[c] # Index => Fetch(s, t, c, i)
      BY <1>4 DEF Explains, Request
    <2>2. LineOf(s, c) \in Conns \ {k} /\ RelayOf(s, c) \in Conns \ {k} /\ Job(s, c) \in Conns \ {k}
      BY <1>2, ConnsOf
    <2>3. t2[LineOf(s, c)] = t[LineOf(s, c)] /\ t2[RelayOf(s, c)] = t[RelayOf(s, c)] /\ t2[Job(s, c)] = t[Job(s, c)]
      BY <1>6, <2>2
    <2>4. ASSUME NEW i \in 1 .. Parts[s.want[c]], s.home[c] # Index PROVE Fetch(s, t2, c, i)
      <3>1. i \in Node
        BY StoryType, PartsFacts
      <3>2. AskOf(c, i) \in Conns \ {k} /\ DeliverOf(s, c, i) \in Conns
        BY <1>2, <3>1, ConnsOf
      <3>3. t2[AskOf(c, i)] = t[AskOf(c, i)]
        BY <1>6, <3>2
      <3>4. Fetch(s, t, c, i)
        BY <2>1, <2>4
      <3>5. CASE DeliverOf(s, c, i) = k
        BY <1>2, <1>4, <1>5, <2>3, <3>3, <3>4, <3>5 DEF Fetch, Undelivered, Delivered
      <3>6. CASE DeliverOf(s, c, i) # k
        <4>1. t2[DeliverOf(s, c, i)] = t[DeliverOf(s, c, i)]
          BY <1>6, <3>2, <3>6
        <4> QED BY <2>3, <3>3, <3>4, <4>1 DEF Fetch
      <3> QED BY <3>5, <3>6
    <2>5. HandedOut(s, t2, c)
      <3>1. t[Job(s, c)] # "stored"
        BY <1>4 DEF Numbered
      <3> QED BY <2>3, <3>1 DEF HandedOut
    <2>6. t[RelayOf(s, c)] \in {"asking", "asked", "refused"} =>
             wire'[RelayOf(s, c)].down = wire[RelayOf(s, c)].down
      BY <1>1, <1>2, <2>2 DEF Flows, SameBut
    <2>7. \A x \in Conns : t[x] = "stored" => t2[x] = "stored"
      BY <1>2, <1>6
    <2>8. UNCHANGED <<client, got, at, files>> /\ (c \in complete' <=> c \in complete)
      BY <1>9
    <2> QED BY <1>7, <2>1, <2>3, <2>4, <2>5, <2>6, <2>7, <2>8, RequestAgain
  <1>18. Ripple(s, t, t2, n)
    <2>1. Dialling(s, t2, k)
      BY <1>2, <1>5 DEF Dialling, IsCall
    <2> QED BY <1>2, <1>5, <1>6, <2>1 DEF Ripple
  <1>19. SameBut(wire, wire', k) /\ Bound(s, t2, k)
    <2>1. t2[Job(s, c)] = t[Job(s, c)]
      BY <1>2, <1>6, ConnsOf
    <2> QED BY <1>2, <1>3, <1>4, <2>1 DEF Bound, Granted, Flows
  <1>20. /\ t[k] \notin {"none", "queued", "stored"} /\ t2[k] # "none"
         /\ (k = LineOf(s, c) /\ Forwarded(s, c) => wire'[k].up = <<>>)
         /\ (pc[n] \notin {"idle", "collect"} => fd[n] = k) /\ (pc[n] = "call" => call[n].conn = k)
         /\ \A d \in Client \ {c} : d \in complete' <=> d \in complete
         /\ (pc[n] \in Collecting => \/ pc'[n] \in Collecting /\ ms'[n] = ms[n]
                                    \/ ms[n].from = LineOf(s, c))
         /\ UNCHANGED <<client, got, at, backlog>>
         /\ \A id \in DOMAIN files : id \in DOMAIN files' /\ files'[id] = files[id]
    BY <1>2, <1>4, <1>5, <1>9
  <1>21. (Granted(s, t, c) => Granted(s, t2, c)) /\ (Numbered(s, t, c) => Numbered(s, t2, c))
    <2>1. t2[Job(s, c)] = t[Job(s, c)]
      BY <1>2, <1>6, ConnsOf
    <2> QED BY <2>1 DEF Granted, Numbered
  <1> QED BY <1>3, <1>4, <1>5, <1>10, <1>11, <1>12, <1>13, <1>14, <1>15, <1>16, <1>17, <1>18, <1>19, <1>20,
             <1>21, OneConn, ZenonT(60)

-----------------------------------------------------------------------------
(* CollectPacket *)

\* What node n, which collects, finds on the connection k that it has accepted.
Delivers(s, t, n, k) ==
    /\ k.kind = "deliver" /\ t[k] = "said" /\ fd[n] = k /\ k.to = n /\ Link(s, t, k)
    /\ k \in DOMAIN wire /\ DOMAIN wire[k] = {"up", "down"}
    /\ wire[k].up = <<First(s, k)>> /\ wire[k].down = <<>>
Foreign(s, t, n, k) ==
    /\ fd[n] = k /\ k.to = n /\ Queue(k, n)[1].type \notin {"USE_LOCAL", "DECLARE_FRAG"}
    /\ \/ k.kind \in {"ask", "store"} /\ t[k] = "said"
       \/ k.kind = "client" /\ t[k] = "open" /\ client[k.c] \in {"creating", "sent", "asked"}

\* The packet that a collecting node finds behind a presentation is a delivery, or foreign.
LEMMA OnCollectPacket ==
    ASSUME NEW s \in Stories, NEW t \in [Conns -> Stage], Explains(s, t), NEW n \in Node,
           pc[n] = "collect_packet", Queue(fd[n], n) # <<>>
    PROVE  \E k \in Conns : Delivers(s, t, n, k) \/ Foreign(s, t, n, k)
  <1> DEFINE k == fd[n]
  <1>1. Serves(t, n, {"hello", "said", "open"})
    BY DEF Explains, Thread
  <1>2. /\ k \in Conns /\ k.to = n /\ t[k] \in {"hello", "said", "open"} /\ Link(s, t, k)
        /\ k \in DOMAIN wire /\ DOMAIN wire[k] = {"up", "down"} /\ Queue(k, n) = wire[k].up
    BY <1>1, Served
  <1>3. n # Index
    BY CollectorIsNoIndex DEF Collecting
  <1>4. k.kind # "relay"
    BY <1>2, <1>3, ConnType, ConnsOf DEF Link, Shape
  <1>5. k.kind \in {"client", "ask", "deliver", "store"}
    BY <1>2, <1>4, ConnType DEF Kinds
  <1>6. CASE k.kind = "client"
    <2>1. t[k] = "open"
      BY <1>2, <1>6 DEF Link, Shape, LineStages
    <2>2. \/ client[k.c] = "creating" /\ wire[k].up = <<Creation(s, k.c)>>
          \/ client[k.c] = "sent" /\ wire[k].up = <<Creation(s, k.c), Bytes(s, k.c)>>
          \/ client[k.c] = "asked" /\ wire[k].up = <<Wish(s, k.c)>>
      BY <1>2, <1>6, <2>1 DEF Link, LineTalk, Is, Has
    <2>3. wire[k].up[1] \in {Creation(s, k.c), Wish(s, k.c)}
      BY <2>2
    <2>4. wire[k].up[1].type \in {"CREATE_FILE", "REQUEST_FILE"}
      BY <2>3, PacketFacts DEF Creation, Wish
    <2>5. Foreign(s, t, n, k)
      BY <1>2, <1>6, <2>1, <2>2, <2>4 DEF Foreign
    <2> QED BY <1>2, <2>5
  <1>7. CASE k.kind # "client"
    <2>1. IsCall(s, k) /\ t[k] # "open"
      BY <1>2, <1>5, <1>7 DEF IsCall, Link, Shape, CallStages
    <2>2. t[k] = "said" /\ wire[k].up = <<First(s, k)>> /\ wire[k].down = <<>>
      BY <1>2, <2>1 DEF Link, CallTalk, Has
    <2>3. CASE k.kind = "deliver"
      <3>1. Delivers(s, t, n, k)
        BY <1>2, <2>2, <2>3 DEF Delivers
      <3> QED BY <1>2, <3>1
    <2>4. CASE k.kind # "deliver"
      <3>1. k.kind \in {"ask", "store"} /\ wire[k].up[1] = First(s, k)
        BY <1>5, <1>7, <2>2, <2>4
      <3>2. First(s, k).type \in {"REQUEST_FRAG", "STORE_FRAGMENT"}
        BY <3>1, PacketFacts DEF First
      <3>3. Foreign(s, t, n, k)
        BY <1>2, <2>2, <3>1, <3>2 DEF Foreign
      <3> QED BY <1>2, <3>3
    <2> QED BY <2>3, <2>4
  <1> QED BY <1>6, <1>7

\* A delivery is one for the read that the node collects for.
LEMMA DeliveryIsNoStranger ==
    ASSUME NEW s \in Stories, NEW t \in [Conns -> Stage], Explains(s, t), NEW n \in Node, pc[n] \in Collecting,
           NEW k \in Conns, Delivers(s, t, n, k)
    PROVE  ~Stranger(n, k, Queue(k, n)[1])
  <1>1. /\ k.kind = "deliver" /\ t[k] = "said" /\ k.to = n /\ wire[k].up = <<First(s, k)>>
    BY DEF Delivers
  <1>2. Queue(k, n)[1] = First(s, k)
    BY <1>1 DEF Queue, In
  <1>3. First(s, k).type \in {"USE_LOCAL", "DECLARE_FRAG"}
    BY <1>1, PacketFacts DEF First
  <1>4. PICK c \in Client, l \in Conns : Collects(s, t, n, c, l) /\ k.c = c
    BY <1>1, Delivery
  <1>5. k.c = ms[n].from.c
    BY <1>4 DEF Collects
  <1> QED BY <1>2, <1>3, <1>5 DEF Stranger

\* The reader is told to take the fragment from its own store.
LEMMA UseLocalComes ==
    ASSUME NEW s \in Stories, NEW t \in [Conns -> Stage], Explains(s, t), NEW n \in Node, CollectPacket(n),
           NEW k \in Conns, Delivers(s, t, n, k), k.i = s.home[k.c]
    PROVE  Comes(s, t, n, k)
  <1>1. /\ k.kind = "deliver" /\ t[k] = "said" /\ fd[n] = k /\ k.to = n
        /\ k \in DOMAIN wire /\ DOMAIN wire[k] = {"up", "down"}
        /\ wire[k].up = <<First(s, k)>> /\ wire[k].down = <<>>
    BY DEF Delivers
  <1>2. First(s, k) = UseLocal(k.i)
    BY <1>1 DEF First
  <1>3. Queue(k, n) = <<UseLocal(k.i)>>
    BY <1>1, <1>2 DEF Queue, In
  <1>4. UseLocal(k.i).type = "USE_LOCAL" /\ UseLocal(k.i).frag = k.i /\ Queue(k, n)[1] = UseLocal(k.i)
    BY <1>3, PacketFacts
  <1>5. pc[n] = "collect_packet" /\ pc[n] \in Collecting
    BY DEF CollectPacket, At, Collecting
  <1>6. PICK c \in Client, l \in Conns :
             /\ Collects(s, t, n, c, l) /\ k.c = c /\ k = DeliverOf(s, c, k.i)
             /\ k.i \in 1 .. Parts[s.want[c]] /\ k.i \in Node
    BY <1>1, <1>5, Delivery
  <1>7. k.i = n /\ ms[n].file = s.file[c] /\ Granted(s, t, c) /\ client[c] # "off"
    BY <1>6 DEF Collects
  <1>8. Stocked(s, t, s.file[c]) /\ files[s.file[c]] = s.want[c]
    BY <1>7, GrantedFile
  <1>9. n <= Parts[s.want[c]]
    BY <1>6, <1>7
  <1>10. LocalFragment(fs[n][s.file[c]], n) = Fragment(s, s.file[c], n)
    BY <1>5, <1>8, <1>9, OwnFragment
  <1> DEFINE f == LocalFragment(fs[n][ms[n].file], k.i)
  <1>11. f.id = k.i /\ f.bytes = <<<<s.owner[s.file[k.c]], k.i>>>>
    BY <1>6, <1>7, <1>10 DEF Fragment
  <1>12. /\ ms' = [ms EXCEPT ![n] = Collected(@, f.id, f.bytes)]
         /\ pc' = [pc EXCEPT ![n] = "collect"] /\ UNCHANGED <<packet, strayed>>
         /\ UNCHANGED <<backlog, fd, client_fd, call, todo, data, user>>
    <2>1. ~Stranger(n, k, Queue(k, n)[1])
      BY <1>5, DeliveryIsNoStranger
    <2>2. strayed' = FALSE /\ strayed = FALSE
      BY <1>1, <2>1 DEF CollectPacket, Undefined, At, Explains, Typed
    <2> QED BY <1>1, <1>4, <2>1, <2>2, Zenon DEF CollectPacket, Goto
  <1>13. PICK j \in 1 .. Len(Queue(k, n)) :
           /\ merged' \in BOOLEAN
           /\ wire' = Sent(Read(wire, k, n, j), k, n, <<Ok>>)
    <2>1. PICK j \in 1 .. Len(Queue(k, n)) :
            /\ Recv(k, n, j) \/ RecvCut(k, n, j)
            /\ wire' = Sent(Read(wire, k, n, j), k, n, <<Ok>>)
      BY <1>1, Zenon DEF CollectPacket, Confirmation
    <2>2. merged' \in BOOLEAN
      BY <2>1, ReadsSome DEF Explains, Typed
    <2> QED BY <2>1, <2>2
  <1>14. j = 1 /\ Takes(Queue(k, n), j, <<UseLocal(k.i)>>, <<>>)
    BY <1>3, TakesOne
  <1>15. Flows(wire, wire', k, <<>>, <<Ok>>)
    <2>1. Flows(wire, wire', k, SubSeq(wire[k].up, j + 1, Len(wire[k].up)), wire[k].down \o <<Ok>>)
      BY <1>1, <1>13, ServerReplies
    <2>2. SubSeq(wire[k].up, j + 1, Len(wire[k].up)) = <<>>
      BY <1>1, <1>14 DEF Takes, Queue, In
    <2> QED BY <1>1, <2>1, <2>2, Sending
  <1>16. merged' \in BOOLEAN
    BY <1>13
  <1>17. ms' = [ms EXCEPT ![n] = Collected(@, k.i, <<<<s.owner[s.file[k.c]], k.i>>>>)]
    BY <1>11, <1>12
  <1> QED BY <1>1, <1>5, <1>7, <1>12, <1>15, <1>16, <1>17 DEF Comes

\* The bytes of a fragment.
LEMMA RawComes ==
    ASSUME NEW s \in Stories, NEW t \in [Conns -> Stage], Explains(s, t), NEW n \in Node, CollectRaw(n)
    PROVE  \E k \in Conns : Comes(s, t, n, k)
  <1> DEFINE k == fd[n]
  <1>1. pc[n] = "collect_raw" /\ Queue(k, n) # <<>>
    <2>1. PICK j \in 1 .. Len(Queue(k, n)) : TRUE
      BY DEF CollectRaw
    <2>2. Queue(k, n) # <<>>
      BY <2>1, TakesNone
    <2> QED BY <2>2 DEF CollectRaw, At
  <1>2. Serves(t, n, {"ok", "raw"}) /\ k.kind = "deliver"
    BY <1>1 DEF Explains, Thread
  <1>3. /\ k \in Conns /\ k.to = n /\ t[k] \in {"ok", "raw"} /\ Link(s, t, k)
        /\ k \in DOMAIN wire /\ DOMAIN wire[k] = {"up", "down"} /\ Queue(k, n) = wire[k].up
    BY <1>2, Served
  <1>4. /\ t[k] = "raw" /\ wire[k].up = <<Second(s, k)>> /\ wire[k].down = <<>> /\ packet[n] = <<First(s, k)>>
        /\ k.i # s.home[k.c]
    BY <1>1, <1>2, <1>3 DEF Link, CallTalk, IsCall, Has, Shape
  <1>5. Head(packet[n]).frag = k.i
    <2>1. First(s, k) = DeclareFrag(s.file[k.c], k.i)
      BY <1>2, <1>4 DEF First
    <2> QED BY <1>4, <2>1, PacketFacts, Reading1
  <1>6. Queue(k, n)[1].bytes = <<<<s.owner[s.file[k.c]], k.i>>>>
    <2>1. Second(s, k) = Raw(<<<<s.owner[s.file[k.c]], k.i>>>>)
      BY <1>2 DEF Second
    <2>2. Queue(k, n)[1] = Second(s, k)
      BY <1>3, <1>4
    <2>3. \A b : Raw(b).bytes = b
      BY PacketFacts
    <2> QED BY <2>1, <2>2, <2>3
  <1>7. PICK j \in 1 .. Len(Queue(k, n)) :
           /\ merged' \in BOOLEAN
           /\ wire' = Sent(Read(wire, k, n, j), k, n, <<Ok>>)
    <2>1. PICK j \in 1 .. Len(Queue(k, n)) :
            /\ Recv(k, n, j)
            /\ wire' = Sent(Read(wire, k, n, j), k, n, <<Ok>>)
      BY Zenon DEF CollectRaw
    <2>2. merged' \in BOOLEAN
      BY <2>1, ReadsSome DEF Explains, Typed
    <2> QED BY <2>1, <2>2
  <1>8. j = 1 /\ Takes(Queue(k, n), j, <<Second(s, k)>>, <<>>)
    BY <1>3, <1>4, TakesOne
  <1>9. Flows(wire, wire', k, <<>>, <<Ok>>)
    <2>1. Flows(wire, wire', k, SubSeq(wire[k].up, j + 1, Len(wire[k].up)), wire[k].down \o <<Ok>>)
      BY <1>3, <1>7, ServerReplies
    <2>2. SubSeq(wire[k].up, j + 1, Len(wire[k].up)) = <<>>
      BY <1>3, <1>8 DEF Takes
    <2> QED BY <1>4, <2>1, <2>2, Sending
  <1>10. merged' \in BOOLEAN
    BY <1>7
  <1>11. /\ ms' = [ms EXCEPT ![n] = Collected(@, Head(packet[n]).frag, Queue(k, n)[1].bytes)]
         /\ pc' = [pc EXCEPT ![n] = "collect"]
         /\ UNCHANGED <<backlog, fd, client_fd, packet, call, todo, data, user, strayed>>
    BY DEF CollectRaw, Goto
  <1>12. ms' = [ms EXCEPT ![n] = Collected(@, k.i, <<<<s.owner[s.file[k.c]], k.i>>>>)]
    BY <1>5, <1>6, <1>11
  <1>13. Comes(s, t, n, k)
    BY <1>1, <1>2, <1>3, <1>4, <1>9, <1>10, <1>11, <1>12 DEF Comes
  <1> QED BY <1>3, <1>13

\* DECLARE_FRAG: the copy that follows is read.
LEMMA CollectRawStep ==
    ASSUME NEW s \in Stories, NEW t \in [Conns -> Stage], Explains(s, t), NEW n \in Node, CollectRaw(n)
    PROVE  \E t2 \in [Conns -> Stage] : Explains(s, t2)'
  <1>1. pc[n] \in Collecting
    BY DEF CollectRaw, At, Collecting
  <1> QED BY <1>1, RawComes, DeliveredStep

\* A fragment is announced; its bytes are to follow.
LEMMA DeclareStep ==
    ASSUME NEW s \in Stories, NEW t \in [Conns -> Stage], Explains(s, t), NEW n \in Node, CollectPacket(n),
           NEW k \in Conns, Delivers(s, t, n, k), k.i # s.home[k.c]
    PROVE  \E t2 \in [Conns -> Stage] : Explains(s, t2)'
  <1>1. /\ Thread(s, t, n) /\ Typed
    BY DEF Explains
  <1>2. /\ k.kind = "deliver" /\ t[k] = "said" /\ fd[n] = k /\ k.to = n /\ Link(s, t, k)
        /\ k \in DOMAIN wire /\ DOMAIN wire[k] = {"up", "down"}
        /\ wire[k].up = <<First(s, k)>> /\ wire[k].down = <<>>
    BY DEF Delivers
  <1>3. First(s, k) = DeclareFrag(s.file[k.c], k.i)
    BY <1>2 DEF First
  <1>4. Queue(k, n) = <<First(s, k)>> /\ Queue(k, n)[1] = First(s, k)
    BY <1>2 DEF Queue, In
  <1>5. First(s, k).type = "DECLARE_FRAG"
    BY <1>3, PacketFacts
  <1>6. /\ pc[n] = "collect_packet" /\ strayed = FALSE
    BY <1>1 DEF CollectPacket, At, Typed
  <1>7. /\ packet' = [packet EXCEPT ![n] = <<First(s, k)>>] /\ strayed' = FALSE
        /\ pc' = [pc EXCEPT ![n] = "collect_raw"]
        /\ UNCHANGED <<ms, backlog, fd, client_fd, call, todo, data, user>>
    <2>1. ~Stranger(n, k, Queue(k, n)[1])
      BY <1>6, DeliveryIsNoStranger DEF Collecting
    <2>2. strayed' = FALSE
      BY <1>2, <2>1 DEF CollectPacket, Undefined
    <2> QED BY <1>2, <1>4, <1>5, <2>2, Zenon DEF CollectPacket, Goto
  <1>8. PICK j \in 1 .. Len(Queue(k, n)) :
           /\ merged' \in BOOLEAN
           /\ wire' = Sent(Read(wire, k, n, j), k, n, <<Ok>>)
    <2>1. PICK j \in 1 .. Len(Queue(k, n)) :
            /\ Recv(k, n, j) \/ RecvCut(k, n, j)
            /\ wire' = Sent(Read(wire, k, n, j), k, n, <<Ok>>)
      BY <1>2, Zenon DEF CollectPacket, Confirmation
    <2>2. merged' \in BOOLEAN
      BY <1>1, <2>1, ReadsSome DEF Typed
    <2> QED BY <2>1, <2>2
  <1>9. j = 1 /\ Takes(Queue(k, n), j, <<First(s, k)>>, <<>>)
    BY <1>4, TakesOne
  <1>10. Flows(wire, wire', k, <<>>, <<Ok>>)
    <2>1. Flows(wire, wire', k, SubSeq(wire[k].up, j + 1, Len(wire[k].up)), wire[k].down \o <<Ok>>)
      BY <1>2, <1>8, ServerReplies
    <2>2. SubSeq(wire[k].up, j + 1, Len(wire[k].up)) = <<>>
      BY <1>2, <1>9 DEF Takes, Queue, In
    <2> QED BY <1>2, <2>1, <2>2, Sending
  <1>11. merged' \in BOOLEAN
    BY <1>8
  <1>12. /\ DOMAIN pc = Node /\ DOMAIN packet = Node /\ pc'[n] = "collect_raw" /\ DOMAIN pc' = Node
         /\ packet'[n] = <<First(s, k)>> /\ DOMAIN packet' = Node
         /\ \A m \in Node \ {n} : pc'[m] = pc[m] /\ packet'[m] = packet[m]
    BY <1>1, <1>7 DEF Typed
  <1>13. PICK t2 \in [Conns -> Stage] : t2[k] = "ok" /\ SameBut(t, t2, k)
    <2>1. "ok" \in Stage
      BY DEF Stage, CallStages
    <2> QED BY <2>1, Advance
  <1>14. Elsewhere(n)
    BY <1>7, <1>12 DEF Elsewhere
  <1>15. Link(s, t2, k)'
    <2>1. Shape(s, t2, k)
      BY <1>2, <1>13 DEF Link, Shape, CallStages
    <2>2. Seat(t2, k)'
      BY <1>2, <1>7, <1>12, <1>13 DEF Seat
    <2>3. Caller(s, t2, k)'
      <3>1. Dialling(s, t2, k) => Dialling(s, t, k) /\ Remaining(s, t2, k) = Remaining(s, t, k)
        BY <1>2, <1>13 DEF Dialling, Remaining
      <3> QED BY <1>2, <1>14, <3>1, CallerWaits DEF Link
    <2>4. CallTalk(s, t2, k)' /\ LineTalk(s, t2, k)' /\ RelayTalk(s, t2, k)'
      BY <1>2, <1>10, <1>12, <1>13 DEF CallTalk, LineTalk, RelayTalk, Flows, Has
    <2> QED BY <1>10, <2>1, <2>2, <2>3, <2>4 DEF Link, Flows
  <1>16. Typed'
    BY <1>1, <1>7, <1>11, <1>12 DEF Typed, data, user
  <1>17. Thread(s, t2, n)'
    <2>1. \A x \in Conns : /\ t[x] # "none" => t2[x] # "none"
                           /\ x.kind = "client" => t2[x] = t[x]
      BY <1>2, <1>13 DEF SameBut
    <2> QED BY <1>1, <1>2, <1>6, <1>7, <1>12, <1>13, <2>1 DEF Thread, Serves, Position, Collecting
  <1>18. Inquiry(s, t2)' /\ Handout(s, t2)'
    <2>1. t[k] \notin {"none", "fanout", "stored", "asking"} /\ t2[k] \notin {"none", "fanout", "stored"}
          /\ pc'[n] \notin {"ask", "fanout", "call"} /\ todo' = todo
      BY <1>2, <1>7, <1>12, <1>13
    <2> QED BY <1>13, <1>14, <2>1, SoftAside
  <1>19. Alike(s, t[k], t2[k], k)
    BY <1>2, <1>13 DEF Alike, Within, Undelivered
  <1>20. Dialling(s, t, k) => Dialling(s, t2, k)
    BY <1>2, <1>13 DEF Dialling
  <1>21. \A x \in Conns : x \in {k} /\ t2[x] # "none" => Link(s, t2, x)'
    BY <1>15
  <1> QED BY <1>2, <1>6, <1>7, <1>10, <1>12, <1>13, <1>14, <1>16, <1>17, <1>18, <1>19, <1>20, <1>21,
             SoftStep DEF data, user, Collecting, Flows

\* WAIT_REQUEST_FRAGMENTS: a delivery leaves the state explained; only a foreign packet does not,
\* and it is recorded.
LEMMA CollectPacketStep ==
    ASSUME NEW s \in Stories, NEW t \in [Conns -> Stage], Explains(s, t), NEW n \in Node, CollectPacket(n)
    PROVE  \/ /\ \E t2 \in [Conns -> Stage] : Explains(s, t2)'
              /\ ~strayed' /\ foreign' = foreign
           \/ foreign' # {} /\ \E k \in Conns : Foreign(s, t, n, k)
  <1>1. pc[n] = "collect_packet" /\ Queue(fd[n], n) # <<>>
    <2>1. PICK j \in 1 .. Len(Queue(fd[n], n)) : TRUE
      BY DEF CollectPacket
    <2>2. Queue(fd[n], n) # <<>>
      BY <2>1, TakesNone
    <2> QED BY <2>2 DEF CollectPacket, At
  <1>2. PICK k \in Conns : Delivers(s, t, n, k) \/ Foreign(s, t, n, k)
    BY <1>1, OnCollectPacket
  <1>3. CASE Foreign(s, t, n, k)
    <2>1. Stranger(n, fd[n], Queue(fd[n], n)[1])
      BY <1>3 DEF Foreign, Stranger
    <2>2. foreign' = foreign \cup {ms[n].from.c}
      BY <2>1, Zenon DEF CollectPacket
    <2> QED BY <1>3, <2>2
  <1>4. CASE Delivers(s, t, n, k)
    <2>1. fd[n] = k /\ pc[n] \in Collecting
      BY <1>1, <1>4 DEF Delivers, Collecting
    <2>2. ~Stranger(n, fd[n], Queue(fd[n], n)[1])
      BY <1>4, <2>1, DeliveryIsNoStranger
    <2>3. foreign' = foreign /\ ~strayed'
      BY <2>2, Zenon DEF CollectPacket, Undefined
    <2>4. CASE k.i # s.home[k.c]
      BY <1>4, <2>3, <2>4, DeclareStep
    <2>5. CASE k.i = s.home[k.c]
      <3>1. Comes(s, t, n, k)
        BY <1>4, <2>5, UseLocalComes
      <3> QED BY <2>1, <2>3, <3>1, DeliveredStep
    <2> QED BY <2>4, <2>5
  <1> QED BY <1>2, <1>3, <1>4

-----------------------------------------------------------------------------
(* CollectEnd *)

\* When as many fragments have arrived as were promised, all have.
LEMMA AllArrived ==
    ASSUME NEW s \in Stories, NEW t \in [Conns -> Stage], Explains(s, t), NEW n \in Node,
           NEW c \in Client, NEW l \in Conns, Collects(s, t, n, c, l), AllCollected(ms[n])
    PROVE  /\ ms[n].buffer = Whole(s, c)
           /\ \A i \in 1 .. Parts[s.want[c]] : t[DeliverOf(s, c, i)] \in Delivered
  <1>1. /\ s.home[c] = n /\ t[LineOf(s, c)] = "collect" /\ Tally(s, t, c)
    BY DEF Collects
  <1>2. /\ ms[n].count = Parts[s.want[c]] /\ ms[n].found = Cardinality(Arrived(s, t, c))
        /\ ms[n].buffer = [i \in 1 .. Parts[s.want[c]] |->
                           IF i \in Arrived(s, t, c) THEN <<s.owner[s.file[c]], i>> ELSE <<0, 0>>]
    BY <1>1 DEF Tally
  <1>3. Parts[s.want[c]] \in Nat /\ Parts[s.want[c]] >= 1
    BY StoryType, PartsFacts
  <1>4. IsFiniteSet(1 .. Parts[s.want[c]]) /\ Cardinality(1 .. Parts[s.want[c]]) = Parts[s.want[c]]
    <2>1. 1 \in Int /\ Parts[s.want[c]] \in Int
      BY <1>3
    <2>2. /\ IsFiniteSet(1 .. Parts[s.want[c]])
          /\ Cardinality(1 .. Parts[s.want[c]]) = IF 1 > Parts[s.want[c]] THEN 0 ELSE Parts[s.want[c]] - 1 + 1
      BY <2>1, FS_Interval, Zenon
    <2> QED BY <1>3, <2>2
  <1>5. Arrived(s, t, c) \in SUBSET (1 .. Parts[s.want[c]])
    BY DEF Arrived
  <1>6. Cardinality(Arrived(s, t, c)) = Cardinality(1 .. Parts[s.want[c]])
    BY <1>2, <1>4 DEF AllCollected
  <1>7. Arrived(s, t, c) = 1 .. Parts[s.want[c]]
    BY <1>4, <1>5, <1>6, FS_Subset
  <1>8. ms[n].buffer = Whole(s, c)
    BY <1>2, <1>7 DEF Whole
  <1>9. \A i \in Arrived(s, t, c) : t[DeliverOf(s, c, i)] \in Delivered
    BY DEF Arrived
  <1> QED BY <1>7, <1>8, <1>9

\* Everything has arrived; the node goes on to hand over.
LEMMA CollectEndStep ==
    ASSUME NEW s \in Stories, NEW t \in [Conns -> Stage], Explains(s, t), NEW n \in Node, CollectEnd(n)
    PROVE  \E t2 \in [Conns -> Stage] : Explains(s, t2)'
  <1>1. /\ Thread(s, t, n) /\ Typed /\ Numbering(s, t) /\ DOMAIN wire = {y \in Conns : t[y] # "none"}
    BY DEF Explains
  <1>2. /\ pc[n] = "collect" /\ AllCollected(ms[n]) /\ fd' = [fd EXCEPT ![n] = ms[n].from]
        /\ pc' = [pc EXCEPT ![n] = "hand_over"]
        /\ UNCHANGED <<wire, backlog, client_fd, packet, ms, call, todo, data, user, merged, strayed>>
    BY DEF CollectEnd, At, Goto, net
  <1>3. PICK c \in Client, l \in Conns : Collects(s, t, n, c, l)
    BY <1>2, OnCollect DEF Collecting
  <1>4. /\ l = LineOf(s, c) /\ l.kind = "client" /\ l.c = c /\ l.to = n /\ t[l] = "collect"
        /\ s.home[c] = n /\ n # Index /\ ms[n].from = l /\ client[c] # "off" /\ ~Forwarded(s, c)
        /\ Granted(s, t, c) /\ ~Numbered(s, t, c) /\ s.op[c] = "read" /\ Link(s, t, l)
    BY <1>3 DEF Collects
  <1>5. /\ ms[n].buffer = Whole(s, c)
        /\ \A i \in 1 .. Parts[s.want[c]] : t[DeliverOf(s, c, i)] \in Delivered
    BY <1>2, <1>3, AllArrived
  <1>6. /\ DOMAIN pc' = Node /\ DOMAIN fd' = Node /\ pc'[n] = "hand_over" /\ fd'[n] = l
        /\ \A m \in Node \ {n} : pc'[m] = pc[m] /\ fd'[m] = fd[m]
    BY <1>1, <1>2, <1>4 DEF Typed
  <1>7. PICK t2 \in [Conns -> Stage] : t2[l] = "hand_over" /\ SameBut(t, t2, l)
    <2>1. "hand_over" \in Stage
      BY DEF Stage, LineStages
    <2> QED BY <2>1, Advance
  <1>8. \A y \in Conns \ {l} : t2[y] = t[y]
    BY <1>7 DEF SameBut
  <1>9. UNCHANGED <<client, got, at, files, complete, overlap, fs>> /\ UNCHANGED <<files, fs>>
        /\ todo' = todo /\ files' = files
    BY <1>2 DEF user, data
  <1>10. Elsewhere(n) /\ Typed'
    BY <1>1, <1>2, <1>6, <1>9 DEF Elsewhere, Typed
  <1>11. Link(s, t2, l)'
    <2>1. Shape(s, t2, l)
      BY <1>4, <1>7 DEF Link, Shape, LineStages
    <2>2. Seat(t2, l)'
      BY <1>4, <1>6, <1>7 DEF Seat
    <2>3. Caller(s, t2, l)' /\ CallTalk(s, t2, l)' /\ RelayTalk(s, t2, l)'
      BY <1>4 DEF Caller, Dialling, IsCall, CallTalk, RelayTalk
    <2>4. LineTalk(s, t2, l)'
      <3>1. l.to # Index /\ Promised(s, l)
        BY <1>4 DEF Link, LineTalk
      <3>2. Promised(s, l)'
        BY <1>2, <1>9, <3>1 DEF Promised, Is, Has
      <3>3. ms'[l.to].buffer = Whole(s, l.c)
        BY <1>2, <1>4, <1>5
      <3> QED BY <1>7, <3>1, <3>2, <3>3 DEF LineTalk
    <2> QED BY <1>2, <1>4, <2>1, <2>2, <2>3, <2>4 DEF Link
  <1>12. Thread(s, t2, n)'
    <2>1. \A x \in Conns : /\ t[x] # "none" => t2[x] # "none"
                           /\ t[x] \notin {"none", "queued", "identify"} =>
                                t2[x] \notin {"none", "queued", "identify"}
      BY <1>4, <1>7, <1>8
    <2> QED BY <1>1, <1>2, <1>4, <1>6, <1>7, <2>1 DEF Thread, Serves, Position, Collecting
  <1>13. Inquiry(s, t2)' /\ Handout(s, t2)'
    <2>1. t[l] \notin {"none", "fanout", "stored", "asking"} /\ t2[l] \notin {"none", "fanout", "stored"}
          /\ pc'[n] \notin {"ask", "fanout", "call"}
      BY <1>4, <1>6, <1>7
    <2> QED BY <1>7, <1>9, <1>10, <2>1, SoftAside
  <1>14. Numbering(s, t2)'
    <2>1. \A y \in Conns : t2[y] \in {"fanout", "stored"} <=> t[y] \in {"fanout", "stored"}
      BY <1>4, <1>7, <1>8
    <2> QED BY <1>9, <2>1, FilesApart
  <1>15. Shelves(s, t2)'
    <2>1. /\ \A y \in Conns : t2[y] = "stored" <=> t[y] = "stored"
          /\ \A y \in Conns : y.kind = "store" => (t2[y] = "over" <=> t[y] = "over")
      BY <1>4, <1>7, <1>8
    <2> QED BY <1>9, <2>1, ShelvesApart
  <1>16. RelayOf(s, c) \in Conns \ {l} /\ Job(s, c) = RelayOf(s, c) /\ t2[RelayOf(s, c)] = t[RelayOf(s, c)]
    BY <1>4, <1>8, ConnsOf DEF Job
  <1>17. Request(s, t2, c)'
    <2>1. /\ Progress(s, t, c) /\ Doing(s, c) /\ Found(s, t, c) /\ HandedOut(s, t, c)
          /\ (c \in complete <=> t[Job(s, c)] = "stored")
          /\ \A i \in 1 .. Parts[s.want[c]] : s.home[c] # Index => Fetch(s, t, c, i)
      BY <1>4 DEF Explains, Request
    <2>2. Progress(s, t2, c)
      BY <1>4, <1>7, <1>16, <2>1 DEF Progress
    <2>3. Answers(s, t2, c)' /\ Tally(s, t2, c)'
      BY <1>4, <1>7 DEF Answers, Tally
    <2>4. Doing(s, c)'
      BY <1>9, <2>1 DEF Doing
    <2>5. ASSUME NEW i \in 1 .. Parts[s.want[c]], s.home[c] # Index PROVE Fetch(s, t2, c, i)
      <3>1. i \in Node
        BY StoryType, PartsFacts
      <3>2. t2[AskOf(c, i)] = t[AskOf(c, i)] /\ t2[DeliverOf(s, c, i)] = t[DeliverOf(s, c, i)]
        BY <1>4, <1>8, <3>1, ConnsOf
      <3> QED BY <1>4, <1>5, <1>7, <2>1, <2>5, <3>2 DEF Fetch, Undelivered, Delivered
    <2>6. Found(s, t2, c)'
      <3>1. Granted(s, t2, c) => Granted(s, t, c)
        BY <1>16 DEF Granted
      <3>2. ASSUME NEW x \in Conns, t[x] = "stored" PROVE t2[x] = "stored"
        BY <1>4, <1>8, <3>2
      <3>3. s.file[c] \in DOMAIN files /\ s.file[c] # 1 => s.owner[s.file[c]] \in Client
        <4>1. \A id \in DOMAIN files : id \in 1 .. Len(files) /\ Len(files) \in Nat
          BY <1>1 DEF Numbering
        <4> QED BY <1>1, <4>1 DEF Numbering
      <3>4. s.owner[s.file[c]] \in Client => Job(s, s.owner[s.file[c]]) \in Conns
        BY ConnsOf
      <3> QED BY <1>9, <2>1, <3>1, <3>2, <3>3, <3>4 DEF Found
    <2>7. HandedOut(s, t2, c)
      <3>1. t[Job(s, c)] # "stored"
        BY <1>4 DEF Numbered
      <3> QED BY <1>16, <3>1 DEF HandedOut
    <2>8. (c \in complete' <=> t2[Job(s, c)] = "stored")
      BY <1>9, <1>16, <2>1
    <2> QED BY <2>2, <2>3, <2>4, <2>5, <2>6, <2>7, <2>8 DEF Request, Progress, Fetch, HandedOut
  <1>18. Ripple(s, t, t2, n)
    <2>1. ~Dialling(s, t, l)
      BY <1>4 DEF Dialling, IsCall
    <2> QED BY <1>4, <1>7, <1>8, <2>1 DEF Ripple
  <1>19. SameBut(wire, wire', l) /\ Bound(s, t2, l)
    BY <1>2, <1>4 DEF Bound, SameBut
  <1>20. /\ t[l] \notin {"none", "queued", "stored"} /\ t2[l] # "none"
         /\ (l = LineOf(s, c) /\ Forwarded(s, c) => wire'[l].up = <<>>)
         /\ (pc[n] \notin {"idle", "collect"} => fd[n] = l) /\ (pc[n] = "call" => call[n].conn = l)
         /\ \A d \in Client \ {c} : d \in complete' <=> d \in complete
         /\ (pc[n] \in Collecting => \/ pc'[n] \in Collecting /\ ms'[n] = ms[n]
                                    \/ ms[n].from = LineOf(s, c))
         /\ UNCHANGED <<client, got, at, backlog>>
         /\ \A id \in DOMAIN files : id \in DOMAIN files' /\ files'[id] = files[id]
    BY <1>2, <1>4, <1>7, <1>9
  <1>21. (Granted(s, t, c) => Granted(s, t2, c)) /\ (Numbered(s, t, c) => Numbered(s, t2, c))
    BY <1>16 DEF Granted, Numbered
  <1> QED BY <1>4, <1>7, <1>10, <1>11, <1>12, <1>13, <1>14, <1>15, <1>17, <1>18, <1>19, <1>20,
             <1>21, OneConn, ZenonT(60)

-----------------------------------------------------------------------------
(* Clients *)

\* A client and its line.
OnLine(s, t, c, l) ==
    /\ l = LineOf(s, c) /\ l = Line(c) /\ l \in Conns /\ l.kind = "client" /\ l.c = c /\ t[l] \in LineStages
    /\ l \in DOMAIN wire /\ DOMAIN wire[l] = {"up", "down"} /\ Link(s, t, l) /\ LineTalk(s, t, l)
    /\ l.to # Nowhere /\ Queue(l, Nowhere) = wire[l].down /\ Doing(s, c)

\* A client that has come has one connection, to its node.
LEMMA ClientLine ==
    ASSUME NEW s \in Stories, NEW t \in [Conns -> Stage], Explains(s, t), NEW c \in Client, client[c] # "off"
    PROVE  \E l \in Conns : OnLine(s, t, c, l)
  <1> DEFINE l == LineOf(s, c)
  <1>1. l \in Conns /\ l.kind = "client" /\ l.c = c /\ l.to = s.home[c] /\ s.home[c] \in Node
    BY ConnsOf, StoryType
  <1>2. Progress(s, t, c) /\ Doing(s, c)
    BY DEF Explains, Request
  <1>3. t[l] # "none"
    BY <1>2 DEF Progress
  <1>4. Link(s, t, l) /\ l \in DOMAIN wire /\ DOMAIN wire[l] = {"up", "down"}
    BY <1>1, <1>3, Attached
  <1>5. t[l] \in LineStages /\ LineTalk(s, t, l)
    BY <1>1, <1>4 DEF Link, Shape
  <1>6. l = Line(c)
    BY <1>2 DEF Doing, Line, LineOf
  <1>7. l.to # Nowhere
    BY <1>1, ParameterFacts
  <1>8. Queue(l, Nowhere) = wire[l].down
    BY <1>7 DEF Queue, In
  <1> QED BY <1>1, <1>2, <1>4, <1>5, <1>6, <1>7, <1>8 DEF OnLine

\* A client writes and reads on its line, and nothing else happens.
Talks(c, l, v) ==
    /\ UNCHANGED <<backlog, node, data, at, overlap, merged, strayed>>
    /\ client' = [client EXCEPT ![c] = v] /\ v # "off"
    /\ DOMAIN got' = DOMAIN got /\ \A d \in Client \ {c} : got'[d] = got[d]
    /\ SameBut(wire, wire', l) /\ DOMAIN wire'[l] = {"up", "down"}

\* A step of a client on its line, which no node is reading, leaves the story as it is.
LEMMA ClientMove ==
    ASSUME NEW s \in Stories, NEW t \in [Conns -> Stage], Explains(s, t), NEW c \in Client,
           client[c] \notin {"off", "sent"}, NEW l \in Conns, OnLine(s, t, c, l), NEW v, Talks(c, l, v),
           LineTalk(s, t, l)', Doing(s, c)'
    PROVE  Explains(s, t)'
  <1> DEFINE K == {x \in Conns : x.kind = "client" /\ x.c = c}
  <1>1. /\ l = LineOf(s, c) /\ l.kind = "client" /\ l.c = c /\ l \in DOMAIN wire
        /\ Link(s, t, l)
    BY DEF OnLine
  <1>2. /\ Typed /\ DOMAIN wire = {x \in Conns : t[x] # "none"} /\ Links(s, t) /\ Queues(t)
        /\ Inquiry(s, t) /\ Handout(s, t) /\ Numbering(s, t) /\ Shelves(s, t)
        /\ \A d \in Client : Request(s, t, d)
    BY DEF Explains
  <1>3. /\ UNCHANGED <<backlog, pc, fd, client_fd, packet, ms, call, todo, fs, files, complete>>
        /\ UNCHANGED <<at, overlap, merged, strayed>>
    BY DEF Talks, node, data
  <1>4. DOMAIN client = Client /\ client' = [client EXCEPT ![c] = v] /\ v # "off"
    BY <1>2 DEF Typed, Talks
  <1>5. /\ client'[c] = v /\ \A d \in Client \ {c} : client'[d] = client[d] /\ got'[d] = got[d]
        /\ DOMAIN client' = Client /\ DOMAIN got' = DOMAIN got
    BY <1>4 DEF Talks
  <1>6. /\ DOMAIN wire' = DOMAIN wire /\ \A y \in DOMAIN wire \ {l} : wire'[y] = wire[y]
        /\ DOMAIN wire'[l] = {"up", "down"}
    BY DEF Talks, SameBut
  <1>7. Elsewhere(Nowhere)
    BY <1>3 DEF Elsewhere
  <1>8. \A x \in K : t[x] # "none" => x = l
    BY <1>1, <1>2 DEF Links, Link, Shape
  <1>9. l \in K
    BY <1>1
  <1>10. \A d \in Client : /\ client[d] # "off" => client'[d] # "off"
                           /\ Forwarded(s, d) => Forwarded(s, d)'
    <2> SUFFICES ASSUME NEW d \in Client
                 PROVE  /\ client[d] # "off" => client'[d] # "off"
                        /\ Forwarded(s, d) => Forwarded(s, d)'
      OBVIOUS
    <2>1. CASE d = c
      BY <1>4, <1>5, <2>1 DEF Forwarded
    <2>2. CASE d # c
      <3>1. LineOf(s, d) # l /\ client'[d] = client[d]
        BY <1>1, <1>5, <2>2, ConnsOf
      <3>2. ASSUME Forwarded(s, d) PROVE Forwarded(s, d)'
        <4>1. client[d] = "sent" /\ LineOf(s, d) \in Conns
          BY <3>2, ConnsOf DEF Forwarded
        <4>2. LineOf(s, d) \in DOMAIN wire
          BY <1>2, <2>2, <4>1 DEF Request, Progress
        <4> QED BY <1>6, <3>1, <3>2, <4>2 DEF Forwarded
      <3> QED BY <3>1, <3>2
    <2> QED BY <2>1, <2>2
  <1>11. Moves(s, t, t, Nowhere, K)
    <2> SUFFICES ASSUME NEW k \in Conns \ K
                 PROVE  /\ t[k] # "none" => wire'[k] = wire[k]
                        /\ t[k] = "queued" => \E x \in DOMAIN backlog'[k.to] : backlog'[k.to][x] = k
                        /\ t[k] \in Seated => k.to # Nowhere
                        /\ Dialling(s, t, k) => k.from # Nowhere
                        /\ k.kind = "client" => client'[k.c] = client[k.c] /\ got'[k.c] = got[k.c]
      BY <1>7, <1>10 DEF Moves
    <2>1. t[k] # "none" => wire'[k] = wire[k]
      BY <1>2, <1>6, <1>9
    <2>2. k.to \in Node /\ k.c \in Client /\ k.kind \in Kinds
      BY ConnType
    <2>3. k.to # Nowhere
      BY <2>2, ParameterFacts
    <2>4. t[k] = "queued" => \E x \in DOMAIN backlog'[k.to] : backlog'[k.to][x] = k
      BY <1>2, <1>3 DEF Links, Link, Seat
    <2>5. Dialling(s, t, k) => k.from # Nowhere
      <3>1. ASSUME Dialling(s, t, k) PROVE k.from # Nowhere
        <4>1. IsCall(s, k) /\ t[k] # "none"
          BY <3>1 DEF Dialling
        <4>2. k.from \in Node
          BY <1>2, <4>1, CallEnds DEF Links, Link
        <4> QED BY <4>2, ParameterFacts
      <3> QED BY <3>1
    <2>6. k.kind = "client" => client'[k.c] = client[k.c] /\ got'[k.c] = got[k.c]
      BY <1>5, <2>2
    <2> QED BY <2>1, <2>3, <2>4, <2>5, <2>6
  <1>12. Ripple(s, t, t, Nowhere)
    BY DEF Ripple
  <1>13. Typed'
    BY <1>2, <1>3, <1>5 DEF Typed
  <1>14. Queues(t)'
    BY <1>2, <1>3, QueuesKept
  <1>15. Link(s, t, l)'
    <2>1. ~IsCall(s, l)
      BY <1>1 DEF IsCall
    <2>2. Caller(s, t, l)' /\ CallTalk(s, t, l)'
      BY <2>1 DEF Caller, Dialling, CallTalk
    <2>3. RelayTalk(s, t, l)'
      BY <1>1 DEF RelayTalk
    <2>4. Shape(s, t, l) /\ Seat(t, l)'
      BY <1>1, <1>3 DEF Link, Seat
    <2> QED BY <1>6, <2>2, <2>3, <2>4 DEF Link
  <1>16. \A k \in Conns : k \in K /\ t[k] # "none" => client'[k.c] # "off" /\ Link(s, t, k)'
    BY <1>1, <1>4, <1>5, <1>8, <1>15
  <1>17. \A k \in Conns : t[k] # "none" => Bound(s, t, k)
    BY <1>2 DEF Links
  <1>18. \A d \in Client : Request(s, t, d)'
    <2> SUFFICES ASSUME NEW d \in Client PROVE Request(s, t, d)'
      OBVIOUS
    <2>1. CASE d = c
      <3>1. client[c] # "off" /\ Request(s, t, c)
        BY <1>2
      <3>2. RelayOf(s, c) # l /\ RelayOf(s, c) \in Conns
        BY <1>1, ConnsOf
      <3>3. Answers(s, t, c)'
        <4>1. t[RelayOf(s, c)] # "none" => wire'[RelayOf(s, c)] = wire[RelayOf(s, c)]
          BY <1>2, <1>6, <3>2
        <4> QED BY <3>1, <4>1 DEF Request, Answers
      <3>4. Tally(s, t, c)' /\ Found(s, t, c)'
        BY <1>3, <3>1 DEF Request, Tally, Found
      <3> QED BY <1>3, <2>1, <3>1, <3>3, <3>4 DEF Request
    <2>2. CASE d # c
      <3>1. \A k \in Conns : k.c = d => Alike(s, t[k], t[k], k)
        BY DEF Alike
      <3>2. t[RelayOf(s, d)] \in {"asking", "asked", "refused"} =>
              wire'[RelayOf(s, d)].down = wire[RelayOf(s, d)].down
        <4>1. RelayOf(s, d) # l /\ RelayOf(s, d) \in Conns
          BY <1>1, ConnsOf
        <4> QED BY <1>2, <1>6, <4>1
      <3>3. t[LineOf(s, d)] = "collect" =>
              pc'[s.home[d]] \in Collecting /\ ms'[s.home[d]] = ms[s.home[d]]
        <4>1. ASSUME t[LineOf(s, d)] = "collect" PROVE pc[s.home[d]] \in Collecting
          <5>1. LineOf(s, d) \in Conns /\ LineOf(s, d).c = d
            BY ConnsOf
          <5>2. client[d] # "off"
            BY <1>2, <4>1, <5>1 DEF Links
          <5> QED BY <1>2, <4>1, <5>2 DEF Request, Tally
        <4> QED BY <1>3, <4>1
      <3>4. client'[d] = client[d] /\ got'[d] = got[d] /\ at'[d] = at[d]
        BY <1>3, <1>5, <2>2
      <3> QED BY <1>2, <1>3, <3>1, <3>2, <3>3, <3>4, RequestFrame
    <2> QED BY <2>1, <2>2
  <1>19. Inquiry(s, t)' /\ Handout(s, t)'
    <2>1. Steady(t, t)
      BY DEF Steady
    <2>2. \A p \in {"ask", "fanout"} : Working(p)' =>
            /\ Working(p) /\ fd'[Index] = fd[Index] /\ ms'[Index] = ms[Index] /\ todo' = todo
            /\ pc'[Index] = "call" => pc[Index] = "call" /\ call'[Index].conn = call[Index].conn
      BY <1>3 DEF Working
    <2> QED BY <2>1, <2>2, IndexKept
  <1>20. Numbering(s, t)'
    BY <1>2, <1>3, <1>4, <1>5, NumberingFrame
  <1>21. Shelves(s, t)'
    <2>1. Steady(t, t)
      BY DEF Steady
    <2> QED BY <1>3, <2>1, ShelvesKept
  <1>22. Nowhere \notin Node
    BY ParameterFacts
  <1>23. DOMAIN wire' = {k \in Conns : t[k] # "none"}
    BY <1>2, <1>6
  <1> HIDE DEF K
  <1> QED BY <1>11, <1>12, <1>13, <1>14, <1>16, <1>17, <1>18, <1>19, <1>20, <1>21, <1>22, <1>23, Together

\* A client reads its one packet, and writes behind it.
LEMMA ClientReads ==
    ASSUME NEW s, NEW t, NEW c, NEW l, OnLine(s, t, c, l), NEW a, wire[l].down = <<a>>, NEW w,
           w = Read(wire, Line(c), Nowhere, 1)
    PROVE  /\ Flows(wire, w, l, wire[l].up, <<>>) /\ Queue(Line(c), Nowhere)[1] = a
           /\ \A p : Flows(wire, Sent(w, Line(c), Nowhere, <<p>>), l, wire[l].up \o <<p>>, <<>>)
  <1>1. /\ l = Line(c) /\ l \in DOMAIN wire /\ DOMAIN wire[l] = {"up", "down"} /\ l.to # Nowhere
        /\ Queue(l, Nowhere) = <<a>>
    BY DEF OnLine
  <1>2. Takes(<<a>>, 1, <<a>>, <<>>)
    <2>1. Len(<<a>>) = 1
      BY Lengths
    <2>2. 1 \in 1 .. Len(<<a>>)
      BY <2>1
    <2> QED BY <2>2, TakesOne
  <1>3. Flows(wire, w, l, wire[l].up, <<>>)
    <2>1. Flows(wire, w, l, wire[l].up, SubSeq(wire[l].down, 1 + 1, Len(wire[l].down)))
      BY <1>1, CallerReads
    <2> QED BY <1>2, <2>1 DEF Takes
  <1>4. ASSUME NEW p PROVE Flows(wire, Sent(w, Line(c), Nowhere, <<p>>), l, wire[l].up \o <<p>>, <<>>)
    <2>1. l \in DOMAIN w /\ DOMAIN w[l] = {"up", "down"} /\ w[l].up = wire[l].up /\ w[l].down = <<>>
      BY <1>1, <1>3 DEF Flows, SameBut
    <2>2. Flows(w, Sent(w, l, Nowhere, <<p>>), l, w[l].up \o <<p>>, w[l].down)
      BY <1>1, <2>1, CallerSends
    <2> QED BY <1>1, <1>3, <2>1, <2>2, FlowsTwice
  <1> QED BY <1>1, <1>3, <1>4

\* What a client reads from its line and sends on it.
LEMMA ClientReplies ==
    ASSUME NEW s, NEW t, NEW c, NEW l, OnLine(s, t, c, l), NEW a, wire[l].down = <<a>>, NEW p,
           wire' = Sent(Read(wire, Line(c), Nowhere, 1), Line(c), Nowhere, <<p>>)
    PROVE  Flows(wire, wire', l, wire[l].up \o <<p>>, <<>>)
  <1>1. PICK w : w = Read(wire, Line(c), Nowhere, 1)
    OBVIOUS
  <1>2. Flows(wire, Sent(w, Line(c), Nowhere, <<p>>), l, wire[l].up \o <<p>>, <<>>)
    BY <1>1, ClientReads
  <1> QED BY <1>1, <1>2

LEMMA ClientSends ==
    ASSUME NEW s, NEW t, NEW c, NEW l, OnLine(s, t, c, l), NEW p,
           wire' = Sent(wire, Line(c), Nowhere, <<p>>)
    PROVE  Flows(wire, wire', l, wire[l].up \o <<p>>, wire[l].down)
  <1>1. l = Line(c) /\ l \in DOMAIN wire /\ DOMAIN wire[l] = {"up", "down"} /\ l.to # Nowhere
    BY DEF OnLine
  <1> QED BY <1>1, CallerSends

\* The part of ClientMove that every action of a client shares.
LEMMA ClientStepIs ==
    ASSUME NEW s \in Stories, NEW t \in [Conns -> Stage], Explains(s, t), NEW c \in Client,
           client[c] \notin {"off", "sent"}, NEW l \in Conns, OnLine(s, t, c, l), NEW v, v # "off",
           client' = [client EXCEPT ![c] = v], UNCHANGED <<backlog, node, data, at, overlap, merged, strayed>>,
           got' = got \/ \E g : got' = [got EXCEPT ![c] = g], NEW u, NEW d, Flows(wire, wire', l, u, d),
           client'[c] = v => LineTalk(s, t, l)' /\ Doing(s, c)'
    PROVE  Explains(s, t)'
  <1>1. DOMAIN client = Client /\ DOMAIN got = Client
    BY DEF Explains, Typed
  <1>2. client'[c] = v
    BY <1>1
  <1>3. DOMAIN got' = DOMAIN got /\ \A x \in Client \ {c} : got'[x] = got[x]
    BY <1>1
  <1>4. Talks(c, l, v)
    BY <1>3 DEF Talks, Flows
  <1> QED BY <1>2, <1>4, ClientMove

-----------------------------------------------------------------------------
(* Welcome *)

\* The client reads that its presentation was accepted.
LEMMA WelcomeStep ==
    ASSUME NEW s \in Stories, NEW t \in [Conns -> Stage], Explains(s, t), NEW c \in Client, Welcome(c)
    PROVE  Explains(s, t)'
  <1>1. client[c] = "hello" /\ Queue(Line(c), Nowhere) # <<>>
    BY DEF Welcome, Hears
  <1>2. PICK l \in Conns : OnLine(s, t, c, l)
    BY <1>1, ClientLine
  <1>3. /\ l.kind = "client" /\ l.c = c /\ t[l] \in LineStages /\ LineTalk(s, t, l)
        /\ wire[l].down # <<>> /\ Doing(s, c)
    BY <1>1, <1>2 DEF OnLine
  <1>4. t[l] = "open" /\ Is(l, "hello", <<>>, <<Ok>>)
    BY <1>1, <1>3 DEF LineTalk, LineStages, Taken, Promised, Is, Has
  <1>5. Flows(wire, wire', l, <<>>, <<>>)
    BY <1>2, <1>4, ClientReads DEF Welcome, Is, Has
  <1>6. client' = [client EXCEPT ![c] = "ready"] /\ UNCHANGED <<backlog, node, data, at, got, overlap, merged, strayed>>
    BY DEF Welcome
  <1>7. ASSUME client'[c] = "ready" PROVE LineTalk(s, t, l)' /\ Doing(s, c)'
    <2>1. LineTalk(s, t, l)'
      BY <1>3, <1>4, <1>5, <1>7 DEF LineTalk, Is, Has, Flows
    <2>2. Doing(s, c)'
      BY <1>3, <1>6, <1>7 DEF Doing
    <2> QED BY <2>1, <2>2
  <1> QED BY <1>1, <1>2, <1>5, <1>6, <1>7, ClientStepIs

-----------------------------------------------------------------------------
(* SendFile and AskFile *)

\* A client that has been let in settles for what it is about to do.
LEMMA Settles ==
    ASSUME NEW s \in Stories, NEW t \in [Conns -> Stage], Explains(s, t), NEW c \in Client,
           client[c] = "ready", NEW f \in Name, NEW o \in {"read", "write"}
    PROVE  \E s2 \in Stories, l \in Conns :
             /\ Explains(s2, t) /\ OnLine(s2, t, c, l) /\ t[l] = "open"
             /\ s2.want[c] = f /\ s2.op[c] = o /\ Is(l, "ready", <<>>, <<>>)
  <1>1. PICK s2 : s2 = [s EXCEPT !.want = [s.want EXCEPT ![c] = f], !.op = [s.op EXCEPT ![c] = o]]
    OBVIOUS
  <1>2. s2 \in Stories
    BY <1>1 DEF Stories
  <1>3. /\ s2.home = s.home /\ s2.file = s.file /\ s2.owner = s.owner
        /\ s2.want = [s.want EXCEPT ![c] = f] /\ s2.op = [s.op EXCEPT ![c] = o]
    BY <1>1 DEF Stories
  <1>4. DOMAIN s.want = Client /\ DOMAIN s.op = Client
    BY DEF Stories
  <1>5. SameOwners(s, s2) /\ \A d \in Client \ {c} : SameOf(s, s2, d)
    BY <1>3, <1>4 DEF SameOwners, SameOf
  <1>6. Explains(s2, t) /\ t[LineOf(s, c)] = "open"
    BY <1>2, <1>3, <1>5, ResettleReady
  <1>7. PICK l \in Conns : OnLine(s2, t, c, l)
    BY <1>2, <1>6, ClientLine
  <1>8. t[l] = "open"
    BY <1>3, <1>6, <1>7 DEF OnLine, LineOf
  <1>9. Is(l, "ready", <<>>, <<>>)
    BY <1>7, <1>8 DEF OnLine, LineTalk, Is, Has
  <1>10. s2.want[c] = f /\ s2.op[c] = o
    BY <1>3, <1>4
  <1> QED BY <1>2, <1>6, <1>7, <1>8, <1>9, <1>10

\* The client begins to create a file, or asks for one: the story is told anew from there.
LEMMA SendFileStep ==
    ASSUME NEW s \in Stories, NEW t \in [Conns -> Stage], Explains(s, t), NEW c \in Client,
           NEW f \in Name, SendFile(c, f)
    PROVE  \E s2 \in Stories : Explains(s2, t)'
  <1>1. /\ client[c] = "ready" /\ client' = [client EXCEPT ![c] = "creating"]
        /\ got' = [got EXCEPT ![c] = [i \in 1 .. Parts[f] |-> <<c, i>>]]
        /\ wire' = Sent(wire, Line(c), Nowhere, <<CreateFile(f)>>)
        /\ UNCHANGED <<backlog, node, data, at, overlap, merged, strayed>>
    BY DEF SendFile
  <1>2. PICK s2 \in Stories, l \in Conns :
             /\ Explains(s2, t) /\ OnLine(s2, t, c, l) /\ t[l] = "open"
             /\ s2.want[c] = f /\ s2.op[c] = "write" /\ Is(l, "ready", <<>>, <<>>)
    BY <1>1, Settles
  <1>3. Flows(wire, wire', l, <<CreateFile(f)>>, <<>>)
    <2>1. Flows(wire, wire', l, wire[l].up \o <<CreateFile(f)>>, wire[l].down)
      BY <1>1, <1>2, ClientSends
    <2> QED BY <1>2, <2>1, Sending DEF Is, Has
  <1>4. l.c = c /\ Doing(s2, c) /\ LineTalk(s2, t, l)
    BY <1>2 DEF OnLine
  <1>5. DOMAIN got = Client
    BY DEF Explains, Typed
  <1>6. ASSUME client'[c] = "creating" PROVE LineTalk(s2, t, l)' /\ Doing(s2, c)'
    <2>1. Is(l, "creating", <<Creation(s2, c)>>, <<>>)'
      BY <1>2, <1>3, <1>4, <1>6 DEF Is, Has, Flows, Creation
    <2>2. LineTalk(s2, t, l)'
      BY <1>2, <1>4, <2>1 DEF LineTalk
    <2>3. got'[c] = Contents(s2, c)
      BY <1>1, <1>2, <1>5 DEF Contents
    <2> QED BY <1>1, <1>2, <1>4, <1>6, <2>2, <2>3 DEF Doing
  <1>7. Explains(s2, t)'
    BY <1>1, <1>2, <1>3, <1>6, ClientStepIs
  <1> QED BY <1>7

LEMMA AskFileStep ==
    ASSUME NEW s \in Stories, NEW t \in [Conns -> Stage], Explains(s, t), NEW c \in Client,
           NEW f \in Name, AskFile(c, f)
    PROVE  \E s2 \in Stories : Explains(s2, t)'
  <1>1. /\ client[c] = "ready" /\ client' = [client EXCEPT ![c] = "asked"]
        /\ wire' = Sent(wire, Line(c), Nowhere, <<RequestFile(f, Nowhere)>>)
        /\ UNCHANGED <<backlog, node, data, at, got, overlap, merged, strayed>>
    BY DEF AskFile
  <1>2. PICK s2 \in Stories, l \in Conns :
             /\ Explains(s2, t) /\ OnLine(s2, t, c, l) /\ t[l] = "open"
             /\ s2.want[c] = f /\ s2.op[c] = "read" /\ Is(l, "ready", <<>>, <<>>)
    BY <1>1, Settles
  <1>3. Flows(wire, wire', l, <<RequestFile(f, Nowhere)>>, <<>>)
    <2>1. Flows(wire, wire', l, wire[l].up \o <<RequestFile(f, Nowhere)>>, wire[l].down)
      BY <1>1, <1>2, ClientSends
    <2> QED BY <1>2, <2>1, Sending DEF Is, Has
  <1>4. l.c = c /\ Doing(s2, c) /\ LineTalk(s2, t, l)
    BY <1>2 DEF OnLine
  <1>5. ASSUME client'[c] = "asked" PROVE LineTalk(s2, t, l)' /\ Doing(s2, c)'
    <2>1. Is(l, "asked", <<Wish(s2, c)>>, <<>>)'
      BY <1>2, <1>3, <1>4, <1>5 DEF Is, Has, Flows, Wish
    <2>2. LineTalk(s2, t, l)'
      BY <1>2, <1>4, <2>1 DEF LineTalk
    <2> QED BY <1>1, <1>2, <1>4, <1>5, <2>2 DEF Doing
  <1>6. Explains(s2, t)'
    BY <1>1, <1>2, <1>3, <1>5, ClientStepIs
  <1> QED BY <1>6

-----------------------------------------------------------------------------
(* SendContents *)

\* The contents follow.
LEMMA SendContentsStep ==
    ASSUME NEW s \in Stories, NEW t \in [Conns -> Stage], Explains(s, t), NEW c \in Client, SendContents(c)
    PROVE  Explains(s, t)'
  <1>1. /\ client[c] = "creating" /\ client' = [client EXCEPT ![c] = "sent"]
        /\ wire' = Sent(wire, Line(c), Nowhere, <<Raw(got[c])>>)
        /\ UNCHANGED <<backlog, node, data, at, got, overlap, merged, strayed>>
    BY DEF SendContents
  <1>2. PICK l \in Conns : OnLine(s, t, c, l)
    BY <1>1, ClientLine
  <1>3. /\ l.kind = "client" /\ l.c = c /\ t[l] \in LineStages /\ LineTalk(s, t, l) /\ Doing(s, c)
    BY <1>2 DEF OnLine
  <1>4. Raw(got[c]) = Bytes(s, c)
    BY <1>1, <1>3 DEF Doing, Bytes
  <1>5. Flows(wire, wire', l, wire[l].up \o <<Bytes(s, c)>>, wire[l].down)
    BY <1>1, <1>2, <1>4, ClientSends
  <1>6. packet' = packet
    BY <1>1 DEF node
  <1>7. \/ t[l] = "open" /\ wire[l].up = <<Creation(s, c)>> /\ wire[l].down = <<>>
        \/ /\ t[l] \in {"packet", "raw"} /\ wire[l].up = <<>> /\ wire[l].down = <<>>
           /\ packet[l.to] = <<Creation(s, c)>>
    BY <1>1, <1>3 DEF LineTalk, LineStages, Taken, Promised, Is, Has
  <1>8. ASSUME client'[c] = "sent" PROVE LineTalk(s, t, l)' /\ Doing(s, c)'
    <2>1. CASE t[l] = "open"
      <3>1. Flows(wire, wire', l, <<Creation(s, c), Bytes(s, c)>>, <<>>)
        BY <1>5, <1>7, <2>1, Sending
      <3>2. Is(l, "sent", <<Creation(s, c), Bytes(s, c)>>, <<>>)'
        BY <1>3, <1>8, <3>1 DEF Is, Has, Flows
      <3>3. LineTalk(s, t, l)'
        BY <1>3, <2>1, <3>2 DEF LineTalk
      <3> QED BY <1>1, <1>3, <1>8, <3>3 DEF Doing
    <2>2. CASE t[l] # "open"
      <3>1. Flows(wire, wire', l, <<Bytes(s, c)>>, <<>>)
        BY <1>5, <1>7, <2>2, Sending
      <3>2. Is(l, "sent", <<Bytes(s, c)>>, <<>>)'
        BY <1>3, <1>8, <3>1 DEF Is, Has, Flows
      <3>3. Taken(s, l)'
        BY <1>3, <1>6, <1>7, <2>2, <3>2 DEF Taken
      <3>4. LineTalk(s, t, l)'
        BY <1>3, <1>7, <2>2, <3>3 DEF LineTalk
      <3> QED BY <1>1, <1>3, <1>8, <3>4 DEF Doing
    <2> QED BY <2>1, <2>2
  <1> QED BY <1>1, <1>2, <1>5, <1>8, ClientStepIs

-----------------------------------------------------------------------------
(* ReadResponse *)

\* The client reads whether the file is there.
LEMMA ReadResponseStep ==
    ASSUME NEW s \in Stories, NEW t \in [Conns -> Stage], Explains(s, t), NEW c \in Client, ReadResponse(c)
    PROVE  Explains(s, t)'
  <1>1. /\ client[c] = "asked" /\ Queue(Line(c), Nowhere) # <<>>
        /\ UNCHANGED <<backlog, node, data, at, got, overlap, merged, strayed>>
    BY DEF ReadResponse, Hears
  <1>2. PICK l \in Conns : OnLine(s, t, c, l)
    BY <1>1, ClientLine
  <1>3. /\ l.kind = "client" /\ l.c = c /\ t[l] \in LineStages /\ LineTalk(s, t, l)
        /\ wire[l].down # <<>> /\ Doing(s, c)
    BY <1>1, <1>2 DEF OnLine
  <1>4. \/ t[l] \in {"collect", "hand_over", "asking", "asked"} /\ wire[l].up = <<>> /\ wire[l].down = <<Grant(s, c)>>
        \/ t[l] = "refused" /\ wire[l].up = <<>> /\ wire[l].down = <<NotOk>>
    BY <1>1, <1>3 DEF LineTalk, LineStages, Taken, Promised, Is, Has
  <1>5. ms' = ms
    BY <1>1 DEF node
  <1>6. CASE t[l] = "refused"
    <2>1. Queue(Line(c), Nowhere)[1] = NotOk /\ Flows(wire, Read(wire, Line(c), Nowhere, 1), l, <<>>, <<>>)
      BY <1>2, <1>4, <1>6, ClientReads
    <2>2. NotOk.type # "RESPONSE"
      BY PacketFacts
    <2>3. Flows(wire, wire', l, <<>>, <<>>) /\ client' = [client EXCEPT ![c] = "refused"]
      BY <2>1, <2>2 DEF ReadResponse
    <2>4. ASSUME client'[c] = "refused" PROVE LineTalk(s, t, l)' /\ Doing(s, c)'
      <3>1. Is(l, "refused", <<>>, <<>>)'
        BY <1>3, <2>3, <2>4 DEF Is, Has, Flows
      <3>2. LineTalk(s, t, l)'
        BY <1>6, <3>1 DEF LineTalk
      <3> QED BY <1>1, <1>3, <2>4, <3>2 DEF Doing
    <2> QED BY <1>1, <1>2, <2>3, <2>4, ClientStepIs
  <1>7. CASE t[l] # "refused"
    <2>1. wire[l].down = <<Grant(s, c)>> /\ wire[l].up = <<>>
      BY <1>4, <1>7
    <2>2. Queue(Line(c), Nowhere)[1] = Grant(s, c) /\ Grant(s, c).type = "RESPONSE"
      BY <1>2, <2>1, ClientReads, PacketFacts DEF Grant
    <2>3. /\ wire' = Sent(Read(wire, Line(c), Nowhere, 1), Line(c), Nowhere, <<Ok>>)
          /\ client' = [client EXCEPT ![c] = "fetch"]
      BY <2>2 DEF ReadResponse
    <2>4. Flows(wire, wire', l, <<Ok>>, <<>>)
      <3>1. Flows(wire, wire', l, wire[l].up \o <<Ok>>, <<>>)
        BY <1>2, <2>1, <2>3, ClientReplies
      <3> QED BY <2>1, <3>1, Sending
    <2>5. ASSUME client'[c] = "fetch" PROVE LineTalk(s, t, l)' /\ Doing(s, c)'
      <3>1. Is(l, "fetch", <<Ok>>, <<>>)'
        BY <1>3, <2>4, <2>5 DEF Is, Has, Flows
      <3>2. Promised(s, l)'
        BY <3>1 DEF Promised
      <3>3. /\ t[l] \in {"collect", "hand_over"} => l.to # Index
            /\ t[l] \in {"asking", "asked"} => l.to = Index
            /\ t[l] = "hand_over" => ms'[l.to].buffer = Whole(s, l.c)
        BY <1>3, <1>5 DEF LineTalk
      <3>4. t[l] \in {"collect", "hand_over", "asking", "asked"}
        BY <1>4, <1>7
      <3>5. LineTalk(s, t, l)'
        BY <3>2, <3>3, <3>4 DEF LineTalk
      <3> QED BY <1>1, <1>3, <2>5, <3>5 DEF Doing
    <2> QED BY <1>1, <1>2, <2>3, <2>4, <2>5, ClientStepIs
  <1> QED BY <1>6, <1>7

-----------------------------------------------------------------------------
(* ReadContents *)

\* The client reads the file.
LEMMA ReadContentsStep ==
    ASSUME NEW s \in Stories, NEW t \in [Conns -> Stage], Explains(s, t), NEW c \in Client, ReadContents(c)
    PROVE  Explains(s, t)'
  <1>1. /\ client[c] = "fetch" /\ Queue(Line(c), Nowhere) # <<>> /\ client' = [client EXCEPT ![c] = "done"]
        /\ wire' = Read(wire, Line(c), Nowhere, 1)
        /\ got' = [got EXCEPT ![c] = Queue(Line(c), Nowhere)[1].bytes]
        /\ UNCHANGED <<backlog, node, data, at, overlap, merged, strayed>>
    BY DEF ReadContents, Hears
  <1>2. PICK l \in Conns : OnLine(s, t, c, l)
    BY <1>1, ClientLine
  <1>3. /\ l.kind = "client" /\ l.c = c /\ t[l] \in LineStages /\ LineTalk(s, t, l)
        /\ wire[l].down # <<>> /\ Doing(s, c)
    BY <1>1, <1>2 DEF OnLine
  <1>4. t[l] = "served" /\ l.to # Index /\ wire[l].up = <<>> /\ wire[l].down = <<Raw(Whole(s, c))>>
    BY <1>1, <1>3 DEF LineTalk, LineStages, Taken, Promised, Is, Has
  <1>5. Queue(Line(c), Nowhere)[1] = Raw(Whole(s, c)) /\ Flows(wire, wire', l, <<>>, <<>>)
    BY <1>1, <1>2, <1>4, ClientReads
  <1>6. DOMAIN got = Client
    BY DEF Explains, Typed
  <1>7. got'[c] = Whole(s, c)
    BY <1>1, <1>5, <1>6, PacketFacts
  <1>8. ASSUME client'[c] = "done" PROVE LineTalk(s, t, l)' /\ Doing(s, c)'
    <2>1. Is(l, "done", <<>>, <<>>)'
      BY <1>3, <1>5, <1>8 DEF Is, Has, Flows
    <2>2. LineTalk(s, t, l)'
      BY <1>3, <1>4, <1>7, <2>1 DEF LineTalk
    <2> QED BY <1>1, <1>3, <1>8, <2>2 DEF Doing
  <1> QED BY <1>1, <1>2, <1>5, <1>8, ClientStepIs

-----------------------------------------------------------------------------
(* Connect *)

\* A new line, k, to the node that the story foresees.
Comer(s, t, c, k) ==
    /\ k = LineOf(s, c) /\ k \in Conns /\ k.kind = "client" /\ k.c = c /\ k.to = s.home[c] /\ k.to \in Node
    /\ k.from = Nowhere /\ client[c] = "off" /\ \A x \in Conns : x.c = c => t[x] = "none"
    /\ Opens(wire, wire', k, <<Present>>) /\ Pushes(k) /\ client' = [client EXCEPT ![c] = "hello"]
    /\ at' = [at EXCEPT ![c] = k.to] /\ overlap' \subseteq Client
    /\ UNCHANGED <<node, data, got, merged, strayed>>

\* A new client: nothing told of it before matters, and the story is told for it.
LEMMA ComerFacts ==
    ASSUME NEW s \in Stories, NEW t \in [Conns -> Stage], Explains(s, t), NEW c \in Client,
           NEW n \in Node, Connect(c, n)
    PROVE  \E s2 \in Stories, k \in Conns : Explains(s2, t) /\ Comer(s2, t, c, k)
  <1>1. /\ client[c] = "off" /\ client' = [client EXCEPT ![c] = "hello"] /\ at' = [at EXCEPT ![c] = n]
        /\ wire' = Opened(wire, Conn("client", c, 0, Nowhere, n), <<Present>>)
        /\ backlog' = [backlog EXCEPT ![n] = Append(@, Conn("client", c, 0, Nowhere, n))]
        /\ UNCHANGED <<node, data, got, merged, strayed>>
    BY DEF Connect
  <1>2. overlap' \subseteq Client
    <2>1. overlap \subseteq Client
      BY DEF Explains, Typed
    <2> QED BY <2>1 DEF Connect
  <1>3. PICK s2 : s2 = [s EXCEPT !.home = [s.home EXCEPT ![c] = n]]
    OBVIOUS
  <1>4. s2 \in Stories
    BY <1>3 DEF Stories
  <1>5. /\ s2.want = s.want /\ s2.op = s.op /\ s2.file = s.file /\ s2.owner = s.owner
        /\ s2.home = [s.home EXCEPT ![c] = n] /\ DOMAIN s.home = Client
    BY <1>3 DEF Stories
  <1>6. SameOwners(s, s2) /\ \A d \in Client \ {c} : SameOf(s, s2, d)
    BY <1>5 DEF SameOwners, SameOf
  <1>7. Explains(s2, t)
    BY <1>1, <1>4, <1>6, ResettleOff
  <1>8. s2.home[c] = n
    BY <1>5
  <1> DEFINE k == LineOf(s2, c)
  <1>9. k \in Conns /\ k.kind = "client" /\ k.c = c /\ k.to = n /\ k.from = Nowhere
    BY <1>4, <1>8, ConnsOf
  <1>10. k = Conn("client", c, 0, Nowhere, n)
    BY <1>8 DEF LineOf
  <1>11. \A x \in Conns : x.c = c => t[x] = "none"
    BY <1>1 DEF Explains, Links
  <1>12. Opens(wire, wire', k, <<Present>>)
    BY <1>1, <1>10, WireOpened
  <1>13. Pushes(k)
    BY <1>1, <1>9, <1>10 DEF Pushes
  <1>14. Comer(s2, t, c, k)
    BY <1>1, <1>2, <1>8, <1>9, <1>11, <1>12, <1>13 DEF Comer
  <1> QED BY <1>4, <1>7, <1>9, <1>14

LEMMA ComerStep ==
    ASSUME NEW s \in Stories, NEW t \in [Conns -> Stage], Explains(s, t), NEW c \in Client, c \notin complete,
           NEW k \in Conns, Comer(s, t, c, k)
    PROVE  \E t2 \in [Conns -> Stage] : Explains(s, t2)'
  <1> DEFINE K == {x \in Conns : x.kind = "client" /\ x.c = c}
  <1>1. /\ k = LineOf(s, c) /\ k.kind = "client" /\ k.c = c /\ k.to = s.home[c] /\ k.to \in Node /\ k.from = Nowhere
        /\ client[c] = "off" /\ \A x \in Conns : x.c = c => t[x] = "none"
        /\ Opens(wire, wire', k, <<Present>>) /\ Pushes(k) /\ client' = [client EXCEPT ![c] = "hello"]
        /\ at' = [at EXCEPT ![c] = k.to] /\ overlap' \subseteq Client
        /\ UNCHANGED <<node, data, got, merged, strayed>>
    BY DEF Comer
  <1>2. /\ Typed /\ DOMAIN wire = {x \in Conns : t[x] # "none"} /\ Links(s, t) /\ Queues(t)
        /\ Inquiry(s, t) /\ Handout(s, t) /\ Numbering(s, t) /\ Shelves(s, t)
        /\ \A d \in Client : Request(s, t, d)
    BY DEF Explains
  <1>3. UNCHANGED <<pc, fd, client_fd, packet, ms, call, todo, fs, files, complete>>
    BY <1>1 DEF node, data
  <1>4. /\ DOMAIN client = Client /\ DOMAIN at = Client /\ todo \in Seq(Pointer)
        /\ client'[c] = "hello" /\ at'[c] = s.home[c] /\ DOMAIN client' = Client /\ DOMAIN at' = Client
        /\ \A d \in Client \ {c} : client'[d] = client[d] /\ at'[d] = at[d]
    BY <1>1, <1>2 DEF Typed
  <1>5. PICK t2 \in [Conns -> Stage] : t2[k] = "queued" /\ SameBut(t, t2, k)
    <2>1. "queued" \in Stage
      BY DEF Stage, CallStages
    <2> QED BY <2>1, Advance
  <1>6. t[k] = "none" /\ t2[k] = "queued" /\ \A x \in Conns \ {k} : t2[x] = t[x]
    BY <1>1, <1>5 DEF SameBut
  <1>7. Queues(t2)' /\ DOMAIN backlog' = Node /\ QueuedMore(k)
    BY <1>1, <1>2, <1>6, QueuesPush DEF Typed
  <1>8. /\ DOMAIN wire' = {x \in Conns : t2[x] # "none"}
        /\ \A x \in Conns : t[x] # "none" => wire'[x] = wire[x]
        /\ wire'[k].up = <<Present>> /\ wire'[k].down = <<>> /\ DOMAIN wire'[k] = {"up", "down"}
    BY <1>1, <1>2, <1>6 DEF Opens
  <1>9. Elsewhere(Nowhere)
    BY <1>3 DEF Elsewhere
  <1>10. ~IsCall(s, k)
    BY <1>1 DEF IsCall
  <1>11. Moves(s, t, t2, Nowhere, K)
    <2>1. \A d \in Client : /\ client[d] # "off" => client'[d] # "off"
                            /\ Forwarded(s, d) => Forwarded(s, d)'
      <3> SUFFICES ASSUME NEW d \in Client, client[d] # "off"
                   PROVE  client'[d] # "off" /\ (Forwarded(s, d) => Forwarded(s, d)')
        BY DEF Forwarded
      <3>1. client'[d] = client[d] /\ LineOf(s, d) \in Conns
        BY <1>1, <1>4, ConnsOf
      <3>2. t[LineOf(s, d)] # "none"
        BY <1>2 DEF Request, Progress
      <3> QED BY <1>8, <3>1, <3>2 DEF Forwarded
    <2> SUFFICES ASSUME NEW x \in Conns \ K
                 PROVE  /\ t2[x] = t[x]
                        /\ t[x] # "none" => wire'[x] = wire[x]
                        /\ t[x] = "queued" => \E y \in DOMAIN backlog'[x.to] : backlog'[x.to][y] = x
                        /\ t[x] \in Seated => x.to # Nowhere
                        /\ Dialling(s, t, x) => x.from # Nowhere
                        /\ x.kind = "client" => client'[x.c] = client[x.c] /\ got'[x.c] = got[x.c]
      BY <1>9, <2>1 DEF Moves
    <2>2. x.to \in Node /\ x.c \in Client /\ x # k
      BY <1>1, ConnType
    <2>3. x.to # Nowhere
      BY <2>2, ParameterFacts
    <2>4. t[x] = "queued" => \E y \in DOMAIN backlog'[x.to] : backlog'[x.to][y] = x
      <3>1. ASSUME t[x] = "queued" PROVE \E y \in DOMAIN backlog[x.to] : backlog[x.to][y] = x
        BY <1>2, <3>1 DEF Links, Link, Seat
      <3> QED BY <1>7, <2>2, <3>1 DEF QueuedMore
    <2>5. Dialling(s, t, x) => x.from # Nowhere
      <3>1. ASSUME Dialling(s, t, x) PROVE x.from # Nowhere
        <4>1. IsCall(s, x) /\ t[x] # "none"
          BY <3>1 DEF Dialling
        <4>2. x.from \in Node
          BY <1>2, <4>1, CallEnds DEF Links, Link
        <4> QED BY <4>2, ParameterFacts
      <3> QED BY <3>1
    <2>6. x.kind = "client" => client'[x.c] = client[x.c] /\ got'[x.c] = got[x.c]
      BY <1>1, <1>4, <2>2
    <2> QED BY <1>6, <1>8, <2>2, <2>3, <2>4, <2>5, <2>6
  <1>12. Ripple(s, t, t2, Nowhere)
    BY <1>6, <1>10 DEF Ripple, Pushed, Dialling
  <1>13. Typed'
    BY <1>1, <1>2, <1>3, <1>4, <1>7 DEF Typed
  <1>14. Link(s, t2, k)'
    <2>1. Caller(s, t2, k)' /\ CallTalk(s, t2, k)'
      BY <1>10 DEF Caller, Dialling, CallTalk
    <2>2. RelayTalk(s, t2, k)'
      BY <1>1 DEF RelayTalk
    <2>3. Shape(s, t2, k)
      BY <1>1, <1>6 DEF Shape, LineStages
    <2>4. Seat(t2, k)'
      BY <1>6, <1>7 DEF Seat, QueuedMore
    <2>5. LineTalk(s, t2, k)'
      BY <1>1, <1>4, <1>6, <1>8 DEF LineTalk, Is, Has
    <2> QED BY <1>8, <2>1, <2>2, <2>3, <2>4, <2>5 DEF Link
  <1>15. \A x \in Conns : x \in K /\ t2[x] # "none" => client'[x.c] # "off" /\ Link(s, t2, x)'
    BY <1>1, <1>4, <1>6, <1>14
  <1>16. \A d \in Client \ {c} : t2[Job(s, d)] = t[Job(s, d)]
    BY <1>1, <1>6, ConnsOf
  <1>17. \A x \in Conns : t2[x] # "none" => Bound(s, t2, x)
    <2> SUFFICES ASSUME NEW x \in Conns, t2[x] # "none" PROVE Bound(s, t2, x)
      OBVIOUS
    <2>1. CASE x = k
      BY <1>1, <2>1 DEF Bound
    <2>2. CASE x # k
      <3>1. t[x] # "none" /\ x.c # c /\ x.c \in Client
        BY <1>1, <1>6, <2>2, ConnType
      <3>2. Bound(s, t, x)
        BY <1>2, <3>1 DEF Links
      <3> QED BY <1>16, <3>1, <3>2 DEF Bound, Granted, Numbered
    <2> QED BY <2>1, <2>2
  <1>18. t2[Job(s, c)] \in {"none", "queued"}
    <2>1. Job(s, c) \in Conns /\ Job(s, c).c = c
      BY ConnsOf
    <2> QED BY <1>1, <1>6, <2>1
  <1>19. Request(s, t2, c)'
    <2>1. \A x \in Conns : x.c = c /\ x # k => t2[x] = "none"
      BY <1>1, <1>6
    <2>2. RelayOf(s, c) \in Conns /\ RelayOf(s, c).c = c /\ RelayOf(s, c) # k
      BY <1>1, ConnsOf
    <2>3. t2[LineOf(s, c)] = "queued" /\ t2[RelayOf(s, c)] = "none"
      BY <1>1, <1>6, <2>1, <2>2
    <2>4. Progress(s, t2, c)
      BY <2>3 DEF Progress
    <2>5. Answers(s, t2, c)' /\ Tally(s, t2, c)'
      BY <2>3 DEF Answers, Tally
    <2>6. Doing(s, c)'
      BY <1>4 DEF Doing
    <2>7. ASSUME NEW i \in 1 .. Parts[s.want[c]] PROVE Fetch(s, t2, c, i)
      <3>1. i \in Node
        BY StoryType, PartsFacts
      <3>2. /\ DeliverOf(s, c, i) \in Conns /\ DeliverOf(s, c, i).c = c /\ DeliverOf(s, c, i).kind = "deliver"
            /\ AskOf(c, i) \in Conns /\ AskOf(c, i).c = c /\ AskOf(c, i).kind = "ask"
        BY <3>1, ConnsOf
      <3>3. t2[DeliverOf(s, c, i)] = "none" /\ t2[AskOf(c, i)] = "none"
        BY <1>1, <2>1, <3>2
      <3> QED BY <2>3, <3>3 DEF Fetch, Undelivered, Delivered
    <2>8. Found(s, t2, c)' /\ HandedOut(s, t2, c)
      BY <1>18 DEF Found, HandedOut, Granted
    <2>9. ~(c \in complete') /\ t2[Job(s, c)] # "stored"
      BY <1>3, <1>18
    <2> QED BY <2>4, <2>5, <2>6, <2>7, <2>8, <2>9 DEF Request
  <1>20. \A d \in Client : Request(s, t2, d)'
    <2> SUFFICES ASSUME NEW d \in Client, d # c PROVE Request(s, t2, d)'
      BY <1>19
    <2>1. \A x \in Conns : x.c = d => Alike(s, t[x], t2[x], x)
      BY <1>1, <1>6 DEF Alike
    <2>2. RelayOf(s, d) \in Conns /\ LineOf(s, d) \in Conns /\ LineOf(s, d).c = d
      BY ConnsOf
    <2>3. t[RelayOf(s, d)] \in {"asking", "asked", "refused"} =>
            wire'[RelayOf(s, d)].down = wire[RelayOf(s, d)].down
      BY <1>8, <2>2
    <2>4. t[LineOf(s, d)] = "collect" =>
            pc'[s.home[d]] \in Collecting /\ ms'[s.home[d]] = ms[s.home[d]]
      <3>1. ASSUME t[LineOf(s, d)] = "collect" PROVE pc[s.home[d]] \in Collecting
        <4>1. client[d] # "off"
          BY <1>2, <2>2, <3>1 DEF Links
        <4> QED BY <1>2, <3>1, <4>1 DEF Request, Tally
      <3> QED BY <1>3, <3>1
    <2>5. client'[d] = client[d] /\ got'[d] = got[d] /\ at'[d] = at[d]
      BY <1>1, <1>4
    <2>6. \A x \in Conns : t[x] = "stored" => t2[x] = "stored"
      BY <1>6
    <2> QED BY <1>2, <1>3, <2>1, <2>3, <2>4, <2>5, <2>6, RequestFrame
  <1>21. Inquiry(s, t2)'
    <2>1. Working("ask")' => /\ Working("ask") /\ fd'[Index] = fd[Index]
                             /\ ms'[Index] = ms[Index] /\ todo' = todo
      BY <1>3 DEF Working
    <2>2. /\ \A x \in Conns : t[x] = "asking" => t2[x] = "asking"
          /\ \A x \in Conns : x.kind \in {"ask", "deliver"} /\ t[x] = "none" => t2[x] = "none"
      BY <1>1, <1>6
    <2> QED BY <1>2, <1>4, <2>1, <2>2, InquiryFrame
  <1>22. Handout(s, t2)'
    <2>1. Working("fanout")' => /\ Working("fanout") /\ fd'[Index] = fd[Index]
                                /\ ms'[Index] = ms[Index] /\ todo' = todo
                                /\ pc'[Index] = "call" => /\ pc[Index] = "call"
                                                          /\ call'[Index].conn = call[Index].conn
      BY <1>3 DEF Working
    <2>2. /\ \A x \in Conns : t[x] = "fanout" => t2[x] = "fanout"
          /\ \A x \in Conns : x.kind = "store" => (t2[x] = "none" <=> t[x] = "none")
      BY <1>1, <1>6
    <2> QED BY <1>2, <2>1, <2>2, HandoutFrame
  <1>23. Numbering(s, t2)'
    <2>1. ~Numbered(s, t2, c)
      BY <1>18 DEF Numbered
    <2>2. \A d \in Client \ {c} : Numbered(s, t2, d) <=> Numbered(s, t, d)
      BY <1>16 DEF Numbered
    <2>3. ASSUME NEW id \in 2 .. Len(files)
          PROVE  /\ s.owner[id] \in Client /\ client'[s.owner[id]] # "off" /\ Numbered(s, t2, s.owner[id])
                 /\ s.file[s.owner[id]] = id
      <3>1. /\ s.owner[id] \in Client /\ client[s.owner[id]] # "off" /\ Numbered(s, t, s.owner[id])
            /\ s.file[s.owner[id]] = id
        BY <1>2 DEF Numbering
      <3>2. s.owner[id] # c
        BY <1>1, <3>1
      <3> QED BY <1>4, <2>2, <3>1, <3>2
    <2>4. ASSUME NEW d \in Client, client'[d] # "off", Numbered(s, t2, d)
          PROVE  /\ client'[d] = "sent" /\ s.file[d] \in 2 .. Len(files)
                 /\ s.owner[s.file[d]] = d /\ files[s.file[d]] = s.want[d]
      <3>1. d # c /\ Numbered(s, t, d) /\ client[d] # "off" /\ client'[d] = client[d]
        BY <1>4, <2>1, <2>2, <2>4
      <3> QED BY <1>2, <3>1 DEF Numbering
    <2> QED BY <1>2, <1>3, <2>3, <2>4 DEF Numbering
  <1>24. Shelves(s, t2)'
    <2>1. /\ \A x \in Conns : t2[x] = "stored" <=> t[x] = "stored"
          /\ \A x \in Conns : x.kind = "store" => (t2[x] = "over" <=> t[x] = "over")
      BY <1>1, <1>6
    <2> QED BY <1>3, <2>1, ShelvesApart
  <1>25. Nowhere \notin Node
    BY ParameterFacts
  <1> HIDE DEF K
  <1>26. Explains(s, t2)'
    BY <1>7, <1>8, <1>11, <1>12, <1>13, <1>15, <1>17, <1>20, <1>21, <1>22, <1>23, <1>24, <1>25, Together
  <1> QED BY <1>26

\* The new client's connection is in its node's queue.
LEMMA ConnectStep ==
    ASSUME NEW s \in Stories, NEW t \in [Conns -> Stage], Explains(s, t), NEW c \in Client,
           c \notin complete, NEW n \in Node, Connect(c, n)
    PROVE  \E s2 \in Stories, t2 \in [Conns -> Stage] : Explains(s2, t2)'
  <1>1. PICK s2 \in Stories, k \in Conns : Explains(s2, t) /\ Comer(s2, t, c, k)
    BY ComerFacts
  <1>2. \E t2 \in [Conns -> Stage] : Explains(s2, t2)'
    BY <1>1, ComerStep
  <1> QED BY <1>2

-----------------------------------------------------------------------------
(* What the story tells of the properties *)

\* An explained state is well typed.
LEMMA TypesExplained ==
    ASSUME NEW s \in Stories, NEW t \in [Conns -> Stage], Explains(s, t), AtPrompt, foreign = {}
    PROVE  TypeOK
  <1>1. /\ Typed /\ DOMAIN wire = {k \in Conns : t[k] # "none"} /\ Links(s, t) /\ Queues(t)
        /\ \A n \in Node : Thread(s, t, n)
        /\ Numbering(s, t) /\ Shelves(s, t)
    BY DEF Explains
  <1>2. ASSUME NEW k \in DOMAIN wire
        PROVE  k.to \in Node /\ k.from \in (Node \cup {Nowhere}) \ {k.to} /\ k.c \in Client
    <2>1. k \in Conns /\ Shape(s, t, k)
      BY <1>1, <1>2 DEF Links, Link
    <2> QED BY <2>1, ConnType, CallEnds
  <1>3. ASSUME NEW n \in Node
        PROVE  /\ pc[n] \in Position
               /\ \A i \in DOMAIN backlog[n] : backlog[n][i] \in DOMAIN wire /\ backlog[n][i].to = n
               /\ {fd[n], client_fd[n], call[n].conn} \subseteq DOMAIN wire \cup {NoConn}
               /\ ms[n].found \in 0 .. ms[n].count
               /\ \A i \in DOMAIN ms[n].buffer : ms[n].buffer[i] \in Part
               /\ \A id \in FileId : Len(fs[n][id]) <= REDUNDANCY
    <2>1. Thread(s, t, n)
      BY <1>1
    <2>2. pc[n] \in Position
      BY <2>1 DEF Thread
    <2>3. \A i \in DOMAIN backlog[n] : backlog[n][i] \in DOMAIN wire /\ backlog[n][i].to = n
      <3> SUFFICES ASSUME NEW i \in DOMAIN backlog[n]
                   PROVE  backlog[n][i] \in DOMAIN wire /\ backlog[n][i].to = n
        OBVIOUS
      <3>1. backlog[n] \in Seq(Conns) /\ backlog[n][i].to = n /\ t[backlog[n][i]] = "queued"
        BY <1>1 DEF Queues
      <3>2. backlog[n][i] \in Conns
        BY <3>1
      <3> QED BY <1>1, <3>1, <3>2
    <2>4. {fd[n], client_fd[n], call[n].conn} \subseteq DOMAIN wire \cup {NoConn}
      <3>1. fd[n] # NoConn => fd[n] \in DOMAIN wire
        BY <1>1, <2>1 DEF Thread
      <3>2. client_fd[n] # NoConn => client_fd[n] \in DOMAIN wire
        BY <1>1, <2>1 DEF Thread
      <3>3. call[n].conn # NoConn => call[n].conn \in DOMAIN wire
        BY <1>1, <2>1 DEF Thread
      <3> QED BY <3>1, <3>2, <3>3
    <2>5. ms[n] \in Machine /\ ms[n].found <= ms[n].count
      BY <1>1 DEF Typed
    <2>6. ms[n].found \in Nat /\ ms[n].count \in Nat /\ ms[n].buffer \in Seq(Part)
      BY <2>5 DEF Machine
    <2>7. \A i \in DOMAIN ms[n].buffer : ms[n].buffer[i] \in Part
      BY <2>6
    <2>8. \A id \in FileId : Len(fs[n][id]) <= REDUNDANCY
      <3> SUFFICES ASSUME NEW id \in FileId PROVE Len(fs[n][id]) <= 2
        BY DEF REDUNDANCY
      <3>1. CASE id \in DOMAIN files
        <4>1. Slots(s, t, n, id)
          BY <1>1, <3>1 DEF Shelves
        <4>2. fs[n][id] = <<>> \/ (\E a : fs[n][id] = <<a>>) \/ (\E a, b : fs[n][id] = <<a, b>>)
          BY <4>1 DEF Slots
        <4>3. Len(fs[n][id]) \in {0, 1, 2}
          <5>1. CASE fs[n][id] = <<>>
            BY <5>1
          <5>2. CASE \E a : fs[n][id] = <<a>>
            <6>1. PICK a : fs[n][id] = <<a>>
              BY <5>2
            <6>2. Len(<<a>>) = 1
              OBVIOUS
            <6> QED BY <6>1, <6>2
          <5>3. CASE \E a, b : fs[n][id] = <<a, b>>
            <6>1. PICK a, b : fs[n][id] = <<a, b>>
              BY <5>3
            <6>2. Len(<<a, b>>) = 2
              OBVIOUS
            <6> QED BY <6>1, <6>2
          <5> QED BY <4>2, <5>1, <5>2, <5>3
        <4> DEFINE m == Len(fs[n][id])
        <4>4. m \in {0, 1, 2}
          BY <4>3
        <4> HIDE DEF m
        <4>5. m <= 2
          BY <4>4
        <4> QED BY <4>5 DEF m
      <3>2. CASE id \notin DOMAIN files
        <4>1. fs[n][id] = <<>>
          BY <1>1, <3>2 DEF Shelves
        <4> QED BY <4>1, Lengths
      <3> QED BY <3>1, <3>2
    <2> QED BY <2>2, <2>3, <2>4, <2>5, <2>6, <2>7, <2>8
  <1>4. \A i \in DOMAIN files : files[i] \in Name
    BY <1>1 DEF Numbering
  <1>5. closed \subseteq Client /\ foreign \subseteq Client
    BY DEF AtPrompt
  <1> QED BY <1>1, <1>2, <1>3, <1>4, <1>5 DEF TypeOK, Typed

\* What a client has read is the file: its node handed over the whole buffer, and only when every
\* fragment had arrived.
LEMMA ReadsExplained ==
    ASSUME NEW s \in Stories, NEW t \in [Conns -> Stage], Explains(s, t)
    PROVE  ReadsAreWhole
  <1> SUFFICES ASSUME NEW c \in Client, client[c] = "done"
               PROVE  \E b \in Client \cup {0} : got[c] = [i \in 1 .. Len(got[c]) |-> <<b, i>>]
    BY DEF ReadsAreWhole
  <1>1. PICK l \in Conns : OnLine(s, t, c, l)
    BY ClientLine
  <1>2. l.kind = "client" /\ l.c = c /\ t[l] \in LineStages /\ LineTalk(s, t, l)
    BY <1>1 DEF OnLine
  <1>3. t[l] = "served" /\ got[c] = Whole(s, c)
    BY <1>2 DEF LineTalk, LineStages, Taken, Promised, Is, Has
  <1>4. s.want[c] \in Name /\ s.file[c] \in Nat
    BY StoryType
  <1>5. s.owner[s.file[c]] \in Client \cup {0}
    BY <1>4, StoryType
  <1>6. Parts[s.want[c]] \in Nat
    BY <1>4, PartsFacts
  <1>7. Len(got[c]) = Parts[s.want[c]]
    BY <1>3, <1>6 DEF Whole
  <1> QED BY <1>3, <1>5, <1>7 DEF Whole

\* At rest, every copy that has been handed out is on its shelf.
LEMMA PlacedAtRest ==
    ASSUME NEW s \in Stories, NEW t \in [Conns -> Stage], Explains(s, t),
           \A n \in Node : pc[n] = "idle" /\ backlog[n] = <<>>,
           NEW id \in DOMAIN files, NEW j \in 1 .. Copies(files[id])
    PROVE  Placed(s, t, id, j)
  <1>1. CASE id = 1
    BY <1>1 DEF Placed
  <1>2. CASE id # 1
    <2> DEFINE c == s.owner[id]
    <2>1. files \in Seq(Name) /\ id \in 2 .. Len(files)
      BY <1>2 DEF Explains, Numbering
    <2>2. /\ c \in Client /\ client[c] # "off" /\ Numbered(s, t, c) /\ s.file[c] = id
          /\ files[s.file[c]] = s.want[c]
      BY <2>1 DEF Explains, Numbering
    <2> DEFINE k == Job(s, c)
    <2>3. k \in Conns /\ k.to = Index /\ Index \in Node
      BY <2>2, ConnsOf, ParameterFacts
    <2>4. t[k] # "fanout"
      <3>1. pc[Index] = "idle"
        BY <2>3
      <3>2. t[k] = "fanout" => Seat(t, k)
        BY <2>3 DEF Explains, Links, Link
      <3> QED BY <2>3, <3>1, <3>2 DEF Seat
    <2>5. t[k] = "stored"
      BY <2>2, <2>4 DEF Numbered
    <2>6. Left(s, t, c) = 0
      BY <2>5 DEF Left
    <2>7. CASE Copy(files[id], j).node_id = Index
      BY <1>2, <2>6, <2>7 DEF Placed
    <2>8. CASE Copy(files[id], j).node_id # Index
      <3>1. HandedOut(s, t, c)
        BY <2>2 DEF Explains, Request
      <3> DEFINE x == StoreOf(s, c, j)
      <3>2. j \in 1 .. Copies(s.want[c]) /\ t[x] \in {"raw", "over"}
        BY <2>2, <2>5, <2>8, <3>1 DEF HandedOut
      <3>3. x \in Conns /\ x.kind = "store" /\ x.to \in Node
        BY <2>2, <3>2, StoreConn, ConnType
      <3>4. t[x] # "raw"
        <4>1. pc[x.to] = "idle"
          BY <3>3
        <4>2. t[x] = "raw" => Seat(t, x)
          BY <3>3 DEF Explains, Links, Link
        <4> QED BY <3>3, <4>1, <4>2 DEF Seat
      <3> QED BY <1>2, <2>8, <3>2, <3>4 DEF Placed
    <2> QED BY <2>7, <2>8
  <1> QED BY <1>1, <1>2

\* At rest no copy is on its way, so every shelf holds its copies.
LEMMA StoresExplained ==
    ASSUME NEW s \in Stories, NEW t \in [Conns -> Stage], Explains(s, t),
           \A p \in torn : TooLong(p[2], 0) \/ p[1] \in closed
    PROVE  StoredWhole
  <1> SUFFICES ASSUME \A n \in Node : pc[n] = "idle" /\ backlog[n] = <<>>, NEW id \in DOMAIN files
               PROVE  \E b \in Client \cup {0} :
                        /\ \A p \in Range(Table[files[id]]) :
                             [id |-> p.fragment, bytes |-> <<<<b, p.fragment>>>>] \in Range(fs[p.node_id][id])
                        /\ <<b, files[id]>> \in torn => TooLong(files[id], 0) \/ b \in closed
    BY DEF StoredWhole
  <1> DEFINE f == files[id]
             b == s.owner[id]
  <1>1. files \in Seq(Name) /\ f \in Name /\ id \in Nat
    BY DEF Explains, Numbering
  <1>2. b \in Client \cup {0}
    BY <1>1 DEF Stories
  <1>3. ASSUME NEW p \in Range(Table[f])
        PROVE  [id |-> p.fragment, bytes |-> <<<<b, p.fragment>>>>] \in Range(fs[p.node_id][id])
    <2>1. Table[f] \in Seq(Pointer) /\ Len(Table[f]) = Copies(f) /\ Copies(f) \in Nat
      BY <1>1, TableFacts, PartsFacts
    <2>2. PICK q \in 1 .. Copies(f) : p = Table[f][q]
      BY <1>3, <2>1 DEF Range
    <2>3. PICK j \in 1 .. Copies(f) : j = Copies(f) + 1 - q
      BY <2>1, <2>2
    <2>4. Copy(f, j) = p
      <3>1. Copies(f) + 1 - j = q
        BY <2>1, <2>2, <2>3
      <3> QED BY <2>2, <3>1 DEF Copy
    <2>5. p.node_id \in Node
      BY <1>1, <2>2, TableFacts
    <2>6. Placed(s, t, id, j)
      BY PlacedAtRest
    <2>7. j \in On(s, t, p.node_id, id)
      BY <2>4, <2>6 DEF On
    <2>8. Slots(s, t, p.node_id, id)
      <3>1. id \in FileId
        BY FewFiles DEF Explains
      <3> QED BY <2>5, <3>1 DEF Explains, Shelves
    <2>9. Entry(s, id, j) = [id |-> p.fragment, bytes |-> <<<<b, p.fragment>>>>]
      BY <2>4 DEF Entry
    <2>10. Entry(s, id, j) \in Range(fs[p.node_id][id])
      <3>1. \/ fs[p.node_id][id] = <<Entry(s, id, j)>>
            \/ \E a : fs[p.node_id][id] = <<Entry(s, id, j), a>>
            \/ \E a : fs[p.node_id][id] = <<a, Entry(s, id, j)>>
        BY <2>7, <2>8 DEF Slots
      <3> QED BY <3>1 DEF Range
    <2> QED BY <2>9, <2>10
  <1>4. <<b, f>> \in torn => TooLong(f, 0) \/ b \in closed
    <2> DEFINE p == <<b, f>>
    <2>1. p[1] = b /\ p[2] = f
      OBVIOUS
    <2> QED BY <2>1
  <1> QED BY <1>2, <1>3, <1>4

-----------------------------------------------------------------------------
(* Nodes that wait for each other *)

\* A node that waits for a node, neither of them the index, is delivering to it or
\* collects from it.
LEMMA WaitsOnDelivery ==
    ASSUME NEW s \in Stories, NEW t \in [Conns -> Stage], Explains(s, t),
           NEW n \in Node \ {Index}, NEW m \in Node \ {Index}, WaitsFor(n, m)
    PROVE  \E k \in Conns :
             /\ k.kind = "deliver" /\ t[k] # "none" /\ Reads(n) = k
             /\ \/ /\ pc[n] = "call" /\ k.from = n /\ k.to = m /\ t[k] \in Undelivered
                \/ /\ pc[n] \in Collecting /\ k.to = n /\ k.from = m /\ pc[m] = "call"
                   /\ call[m].conn = k /\ wire[k].down = <<Ok>>
  <1> DEFINE k == Reads(n)
  <1>1. k # NoConn /\ Queue(k, n) = <<>> /\ m = (IF k.to = n THEN k.from ELSE k.to)
    BY DEF WaitsFor
  <1>2. Thread(s, t, n) /\ n \in Node /\ m \in Node /\ n # Index /\ m # Index
    BY DEF Explains
  <1>3. m # Nowhere
    BY <1>2, ParameterFacts
  <1>4. \/ /\ pc[n] \in {"identify", "receive", "raw", "collect_identify", "collect_packet",
                         "collect_raw", "hand_over"}
           /\ k = fd[n]
        \/ pc[n] \in {"call", "answer"} /\ k = call[n].conn
    BY <1>1 DEF Reads
  <1>5. CASE pc[n] = "call" /\ k = call[n].conn
    <2>1. k \in Conns /\ k.from = n /\ Dialling(s, t, k)
      BY <1>2, <1>5 DEF Thread
    <2>2. t[k] # "none" /\ IsCall(s, k)
      BY <2>1 DEF Dialling
    <2>3. Link(s, t, k)
      BY <2>1, <2>2 DEF Explains, Links
    <2>4. k.from # k.to
      BY <2>1, <2>3, CallEnds DEF Link
    <2>5. k.to = m /\ wire[k].down = <<>>
      BY <1>1, <2>1, <2>4 DEF Queue, In
    <2>6. k.kind = "deliver"
      <3>1. k.kind # "relay"
        BY <1>2, <2>1, <2>3, <2>5, CallEnds DEF Link
      <3>2. k.kind \notin {"ask", "store"}
        <4>1. k.kind = "ask" => k = AskOf(k.c, k.i)
          BY <2>3 DEF Link, Shape
        <4>2. k.kind = "store" => k = StoreOf(s, k.c, k.i)
          BY <2>3 DEF Link, Shape
        <4>3. AskOf(k.c, k.i).from = Index /\ StoreOf(s, k.c, k.i).from = Index
          BY ConnFacts DEF AskOf, StoreOf
        <4> QED BY <1>2, <2>1, <4>1, <4>2, <4>3
      <3> QED BY <2>2, <3>1, <3>2 DEF IsCall
    <2>7. t[k] \in {"queued", "identify", "said", "raw"}
      <3>1. t[k] \in {"queued", "identify", "hello", "said", "packet", "ok", "raw", "done"}
        BY <2>1, <2>6 DEF Dialling
      <3>2. t[k] \notin {"hello", "ok", "done"}
        BY <2>2, <2>3, <2>5 DEF Link, CallTalk, Has
      <3>3. t[k] # "packet"
        BY <2>3, <2>6 DEF Link, Shape
      <3> QED BY <3>1, <3>2, <3>3
    <2> QED BY <1>5, <2>1, <2>2, <2>5, <2>6, <2>7 DEF Undelivered
  <1>6. CASE pc[n] = "answer" /\ k = call[n].conn
    <2>1. Serves(t, n, {"answer"})
      BY <1>2, <1>6 DEF Thread
    <2>2. fd[n] \in Conns /\ fd[n].to = n /\ t[fd[n]] = "answer" /\ Link(s, t, fd[n])
      BY <1>2, <2>1, Served
    <2>3. fd[n].kind = "client"
      BY <2>2, ConnType DEF Link, Shape, Kinds, ReadRelayStages, WriteRelayStages, CallStages
    <2>4. k = RelayOf(s, fd[n].c)
      BY <1>6, <2>2, <2>3 DEF Link, LineTalk
    <2>5. k.to = Index
      BY <2>4, ConnFacts DEF RelayOf
    <2> QED BY <1>1, <1>2, <2>5
  <1>7. CASE /\ pc[n] \in {"identify", "receive", "raw", "collect_identify", "collect_packet",
                           "collect_raw", "hand_over"}
             /\ k = fd[n]
    <2>1. Serves(t, n, {"identify", "hello", "said", "receive", "lost", "ok", "raw", "open", "hand_over"})
      BY <1>2, <1>7 DEF Thread, Serves
    <2>2. k \in Conns /\ k.to = n /\ t[k] # "none" /\ Link(s, t, k) /\ Queue(k, n) = wire[k].up
      BY <1>2, <1>7, <2>1, Served
    <2>3. k.from = m /\ wire[k].up = <<>>
      BY <1>1, <2>2
    <2>4. k.kind = "deliver"
      <3>1. k.kind \notin {"client", "relay"}
        BY <1>2, <1>3, <2>2, <2>3, CallEnds DEF Link
      <3>2. k.kind \notin {"ask", "store"}
        <4>1. k.kind = "ask" => k = AskOf(k.c, k.i)
          BY <2>2 DEF Link, Shape
        <4>2. k.kind = "store" => k = StoreOf(s, k.c, k.i)
          BY <2>2 DEF Link, Shape
        <4>3. AskOf(k.c, k.i).from = Index /\ StoreOf(s, k.c, k.i).from = Index
          BY ConnFacts DEF AskOf, StoreOf
        <4> QED BY <1>2, <2>3, <4>1, <4>2, <4>3
      <3> QED BY <2>2, <3>1, <3>2, ConnType DEF Kinds
    <2>5. pc[n] \in Collecting
      <3>1. pc[n] \notin {"identify", "receive", "raw"}
        BY <1>2, <1>7, <2>4 DEF Thread
      <3>2. pc[n] # "hand_over"
        <4>1. ASSUME pc[n] = "hand_over" PROVE FALSE
          <5>1. t[k] = "hand_over"
            BY <1>2, <1>7, <4>1 DEF Thread, Serves
          <5> QED BY <2>2, <2>4, <5>1 DEF Link, Shape, CallStages
        <4> QED BY <4>1
      <3> QED BY <1>7, <3>1, <3>2 DEF Collecting
    <2>6. t[k] \in {"hello", "ok"} /\ IsCall(s, k)
      <3>1. IsCall(s, k)
        BY <2>4 DEF IsCall
      <3>2. t[k] \in {"identify", "hello", "said", "ok", "raw"}
        BY <1>2, <1>7, <2>2, <2>4, <2>5 DEF Thread, Serves, Collecting, Link, Shape, CallStages
      <3>3. t[k] \notin {"identify", "said", "raw"}
        BY <2>2, <2>3, <3>1 DEF Link, CallTalk, Has
      <3> QED BY <3>1, <3>2, <3>3
    <2>7. Dialling(s, t, k) /\ wire[k].down = <<Ok>>
      BY <2>2, <2>4, <2>6 DEF Dialling, Link, CallTalk, Has
    <2>8. pc[m] = "call" /\ call[m].conn = k
      BY <2>2, <2>3, <2>7, Attached
    <2> QED BY <2>2, <2>3, <2>4, <2>5, <2>7, <2>8
  <1> QED BY <1>4, <1>5, <1>6, <1>7

\* Nodes in a circle would collect and be called at once; a delivering node waits only until its
\* reader accepts, and that is the reader's turn.
LEMMA CyclesExplained ==
    ASSUME NEW s \in Stories, NEW t \in [Conns -> Stage], Explains(s, t)
    PROVE  CyclesThroughIndex
  <1> SUFFICES ASSUME NEW S \in SUBSET (Node \ {Index}), CircularWait(S) PROVE FALSE
    BY DEF CyclesThroughIndex
  <1>1. \A n \in S : \E m \in S : WaitsFor(n, m)
    BY DEF CircularWait
  <1>2. PICK n \in S : TRUE
    BY DEF CircularWait
  <1>3. PICK m \in S : WaitsFor(n, m)
    BY <1>1, <1>2
  <1>4. PICK k \in Conns :
             /\ k.kind = "deliver" /\ t[k] # "none" /\ Reads(n) = k
             /\ \/ /\ pc[n] = "call" /\ k.from = n /\ k.to = m /\ t[k] \in Undelivered
                \/ /\ pc[n] \in Collecting /\ k.to = n /\ k.from = m /\ pc[m] = "call"
                   /\ call[m].conn = k /\ wire[k].down = <<Ok>>
    BY <1>2, <1>3, WaitsOnDelivery
  <1>5. PICK m2 \in S : WaitsFor(m, m2)
    BY <1>1, <1>3
  <1>6. PICK k2 \in Conns :
             /\ k2.kind = "deliver" /\ t[k2] # "none" /\ Reads(m) = k2
             /\ \/ /\ pc[m] = "call" /\ k2.from = m /\ k2.to = m2 /\ t[k2] \in Undelivered
                \/ /\ pc[m] \in Collecting /\ k2.to = m /\ k2.from = m2 /\ pc[m2] = "call"
                   /\ call[m2].conn = k2 /\ wire[k2].down = <<Ok>>
    BY <1>3, <1>5, WaitsOnDelivery
  <1>7. Link(s, t, k) /\ k.from # k.to /\ k.c \in Client
    BY <1>4, CallEnds, ConnType DEF Explains, Links, Link
  <1>8. CASE pc[n] \in Collecting /\ k.to = n /\ k.from = m /\ pc[m] = "call" /\ call[m].conn = k
             /\ wire[k].down = <<Ok>>
    <2>1. Reads(m) = k
      BY <1>8 DEF Reads
    <2>2. Queue(k, m) = <<Ok>>
      BY <1>7, <1>8 DEF Queue, In
    <2> QED BY <1>5, <2>1, <2>2 DEF WaitsFor
  <1>9. CASE pc[n] = "call" /\ k.from = n /\ k.to = m /\ t[k] \in Undelivered
    <2> DEFINE c == k.c
               l == LineOf(s, c)
    <2>1. c \in Client /\ k = DeliverOf(s, c, k.i) /\ k.i \in 1 .. Parts[s.want[c]] /\ s.home[c] # Index
      BY <1>4, <1>7 DEF Link, Shape
    <2>2. client[c] # "off" /\ s.home[c] = m
      <3>1. DeliverOf(s, c, k.i).to = s.home[c]
        BY ConnFacts DEF DeliverOf
      <3> QED BY <1>4, <1>9, <2>1, <3>1 DEF Explains, Links
    <2>3. Fetch(s, t, c, k.i) /\ Tally(s, t, c)
      BY <2>1, <2>2 DEF Explains, Request
    <2>4. t[l] \in {"answer", "collect"}
      BY <1>9, <2>1, <2>3 DEF Fetch
    <2>5. l \in Conns /\ l.to = m
      BY <2>1, <2>2, ConnsOf
    <2>6. pc[m] \in Collecting \cup {"answer"}
      <3>1. CASE t[l] = "collect"
        BY <2>2, <2>3, <3>1 DEF Tally
      <3>2. CASE t[l] = "answer"
        <4>1. Seat(t, l)
          BY <2>5, <3>2 DEF Explains, Links, Link
        <4> QED BY <2>5, <3>2, <4>1 DEF Seat
      <3> QED BY <2>4, <3>1, <3>2
    <2>7. pc[m] \in Collecting /\ k2.to = m /\ k2.from = m2 /\ pc[m2] = "call"
          /\ call[m2].conn = k2 /\ wire[k2].down = <<Ok>>
      BY <1>6, <2>6 DEF Collecting
    <2>8. PICK m3 \in S : WaitsFor(m2, m3)
      BY <1>1, <1>5
    <2>9. Reads(m2) = k2 /\ k2.from # k2.to
      BY <1>6, <2>7, CallEnds DEF Reads, Explains, Links, Link
    <2>10. Queue(k2, m2) = <<Ok>>
      BY <2>7, <2>9 DEF Queue, In
    <2> QED BY <2>8, <2>9, <2>10 DEF WaitsFor
  <1> QED BY <1>4, <1>8, <1>9

-----------------------------------------------------------------------------
(* A foreign packet *)

\* The node that takes it collects for a client whose request is pending; the packet
\* is about the request of another client, and that is pending too.
LEMMA ForeignIsOther ==
    ASSUME NEW s \in Stories, NEW t \in [Conns -> Stage], Explains(s, t), NEW n \in Node,
           pc[n] = "collect_packet", NEW k \in Conns, Foreign(s, t, n, k)
    PROVE  \E c, d \in Client : c # d /\ Pending(c) /\ Pending(d)
  <1>1. PICK c \in Client, l \in Conns : Collects(s, t, n, c, l)
    BY OnCollect DEF Collecting
  <1>2. /\ l = LineOf(s, c) /\ t[l] = "collect" /\ s.home[c] = n /\ n # Index
        /\ client[c] \in {"asked", "fetch"}
    BY <1>1 DEF Collects
  <1>3. Pending(c)
    BY <1>2 DEF Pending, Ended
  <1> DEFINE d == k.c
  <1>4. /\ d \in Client /\ k.to = n
        /\ \/ k.kind \in {"ask", "store"} /\ t[k] = "said"
           \/ k.kind = "client" /\ t[k] = "open" /\ client[d] \in {"creating", "sent", "asked"}
    BY ConnType DEF Foreign
  <1>5. /\ t[k] # "none" /\ client[d] # "off" /\ Link(s, t, k) /\ Bound(s, t, k) /\ Request(s, t, d)
        /\ Numbering(s, t)
    BY <1>4 DEF Explains, Links
  <1>6. CASE k.kind = "client" /\ t[k] = "open" /\ client[d] \in {"creating", "sent", "asked"}
    <2>1. k = LineOf(s, d)
      BY <1>5, <1>6, CallEnds DEF Link
    <2>2. d # c
      BY <1>2, <1>6, <2>1
    <2>3. t[Job(s, d)] # "stored"
      <3>1. Progress(s, t, d)
        BY <1>5 DEF Request
      <3>2. t[RelayOf(s, d)] = "none"
        BY <1>6, <2>1, <3>1 DEF Progress
      <3> QED BY <1>6, <2>1, <3>2 DEF Job
    <2>4. d \notin complete
      BY <1>5, <2>3 DEF Request
    <2>5. Pending(d)
      BY <1>6, <2>4 DEF Pending, Ended
    <2> QED BY <1>3, <1>4, <2>2, <2>5
  <1>7. CASE k.kind = "ask" /\ t[k] = "said"
    <2>1. k = AskOf(d, k.i) /\ k.i \in 1 .. Parts[s.want[d]] /\ k.i # s.home[d]
      BY <1>5, <1>7 DEF Link, Shape
    <2>2. k.to = k.i
      <3>1. AskOf(d, k.i).to = k.i
        BY ConnFacts DEF AskOf
      <3> QED BY <2>1, <3>1
    <2>3. d # c
      BY <1>2, <1>4, <2>1, <2>2
    <2>4. Granted(s, t, d)
      BY <1>5, <1>7 DEF Bound
    <2>5. client[d] \in {"asked", "fetch"}
      <3>1. LineOf(s, d) \in Conns /\ LineOf(s, d).kind = "client" /\ LineOf(s, d).c = d
        BY <1>4, ConnsOf
      <3>2. Progress(s, t, d) /\ Found(s, t, d)
        BY <1>5 DEF Request
      <3>3. t[LineOf(s, d)] # "none" => LineTalk(s, t, LineOf(s, d))
        BY <3>1 DEF Explains, Links, Link
      <3>4. CASE s.home[d] = Index
        <4>1. t[LineOf(s, d)] \in {"asking", "asked"}
          BY <2>4, <3>4 DEF Granted, Job
        <4> QED BY <3>1, <3>3, <4>1 DEF LineTalk, Promised, Is
      <3>5. CASE s.home[d] # Index
        <4>1. t[RelayOf(s, d)] \in {"asking", "asked"} /\ s.op[d] = "read"
          BY <2>4, <3>2, <3>5 DEF Granted, Job, Found
        <4>2. Fetch(s, t, d, k.i)
          BY <1>5, <2>1, <3>5 DEF Request
        <4>3. t[DeliverOf(s, d, k.i)] = "none"
          BY <1>7, <2>1, <4>2 DEF Fetch
        <4>4. t[LineOf(s, d)] \notin {"hand_over", "served"}
          BY <4>2, <4>3 DEF Fetch, Delivered
        <4>5. t[LineOf(s, d)] \in {"answer", "collect"}
          <5>1. t[LineOf(s, d)] # "none"
            BY <3>2 DEF Progress
          <5>2. t[LineOf(s, d)] \in LineStages
            BY <3>1, <5>1 DEF Explains, Links, Link, Shape
          <5>3. t[LineOf(s, d)] \notin {"queued", "identify", "open", "packet", "relay", "refused"}
            BY <3>2, <3>5, <4>1 DEF Progress
          <5>4. t[LineOf(s, d)] \notin {"raw", "passed", "fanout", "stored", "asking", "asked"}
            <6>1. LineOf(s, d).to = s.home[d] /\ Doing(s, d)
              BY <1>4, <1>5, ConnsOf DEF Request
            <6>2. LineTalk(s, t, LineOf(s, d))
              BY <3>3, <5>1
            <6>3. t[LineOf(s, d)] \notin {"fanout", "stored", "asking", "asked"}
              BY <3>1, <3>5, <6>1, <6>2 DEF LineTalk
            <6>4. t[LineOf(s, d)] \notin {"raw", "passed"}
              BY <3>1, <4>1, <6>1, <6>2 DEF LineTalk, Taken, Is, Doing
            <6> QED BY <6>3, <6>4
          <5> QED BY <4>4, <5>2, <5>3, <5>4 DEF LineStages
        <4> QED BY <3>1, <3>3, <4>5 DEF LineTalk, Promised, Is
      <3> QED BY <3>4, <3>5
    <2>6. Pending(d)
      BY <2>5 DEF Pending, Ended
    <2> QED BY <1>3, <1>4, <2>3, <2>6
  <1>8. CASE k.kind = "store" /\ t[k] = "said"
    <2>1. k = StoreOf(s, d, k.i) /\ k.i \in 1 .. Copies(s.want[d]) /\ k.to # Index
      BY <1>5, <1>8 DEF Link, Shape
    <2>2. Copy(s.want[d], k.i).node_id # Index
      BY <1>4, <2>1, StoreConn
    <2>3. Numbered(s, t, d)
      BY <1>5, <1>8 DEF Bound
    <2>4. client[d] = "sent"
      BY <1>4, <1>5, <2>3, NumberFacts
    <2>5. t[Job(s, d)] # "stored"
      <3>1. HandedOut(s, t, d)
        BY <1>5 DEF Request
      <3> QED BY <1>8, <2>1, <2>2, <3>1 DEF HandedOut
    <2>6. d \notin complete
      BY <1>5, <2>5 DEF Request
    <2>7. Pending(d) /\ d # c
      BY <1>2, <2>4, <2>6 DEF Pending, Ended
    <2> QED BY <1>3, <1>4, <2>7
  <1> QED BY <1>4, <1>6, <1>7, <1>8

-----------------------------------------------------------------------------
(* Steps that move no connection *)

\* Nothing moves on the wires, and no thread either, but for one that drops a client or goes back
\* to its collection.
LEMMA Unmoved ==
    ASSUME NEW s \in Stories, NEW t \in [Conns -> Stage], Explains(s, t), Typed',
           UNCHANGED <<wire, backlog, fd, packet, ms, call, todo, fs, files, complete, client, at, got>>,
           \A m \in Node : \/ pc'[m] = pc[m]
                           \/ pc[m] = "collect_packet" /\ pc'[m] = "collect" /\ t[fd[m]] = "open",
           \A m \in Node : client_fd'[m] \in {client_fd[m], NoConn}
    PROVE  Explains(s, t)'
  <1>1. ASSUME NEW k \in Conns, t[k] # "none"
        PROVE  client'[k.c] # "off" /\ Link(s, t, k)' /\ Bound(s, t, k)'
    <2>1. client[k.c] # "off" /\ Link(s, t, k) /\ Bound(s, t, k) /\ k.to \in Node
      BY <1>1, Attached, ConnType
    <2>2. t[k] \in Seated => pc'[k.to] = pc[k.to]
      <3>1. "open" \notin Seated
        BY DEF Seated
      <3>2. t[k] \in Seated => t[fd[k.to]] # "open"
        BY <3>1, Attached
      <3> QED BY <2>1, <3>2
    <2>3. Dialling(s, t, k) => pc'[k.from] = pc[k.from]
      <3> SUFFICES ASSUME Dialling(s, t, k) PROVE pc'[k.from] = pc[k.from]
        OBVIOUS
      <3>1. k.from \in Node
        BY <2>1, CallEnds DEF Dialling, Link
      <3>2. pc[k.from] = "call"
        BY Attached
      <3> QED BY <3>1, <3>2
    <2>4. t[k] = "queued" => \E x \in DOMAIN backlog'[k.to] : backlog'[k.to][x] = k
      BY <2>1 DEF Link, Seat
    <2>5. Forwarded(s, k.c) => Forwarded(s, k.c)'
      BY DEF Forwarded
    <2>6. Link(s, t, k)'
      BY <2>1, <2>2, <2>3, <2>4, <2>5, LinkFrame
    <2>7. Bound(s, t, k)'
      BY <2>1 DEF Bound, Granted, Numbered
    <2> QED BY <2>1, <2>6, <2>7
  <1>2. Links(s, t)'
    BY <1>1 DEF Links
  <1>3. Queues(t)'
    BY DEF Explains, Queues
  <1>4. ASSUME NEW m \in Node PROVE Thread(s, t, m)'
    <2>1. Thread(s, t, m) /\ client_fd'[m] \in {client_fd[m], NoConn}
      BY DEF Explains
    <2>2. CASE pc'[m] = pc[m]
      BY <2>1, <2>2 DEF Thread, Serves
    <2>3. CASE pc[m] = "collect_packet" /\ pc'[m] = "collect"
      BY <2>1, <2>3 DEF Thread, Collecting, Position
    <2> QED BY <2>2, <2>3
  <1>5. ASSUME NEW c \in Client PROVE Request(s, t, c)'
    <2>1. Request(s, t, c)
      BY DEF Explains
    <2>2. Progress(s, t, c) => Progress(s, t, c)'
      BY DEF Progress
    <2>3. /\ Answers(s, t, c) => Answers(s, t, c)'
          /\ Doing(s, c) => Doing(s, c)'
      BY DEF Answers, Doing
    <2>4. Tally(s, t, c) => Tally(s, t, c)'
      <3>1. s.home[c] \in Node
        BY StoryType
      <3>2. pc[s.home[c]] \in Collecting => pc'[s.home[c]] \in Collecting
        BY <3>1 DEF Collecting
      <3> QED BY <3>2 DEF Tally, Arrived
    <2>5. Found(s, t, c) => Found(s, t, c)'
      BY DEF Found, Granted
    <2>6. /\ HandedOut(s, t, c) => HandedOut(s, t, c)'
          /\ \A i : Fetch(s, t, c, i) => Fetch(s, t, c, i)'
      BY DEF HandedOut, Fetch
    <2> QED BY <2>1, <2>2, <2>3, <2>4, <2>5, <2>6 DEF Request
  <1>6. \A p \in {"ask", "fanout"} : Working(p)' => Working(p) /\ pc'[Index] = pc[Index]
    <2>1. Index \in Node
      BY ParameterFacts
    <2>2. pc'[Index] = pc[Index] \/ pc'[Index] = "collect"
      BY <2>1
    <2> QED BY <2>2 DEF Working
  <1>7. Inquiry(s, t)'
    <2>1. Inquiry(s, t)
      BY DEF Explains
    <2> QED BY <1>6, <2>1 DEF Inquiry, Serves
  <1>8. Handout(s, t)'
    <2>1. Handout(s, t)
      BY DEF Explains
    <2> QED BY <1>6, <2>1 DEF Handout, Serves
  <1>9. Numbering(s, t)'
    BY DEF Explains, Numbering, Numbered
  <1>10. Shelves(s, t)'
    <2>1. Steady(t, t)
      BY DEF Steady
    <2> QED BY <2>1, ShelvesKept
  <1>11. DOMAIN wire' = {k \in Conns : t[k] # "none"}
    BY DEF Explains
  <1> QED BY <1>2, <1>3, <1>4, <1>5, <1>7, <1>8, <1>9, <1>10, <1>11 DEF Explains

\* IDLE reads the end of a client's line, and forgets the client.
LEMMA ClientGoneStep ==
    ASSUME NEW s \in Stories, NEW t \in [Conns -> Stage], Explains(s, t), NEW n \in Node, ClientGone(n)
    PROVE  Explains(s, t)'
  <1>1. /\ client_fd' = [client_fd EXCEPT ![n] = NoConn]
        /\ UNCHANGED <<wire, backlog, pc, fd, packet, ms, call, todo, fs, files, complete>>
        /\ UNCHANGED <<client, at, got, overlap, merged, strayed>>
    BY DEF ClientGone, net, data, user
  <1>2. Typed'
    BY <1>1 DEF Explains, Typed
  <1>3. \A m \in Node : client_fd'[m] \in {client_fd[m], NoConn}
    BY <1>1 DEF Explains, Typed
  <1> QED BY <1>1, <1>2, <1>3, Unmoved

\* WAIT_REQUEST_FRAGMENTS reads the end of a newcomer's line, and waits for the next one.
LEMMA CollectGoneStep ==
    ASSUME NEW s \in Stories, NEW t \in [Conns -> Stage], Explains(s, t), NEW n \in Node, CollectGone(n)
    PROVE  Explains(s, t)'
  <1>1. /\ pc[n] = "collect_packet" /\ AtEnd(fd[n], n) /\ pc' = [pc EXCEPT ![n] = "collect"]
        /\ UNCHANGED <<wire, backlog, fd, client_fd, packet, ms, call, todo, fs, files, complete>>
        /\ UNCHANGED <<client, at, got, overlap, merged, strayed>>
    BY DEF CollectGone, At, Goto, net, data, user
  <1>2. Typed' /\ DOMAIN pc = Node
    BY <1>1 DEF Explains, Typed
  <1>3. t[fd[n]] = "open"
    <2>1. Serves(t, n, {"hello", "said", "open"})
      BY <1>1 DEF Explains, Thread
    <2>2. t[fd[n]] \in {"hello", "said", "open"} /\ Link(s, t, fd[n])
      BY <2>1, Served
    <2>3. fd[n].kind = "client"
      BY <1>1 DEF AtEnd
    <2> QED BY <2>2, <2>3 DEF Link, Shape, LineStages
  <1>4. \A m \in Node : \/ pc'[m] = pc[m]
                        \/ pc[m] = "collect_packet" /\ pc'[m] = "collect" /\ t[fd[m]] = "open"
    BY <1>1, <1>2, <1>3
  <1> QED BY <1>1, <1>2, <1>4, Unmoved

\* A client hangs up: the story goes on as before.
LEMMA CloseStep ==
    ASSUME NEW s \in Stories, NEW t \in [Conns -> Stage], Explains(s, t), NEW c \in Client, Close(c)
    PROVE  Explains(s, t)'
  <1>1. /\ UNCHANGED <<wire, backlog, pc, fd, client_fd, packet, ms, call, todo, fs, files, complete>>
        /\ UNCHANGED <<client, at, got, overlap, merged, strayed>>
    BY DEF Close, net, node, data
  <1>2. Typed'
    BY <1>1 DEF Explains, Typed
  <1> QED BY <1>1, <1>2, Unmoved

\* What a collecting node reads after DECLARE_FRAG are the bytes of that fragment.
LEMMA RawIsDeclared ==
    ASSUME NEW s \in Stories, NEW t \in [Conns -> Stage], Explains(s, t), NEW n \in Node, pc[n] = "collect_raw"
    PROVE  Got(n, "DECLARE_FRAG")
  <1> DEFINE k == fd[n]
  <1>1. Serves(t, n, {"ok", "raw"}) /\ k.kind = "deliver"
    BY DEF Explains, Thread
  <1>2. k.to = n /\ t[k] \in {"ok", "raw"} /\ Link(s, t, k)
    BY <1>1, Served
  <1>3. packet[n] = <<First(s, k)>> /\ k.i # s.home[k.c]
    BY <1>1, <1>2 DEF Link, CallTalk, IsCall, Shape
  <1>4. First(s, k).type = "DECLARE_FRAG"
    BY <1>1, <1>3, PacketFacts DEF First
  <1>5. Head(packet[n]) = First(s, k)
    BY <1>3, Reading1
  <1> QED BY <1>4, <1>5 DEF Got

-----------------------------------------------------------------------------
(* The first state *)

\* The shelves that the known file fills: a node has none, one or two of its copies.
LEMMA ShelfOfKnown ==
    ASSUME NEW s \in Stories, NEW t, s.owner[1] = 0, files = <<Known>>, NEW m \in Node,
           fs[m][1] = StoredOn(m, Known)
    PROVE  Slots(s, t, m, 1)
  <1> DEFINE T == Table[Known]
             C == Copies(Known)
             mine == {q \in DOMAIN T : T[q].node_id = m}
             first == Least(mine)
             slot(q) == [id |-> T[q].fragment, bytes |-> <<<<0, T[q].fragment>>>>]
             back(q) == C + 1 - q
  <1>1. Known \in Name /\ files[1] = Known
    BY ParameterFacts
  <1>2. DOMAIN T = 1 .. C /\ C \in Nat
    BY <1>1, TableFacts, PartsFacts
  <1>3. \A q \in 1 .. C : back(q) \in 1 .. C /\ Copy(Known, back(q)) = T[q] /\ back(back(q)) = q
    BY <1>2 DEF Copy
  <1>4. \A q \in 1 .. C : slot(q) = Entry(s, 1, back(q))
    BY <1>1, <1>3 DEF Entry
  <1>5. On(s, t, m, 1) = {j \in 1 .. C : T[back(j)].node_id = m}
    BY <1>1 DEF On, Placed, Copy
  <1>6. \A j \in 1 .. C : j \in On(s, t, m, 1) <=> back(j) \in mine
    BY <1>2, <1>3, <1>5
  <1>7. On(s, t, m, 1) \subseteq 1 .. C /\ mine \subseteq 1 .. C /\ mine \in SUBSET Nat
    BY <1>2, <1>5
  <1>8. StoredOn(m, Known) = CASE mine = {} -> <<>>
                               [] mine = {first} -> <<slot(first)>>
                               [] mine \notin {{}, {first}} -> <<slot(first), slot(Least(mine \ {first}))>>
    BY DEF StoredOn
  <1>9. \A a, b, d \in mine : a = b \/ b = d \/ a = d
    <2> SUFFICES ASSUME NEW a \in mine, NEW b \in mine, NEW d \in mine PROVE a = b \/ b = d \/ a = d
      OBVIOUS
    <2>1. /\ a \in 1 .. C /\ b \in 1 .. C /\ d \in 1 .. C
          /\ T[a].node_id = m /\ T[b].node_id = m /\ T[d].node_id = m
      BY <1>2
    <2>2. back(a) = back(b) \/ back(b) = back(d) \/ back(a) = back(d)
      BY <1>1, <1>3, <2>1, CopyFacts
    <2> QED BY <1>2, <2>1, <2>2
  <1> HIDE DEF mine, first, slot, back, T, C
  <1>10. CASE mine = {}
    <2>1. On(s, t, m, 1) = {}
      BY <1>6, <1>7, <1>10
    <2>2. fs[m][1] = <<>>
      BY <1>8, <1>10
    <2> QED BY <2>1, <2>2 DEF Slots
  <1>11. CASE mine # {}
    <2>1. first \in mine
      BY <1>7, <1>11, LeastOf DEF first
    <2>2. first \in 1 .. C /\ back(first) \in On(s, t, m, 1)
      BY <1>3, <1>6, <1>7, <2>1
    <2>3. CASE mine = {first}
      <3>1. fs[m][1] = <<Entry(s, 1, back(first))>>
        BY <1>4, <1>8, <1>11, <2>2, <2>3
      <3>2. On(s, t, m, 1) = {back(first)}
        <4>1. ASSUME NEW j \in On(s, t, m, 1) PROVE j = back(first)
          <5>1. j \in 1 .. C /\ back(j) = first
            BY <1>6, <1>7, <2>3, <4>1
          <5> QED BY <1>3, <5>1
        <4> QED BY <2>2, <4>1
      <3> QED BY <2>2, <3>1, <3>2 DEF Slots
    <2>4. CASE mine # {first}
      <3> DEFINE second == Least(mine \ {first})
      <3>1. second \in mine /\ second # first
        <4>1. mine \ {first} # {} /\ mine \ {first} \in SUBSET Nat
          BY <1>7, <2>1, <2>4
        <4>2. second \in mine \ {first}
          BY <4>1, LeastOf
        <4> QED BY <4>2
      <3> HIDE DEF second
      <3>2. second \in 1 .. C /\ back(second) \in On(s, t, m, 1) /\ back(second) # back(first)
        <4>1. second \in 1 .. C
          BY <1>7, <3>1
        <4>2. back(back(second)) = second /\ back(back(first)) = first
          BY <1>3, <2>2, <4>1
        <4> QED BY <1>3, <1>6, <3>1, <4>1, <4>2
      <3>3. fs[m][1] = <<Entry(s, 1, back(first)), Entry(s, 1, back(second))>>
        <4>1. fs[m][1] = <<slot(first), slot(second)>>
          BY <1>8, <1>11, <2>4 DEF second
        <4>2. slot(first) = Entry(s, 1, back(first)) /\ slot(second) = Entry(s, 1, back(second))
          BY <1>4, <2>2, <3>2
        <4> QED BY <4>1, <4>2
      <3>4. On(s, t, m, 1) = {back(first), back(second)}
        <4>1. ASSUME NEW j \in On(s, t, m, 1) PROVE j \in {back(first), back(second)}
          <5>1. j \in 1 .. C /\ back(j) \in mine
            BY <1>6, <1>7, <4>1
          <5>2. back(j) = first \/ back(j) = second
            BY <1>9, <2>1, <3>1, <5>1
          <5>3. back(back(j)) = j
            BY <1>3, <5>1
          <5> QED BY <5>2, <5>3
        <4> QED BY <2>2, <3>2, <4>1
      <3> QED BY <2>2, <3>2, <3>3, <3>4 DEF Slots
    <2> QED BY <2>3, <2>4
  <1> QED BY <1>10, <1>11

\* Nobody has come and the known file is on its shelves.
LEMMA InitExplained ==
    ASSUME Init
    PROVE  \E s \in Stories, t \in [Conns -> Stage] : Explains(s, t)
  <1>1. PICK s : s = [want |-> [c \in Client |-> Known], home |-> [c \in Client |-> Index],
                      op |-> [c \in Client |-> "read"], file |-> [c \in Client |-> 0],
                      owner |-> [id \in Nat |-> 0]]
    OBVIOUS
  <1>2. s \in Stories /\ s.owner[1] = 0
    BY <1>1, ParameterFacts DEF Stories
  <1> DEFINE t == [k \in Conns |-> "none"]
  <1>4. t \in [Conns -> Stage] /\ \A k \in Conns : t[k] = "none"
    BY DEF Stage
  <1> HIDE DEF t
  <1>5. Typed
    <2>1. ms \in [Node -> Machine]
      BY IdleFacts DEF Init
    <2>2. \A n \in Node : ms[n].found <= ms[n].count
      BY IdleFacts DEF Init
    <2>3. /\ DOMAIN pc = Node /\ DOMAIN fd = Node /\ DOMAIN client_fd = Node /\ DOMAIN packet = Node
          /\ DOMAIN call = Node /\ DOMAIN backlog = Node
          /\ DOMAIN client = Client /\ DOMAIN at = Client /\ DOMAIN got = Client
      BY DEF Init
    <2>4. DOMAIN fs = Node /\ \A n \in Node : DOMAIN fs[n] = FileId
      BY DEF Init
    <2>5. complete \subseteq Client /\ overlap \subseteq Client /\ merged \in BOOLEAN /\ strayed \in BOOLEAN
      BY DEF Init
    <2>6. todo = <<>>
      BY DEF Init
    <2>7. todo \in Seq(Pointer)
      BY <2>6
    <2> QED BY <2>1, <2>2, <2>3, <2>4, <2>5, <2>7 DEF Typed
  <1>6. DOMAIN wire = {k \in Conns : t[k] # "none"}
    BY <1>4 DEF Init
  <1>7. Links(s, t)
    BY <1>4 DEF Links
  <1>8. Queues(t)
    BY DEF Init, Queues
  <1>9. ASSUME NEW n \in Node PROVE Thread(s, t, n)
    <2>1. pc[n] = "idle" /\ fd[n] = NoConn /\ client_fd[n] = NoConn /\ call[n].conn = NoConn
      BY DEF Init, NoCall
    <2> QED BY <2>1 DEF Thread, Position, Collecting
  <1>10. \A c \in Client : Request(s, t, c)
    BY DEF Init, Request
  <1>11. Inquiry(s, t) /\ Handout(s, t)
    <2>1. pc[Index] = "idle"
      BY ParameterFacts DEF Init
    <2>2. ~Working("ask") /\ ~Working("fanout")
      BY <2>1 DEF Working
    <2> QED BY <2>2 DEF Inquiry, Handout
  <1>12. files = <<Known>> /\ Known \in Name
    BY ParameterFacts DEF Init
  <1>13. Numbering(s, t)
    <2>1. files \in Seq(Name) /\ Len(files) = 1 /\ files[1] = Known
      BY <1>12
    <2>2. \A c \in Client : client[c] = "off"
      BY DEF Init
    <2>3. 2 .. Len(files) = {}
      BY <2>1
    <2> QED BY <1>2, <2>1, <2>2, <2>3 DEF Numbering
  <1>14. Shelves(s, t)
    <2> SUFFICES ASSUME NEW m \in Node, NEW id \in FileId
                 PROVE  IF id \in DOMAIN files THEN Slots(s, t, m, id) ELSE fs[m][id] = <<>>
      BY DEF Shelves
    <2>1. fs[m][id] = IF id = 1 THEN StoredOn(m, Known) ELSE <<>>
      BY DEF Init
    <2>2. id \in DOMAIN files <=> id = 1
      BY <1>12
    <2>3. CASE id = 1
      BY <1>2, <1>12, <2>1, <2>2, <2>3, ShelfOfKnown
    <2>4. CASE id # 1
      BY <2>1, <2>2, <2>4
    <2> QED BY <2>3, <2>4
  <1>15. Explains(s, t)
    BY <1>5, <1>6, <1>7, <1>8, <1>9, <1>10, <1>11, <1>13, <1>14 DEF Explains
  <1> QED BY <1>2, <1>4, <1>15

-----------------------------------------------------------------------------
(* The invariant *)

\* A creation is complete only when its client has come.
Early == \A c \in complete : client[c] # "off"

Explicable == \E s \in Stories, t \in [Conns -> Stage] : Explains(s, t)

\* Only contents that are too long, or the end of the client's line, make a file of a part.
Tearing == \A p \in torn : TooLong(p[2], 0) \/ p[1] \in closed

\* Two requests that are pending at once have overlapped.
Paired == \A c, d \in Client : c # d /\ Pending(c) /\ Pending(d) => overlap # {}

\* Until a node takes a foreign packet for a fragment, there is a story that explains the state.
Inv == IF foreign = {} THEN ~strayed /\ Explicable /\ Early /\ AtPrompt /\ Tearing /\ Paired
       ELSE overlap # {}

\* The handlers, one by one.
LEMMA HandleStep ==
    ASSUME Explicable, NEW n \in Node, Handle(n)
    PROVE  Explicable'
  <1>1. PICK s \in Stories, t \in [Conns -> Stage] : Explains(s, t)
    BY DEF Explicable
  <1>2. At(n, "packet")
    BY DEF Handle
  <1>3. CASE HandleCreateFile(n)
    BY <1>1, <1>2, <1>3, HandleCreateFileStep DEF Explicable
  <1>4. CASE HandleStoreFragment(n)
    BY <1>1, <1>2, <1>4, HandleStoreFragmentStep DEF Explicable
  <1>5. CASE HandleRequestFileAtIndex(n)
    BY <1>1, <1>2, <1>5, HandleRequestFileAtIndexStep DEF Explicable
  <1>6. CASE HandleRequestFile(n)
    BY <1>1, <1>2, <1>6, HandleRequestFileStep DEF Explicable
  <1>7. CASE HandleRequestFrag(n)
    BY <1>1, <1>2, <1>7, HandleRequestFragStep DEF Explicable
  <1>8. CASE HandleUnknown(n)
    BY <1>1, <1>2, <1>8, HandleUnknownStep DEF Explicable
  <1> QED BY <1>3, <1>4, <1>5, <1>6, <1>7, <1>8 DEF Handle

\* Both kinds of calls.
LEMMA AnsweredAnyStep ==
    ASSUME Explicable, NEW n \in Node, Answered(n)
    PROVE  Explicable'
  <1>1. PICK s \in Stories, t \in [Conns -> Stage] : Explains(s, t)
    BY DEF Explicable
  <1>2. pc[n] = "call"
    BY DEF Answered, At
  <1>3. Queue(call[n].conn, n) # <<>>
    <2>1. PICK j \in 1 .. Len(Queue(call[n].conn, n)) : TRUE
      BY DEF Answered
    <2> QED BY <2>1, TakesNone
  <1>4. PICK k \in Conns : Called(s, t, n, k)
    BY <1>1, <1>2, <1>3, OnCall
  <1>5. CASE k.kind = "relay"
    BY <1>1, <1>4, <1>5, AnsweredRelayStep DEF Explicable
  <1>6. CASE k.kind # "relay"
    BY <1>1, <1>4, <1>6, AnsweredStep DEF Explicable
  <1> QED BY <1>5, <1>6

\* The collecting node: either explained, or it takes a foreign packet.
LEMMA CollectStep ==
    ASSUME Explicable, Paired, ~strayed, NEW n \in Node, Collect(n)
    PROVE  (Explicable' /\ ~strayed' /\ foreign' = foreign) \/ (foreign' # {} /\ overlap # {})
  <1>1. PICK s \in Stories, t \in [Conns -> Stage] : Explains(s, t)
    BY DEF Explicable
  <1>2. CASE CollectPacket(n)
    <2>1. pc[n] = "collect_packet"
      BY <1>2 DEF CollectPacket, At
    <2>2. CASE foreign' # {} /\ \E k \in Conns : Foreign(s, t, n, k)
      <3>1. \E c, d \in Client : c # d /\ Pending(c) /\ Pending(d)
        BY <1>1, <2>1, <2>2, ForeignIsOther
      <3> QED BY <2>2, <3>1 DEF Paired
    <2>3. CASE (\E t2 \in [Conns -> Stage] : Explains(s, t2)') /\ ~strayed' /\ foreign' = foreign
      BY <2>3 DEF Explicable
    <2> QED BY <1>1, <1>2, <2>2, <2>3, CollectPacketStep
  <1>3. CASE CollectGone(n)
    <2>1. strayed' = strayed /\ foreign' = foreign
      BY <1>3 DEF CollectGone
    <2> QED BY <1>1, <1>3, <2>1, CollectGoneStep DEF Explicable
  <1>4. CASE CollectRaw(n)
    <2>1. strayed' = strayed /\ foreign' = foreign
      BY <1>4 DEF CollectRaw
    <2> QED BY <1>1, <1>4, <2>1, CollectRawStep DEF Explicable
  <1>5. CASE CollectEnd(n)
    <2>1. strayed' = strayed /\ foreign' = foreign
      BY <1>5 DEF CollectEnd
    <2> QED BY <1>1, <1>5, <2>1, CollectEndStep DEF Explicable
  <1>6. CASE HandOver(n)
    <2>1. strayed' = strayed /\ foreign' = foreign
      BY <1>6 DEF HandOver
    <2> QED BY <1>1, <1>6, <2>1, HandOverStep DEF Explicable
  <1>7. CASE CollectForeign(n) \/ CollectForeignEnd(n)
    <2>1. pc[n] = "collect_raw" /\ ~Got(n, "DECLARE_FRAG")
      BY <1>7 DEF CollectForeign, CollectForeignEnd, At
    <2> QED BY <1>1, <2>1, RawIsDeclared
  <1> QED BY <1>2, <1>3, <1>4, <1>5, <1>6, <1>7 DEF Collect

\* Every step of a node is explained, or takes a foreign packet for a fragment.
LEMMA NodeStepInv ==
    ASSUME Explicable, AtPrompt, Paired, ~strayed, NEW n \in Node, NodeStep(n)
    PROVE  (Explicable' /\ ~strayed' /\ foreign' = foreign) \/ (foreign' # {} /\ overlap # {})
  <1>1. PICK s \in Stories, t \in [Conns -> Stage] : Explains(s, t)
    BY DEF Explicable
  <1>2. CASE Handle(n)
    <2>1. strayed' = strayed /\ foreign' = foreign
      BY <1>2 DEF Handle, HandleCreateFile, HandleStoreFragment, HandleRequestFileAtIndex, HandleRequestFile,
                  HandleRequestFrag, HandleUnknown
    <2> QED BY <1>2, <2>1, HandleStep
  <1>3. CASE Answered(n)
    <2>1. strayed' = strayed /\ foreign' = foreign
      BY <1>3 DEF Answered
    <2> QED BY <1>3, <2>1, AnsweredAnyStep
  <1>4. CASE PollClient(n)
    <2>1. strayed' = strayed /\ foreign' = foreign
      BY <1>4 DEF PollClient
    <2> QED BY <1>1, <1>4, <2>1, PollClientStep DEF Explicable
  <1>5. CASE ClientGone(n)
    <2>1. strayed' = strayed /\ foreign' = foreign
      BY <1>5 DEF ClientGone
    <2> QED BY <1>1, <1>5, <2>1, ClientGoneStep DEF Explicable
  <1>6. CASE Accept(n)
    <2>1. strayed' = strayed /\ foreign' = foreign
      BY <1>6 DEF Accept
    <2> QED BY <1>1, <1>6, <2>1, AcceptStep DEF Explicable
  <1>7. CASE Identify(n)
    <2>1. strayed' = strayed /\ foreign' = foreign
      BY <1>7 DEF Identify
    <2> QED BY <1>1, <1>7, <2>1, IdentifyStep DEF Explicable
  <1>8. CASE Receive(n)
    <2>1. strayed' = strayed /\ foreign' = foreign
      BY <1>8 DEF Receive
    <2> QED BY <1>1, <1>8, <2>1, ReceiveStep DEF Explicable
  <1>9. CASE WaitRaw(n)
    <2>1. strayed' = strayed /\ foreign' = foreign
      BY <1>9 DEF WaitRaw
    <2> QED BY <1>1, <1>9, <2>1, WaitRawStep DEF Explicable
  <1>10. CASE WaitRawEnd(n)
    <2>1. strayed' = strayed /\ foreign' = foreign
      BY <1>10, Zenon DEF WaitRawEnd
    <2> QED BY <1>1, <1>10, <2>1, WaitRawEndStep DEF Explicable
  <1>11. CASE Fanout(n)
    <2>1. strayed' = strayed /\ foreign' = foreign
      BY <1>11 DEF Fanout
    <2> QED BY <1>1, <1>11, <2>1, FanoutStep DEF Explicable
  <1>12. CASE FanoutEnd(n)
    <2>1. strayed' = strayed /\ foreign' = foreign
      BY <1>12 DEF FanoutEnd
    <2> QED BY <1>1, <1>12, <2>1, FanoutEndStep DEF Explicable
  <1>13. CASE RequestFragments(n)
    <2>1. strayed' = strayed /\ foreign' = foreign
      BY <1>13 DEF RequestFragments
    <2> QED BY <1>1, <1>13, <2>1, RequestFragmentsStep DEF Explicable
  <1>14. CASE RequestFragmentsEnd(n)
    <2>1. strayed' = strayed /\ foreign' = foreign
      BY <1>14 DEF RequestFragmentsEnd
    <2> QED BY <1>1, <1>14, <2>1, RequestFragmentsEndStep DEF Explicable
  <1>15. CASE Answer(n)
    <2>1. strayed' = strayed /\ foreign' = foreign
      BY <1>15 DEF Answer
    <2> QED BY <1>1, <1>15, <2>1, AnswerStep DEF Explicable
  <1>16. CASE Collect(n)
    BY <1>16, CollectStep
  <1> QED BY <1>2, <1>3, <1>4, <1>5, <1>6, <1>7, <1>8, <1>9, <1>10, <1>11, <1>12, <1>13, <1>14, <1>15, <1>16
          DEF NodeStep

\* Every step of a client is explained.
LEMMA ClientStepInv ==
    ASSUME Explicable, NEW c \in Client,
           \/ ClientStep(c) \/ Close(c)
           \/ \E f \in Name : SendFile(c, f) \/ AskFile(c, f)
           \/ c \notin complete /\ \E n \in Node : Connect(c, n)
    PROVE  Explicable'
  <1>1. PICK s \in Stories, t \in [Conns -> Stage] : Explains(s, t)
    BY DEF Explicable
  <1>2. CASE Welcome(c)
    BY <1>1, <1>2, WelcomeStep DEF Explicable
  <1>3. CASE SendContents(c)
    BY <1>1, <1>3, SendContentsStep DEF Explicable
  <1>4. CASE ReadResponse(c)
    BY <1>1, <1>4, ReadResponseStep DEF Explicable
  <1>5. CASE ReadContents(c)
    BY <1>1, <1>5, ReadContentsStep DEF Explicable
  <1>6. ASSUME NEW f \in Name, SendFile(c, f) PROVE Explicable'
    BY <1>1, <1>6, SendFileStep DEF Explicable
  <1>7. ASSUME NEW f \in Name, AskFile(c, f) PROVE Explicable'
    BY <1>1, <1>7, AskFileStep DEF Explicable
  <1>8. ASSUME NEW n \in Node, c \notin complete, Connect(c, n) PROVE Explicable'
    BY <1>1, <1>8, ConnectStep DEF Explicable
  <1>9. CASE Close(c)
    BY <1>1, <1>9, CloseStep DEF Explicable
  <1> QED BY <1>2, <1>3, <1>4, <1>5, <1>6, <1>7, <1>8, <1>9 DEF ClientStep

-----------------------------------------------------------------------------
(* Clients, and what they leave behind *)

\* A node's step is no client's, and only the end of a fan-out completes a creation.
LEMMA NodeKeeps ==
    ASSUME NEW n \in Node, NodeStep(n)
    PROVE  /\ UNCHANGED <<client, at, got, overlap, closed>> /\ foreign \subseteq foreign'
           /\ complete' = complete \/ FanoutEnd(n)
  <1>1. CASE Handle(n)
    BY <1>1 DEF Handle, HandleCreateFile, HandleStoreFragment, HandleRequestFileAtIndex, HandleRequestFile,
                HandleRequestFrag, HandleUnknown, data, user
  <1>2. CASE Answered(n) \/ PollClient(n) \/ ClientGone(n) \/ Accept(n) \/ Identify(n) \/ Receive(n)
    BY <1>2 DEF Answered, PollClient, ClientGone, Accept, Identify, Receive, data, user
  <1>3. CASE WaitRaw(n) \/ Fanout(n) \/ FanoutEnd(n)
    BY <1>3 DEF WaitRaw, Fanout, FanoutEnd, user
  <1>4. CASE WaitRawEnd(n)
    BY <1>4, Zenon DEF WaitRawEnd, user
  <1>5. CASE RequestFragments(n) \/ RequestFragmentsEnd(n) \/ Answer(n)
    BY <1>5 DEF RequestFragments, RequestFragmentsEnd, Answer, data, user
  <1>6. CASE CollectPacket(n)
    <2>1. UNCHANGED <<data, user>>
      BY <1>6, Zenon DEF CollectPacket
    <2>2. \E S : foreign' = foreign \cup S
      <3>1. foreign' = IF Stranger(n, fd[n], Queue(fd[n], n)[1]) THEN foreign \cup {ms[n].from.c} ELSE foreign
        BY <1>6, Zenon DEF CollectPacket
      <3>2. foreign = foreign \cup {}
        OBVIOUS
      <3> QED BY <3>1, <3>2
    <2> QED BY <2>1, <2>2 DEF data, user
  <1>7. CASE CollectGone(n) \/ CollectRaw(n) \/ CollectEnd(n) \/ HandOver(n)
    BY <1>7 DEF CollectGone, CollectRaw, CollectEnd, HandOver, data, user
  <1>8. CASE CollectForeign(n) \/ CollectForeignEnd(n)
    BY <1>8 DEF CollectForeign, CollectForeignEnd, data, user
  <1> QED BY <1>1, <1>2, <1>3, <1>4, <1>5, <1>6, <1>7, <1>8 DEF NodeStep, Collect

\* A turn of a client that is connected: its request is pending before.
LEMMA ClientTurns ==
    ASSUME NEW c \in Client, ClientStep(c) \/ \E f \in Name : SendFile(c, f) \/ AskFile(c, f)
    PROVE  /\ client[c] \in {"hello", "ready", "creating", "asked", "fetch"}
           /\ client[c] = "ready" => c \notin closed
           /\ \E v \in {"ready", "creating", "sent", "asked", "fetch", "refused", "done"} :
                client' = [client EXCEPT ![c] = v]
           /\ UNCHANGED <<complete, overlap, closed, torn, foreign, strayed>>
  <1>1. CASE Welcome(c)
    BY <1>1 DEF Welcome, Hears, data
  <1>2. CASE SendContents(c)
    BY <1>2 DEF SendContents, data
  <1>3. CASE ReadResponse(c)
    BY <1>3 DEF ReadResponse, Hears, data
  <1>4. CASE ReadContents(c)
    BY <1>4 DEF ReadContents, Hears, data
  <1>5. ASSUME NEW f \in Name, SendFile(c, f) \/ AskFile(c, f)
        PROVE  /\ client[c] = "ready" /\ c \notin closed
               /\ \E v \in {"creating", "asked"} : client' = [client EXCEPT ![c] = v]
               /\ UNCHANGED <<complete, overlap, closed, torn, foreign, strayed>>
    BY <1>5 DEF SendFile, AskFile, data
  <1> QED BY <1>1, <1>2, <1>3, <1>4, <1>5 DEF ClientStep

\* No client goes, and only the end of a fan-out completes a creation: of a client that is there.
LEMMA EarlyStep ==
    ASSUME Explicable, Early, Next
    PROVE  Early'
  <1>1. PICK s \in Stories, t \in [Conns -> Stage] : Explains(s, t)
    BY DEF Explicable
  <1>2. DOMAIN client = Client /\ complete \subseteq Client
    BY <1>1 DEF Explains, Typed
  <1>3. ASSUME complete' = complete, client' = client PROVE Early'
    BY <1>2, <1>3 DEF Early
  <1>4. ASSUME NEW n \in Node, FanoutEnd(n) PROVE Early'
    <2>1. pc[n] = "fanout" /\ complete' = complete \cup {fd[n].c} /\ client' = client
      BY <1>4 DEF FanoutEnd, At, user
    <2>2. n = Index
      BY <1>1, <2>1 DEF Explains, Thread
    <2>3. PICK k \in Conns, c \in Client : Hands(s, t, k, c)
      BY <1>1, <2>1, <2>2, OnFanout
    <2>4. fd[n].c = c /\ client[c] # "off"
      BY <2>2, <2>3 DEF Hands
    <2> QED BY <2>1, <2>4 DEF Early
  <1>5. ASSUME NEW n \in Node, NodeStep(n) PROVE Early'
    BY <1>3, <1>4, <1>5, NodeKeeps
  <1>6. ASSUME NEW c \in Client, NEW v, complete' = complete, client' = [client EXCEPT ![c] = v], v # "off" PROVE Early'
    <2>1. \A d \in complete : client'[d] # "off"
      BY <1>2, <1>6 DEF Early
    <2> QED BY <1>6, <2>1 DEF Early
  <1>7. ASSUME NEW c \in Client, ClientStep(c) \/ \E f \in Name : SendFile(c, f) \/ AskFile(c, f) PROVE Early'
    <2>1. PICK v : v # "off" /\ client' = [client EXCEPT ![c] = v] /\ complete' = complete
      BY <1>7, ClientTurns
    <2> QED BY <1>6, <2>1
  <1>8. ASSUME NEW c \in Client, NEW n \in Node, Connect(c, n) PROVE Early'
    <2>1. complete' = complete /\ client' = [client EXCEPT ![c] = "hello"]
      BY <1>8 DEF Connect, data
    <2> QED BY <1>6, <2>1
  <1>9. ASSUME NEW c \in Client, Close(c) PROVE Early'
    BY <1>3, <1>9 DEF Close, data
  <1> QED BY <1>5, <1>7, <1>8, <1>9 DEF Next

\* Who has hung up does nothing more.
LEMMA AtPromptStep ==
    ASSUME Explicable, AtPrompt, Next
    PROVE  AtPrompt'
  <1> DEFINE P == {"ready", "sent", "refused", "done"}
  <1>1. DOMAIN client = Client
    BY DEF Explicable, Explains, Typed
  <1>2. ASSUME NEW n \in Node, NodeStep(n) PROVE AtPrompt'
    BY <1>2, NodeKeeps DEF AtPrompt
  <1>3. ASSUME NEW c \in Client, c \notin closed, closed' = closed, NEW v, client' = [client EXCEPT ![c] = v]
        PROVE  AtPrompt'
    BY <1>1, <1>3 DEF AtPrompt
  <1>4. ASSUME NEW c \in Client, ClientStep(c) \/ \E f \in Name : SendFile(c, f) \/ AskFile(c, f) PROVE AtPrompt'
    <2>1. c \notin closed
      BY <1>4, ClientTurns DEF AtPrompt
    <2> QED BY <1>3, <1>4, <2>1, ClientTurns
  <1>5. ASSUME NEW c \in Client, NEW n \in Node, Connect(c, n) PROVE AtPrompt'
    <2>1. client[c] = "off" /\ closed' = closed /\ client' = [client EXCEPT ![c] = "hello"]
      BY <1>5 DEF Connect
    <2>2. c \notin closed
      BY <2>1 DEF AtPrompt
    <2> QED BY <1>3, <2>1, <2>2
  <1>6. ASSUME NEW c \in Client, Close(c) PROVE AtPrompt'
    BY <1>6 DEF Close, AtPrompt
  <1> QED BY <1>2, <1>4, <1>5, <1>6 DEF Next

\* Two requests are pending at once only when the second client came while the first one's was.
LEMMA PairedStep ==
    ASSUME Explicable, Paired, Next
    PROVE  Paired'
  <1>1. DOMAIN client = Client
    BY DEF Explicable, Explains, Typed
  <1>2. ASSUME overlap' = overlap, \A c \in Client : Pending(c)' => Pending(c) PROVE Paired'
    BY <1>2 DEF Paired
  <1>3. ASSUME NEW n \in Node, NodeStep(n) PROVE Paired'
    <2>1. client' = client /\ overlap' = overlap /\ complete \subseteq complete'
      BY <1>3, NodeKeeps DEF FanoutEnd
    <2>2. \A c \in Client : Pending(c)' => Pending(c)
      BY <2>1 DEF Pending, Ended
    <2> QED BY <1>2, <2>1, <2>2
  <1>4. ASSUME NEW c \in Client, ClientStep(c) \/ \E f \in Name : SendFile(c, f) \/ AskFile(c, f) PROVE Paired'
    <2>1. /\ client[c] \in {"hello", "ready", "creating", "asked", "fetch"}
          /\ overlap' = overlap /\ complete' = complete
      BY <1>4, ClientTurns
    <2>2. \A d \in Client \ {c} : client'[d] = client[d]
      BY <1>1, <1>4, ClientTurns
    <2>3. \A d \in Client : Pending(d)' => Pending(d)
      BY <2>1, <2>2 DEF Pending, Ended
    <2> QED BY <1>2, <2>1, <2>3
  <1>5. ASSUME NEW c \in Client, NEW n \in Node, Connect(c, n) PROVE Paired'
    <2> DEFINE busy == {d \in Client : Pending(d)}
    <2>1. /\ overlap' = IF busy = {} THEN overlap ELSE overlap \cup busy \cup {c}
          /\ client' = [client EXCEPT ![c] = "hello"] /\ complete' = complete
      BY <1>5 DEF Connect, data
    <2>2. CASE busy = {}
      <3>1. \A d \in Client \ {c} : client'[d] = client[d] /\ ~Pending(d)
        BY <1>1, <2>1, <2>2
      <3>2. \A d \in Client \ {c} : ~Pending(d)'
        BY <2>1, <3>1 DEF Pending, Ended
      <3> QED BY <3>2 DEF Paired
    <2>3. CASE busy # {}
      BY <2>1, <2>3 DEF Paired
    <2> QED BY <2>2, <2>3
  <1>6. ASSUME NEW c \in Client, Close(c) PROVE Paired'
    <2>1. client' = client /\ overlap' = overlap /\ complete' = complete
      BY <1>6 DEF Close, data
    <2>2. \A d \in Client : Pending(d)' => Pending(d)
      BY <2>1 DEF Pending, Ended
    <2> QED BY <1>2, <2>1, <2>2
  <1> QED BY <1>3, <1>4, <1>5, <1>6 DEF Next

\* A recv that ends within the contents behind a creation has returned too much for one recv.
LEMMA TornByLength ==
    ASSUME Tearing, NEW k, NEW n, NEW j, RecvCut(k, n, j), closed' = closed
    PROVE  Tearing'
  <1> DEFINE q == Queue(k, n)
  <1>1. /\ ~Fits(k, n, j + 1)
        /\ \/ torn' = torn
           \/ torn' = torn \cup {<<k.c, q[1].name>>} /\ j = 1 /\ q[2].type = "RAW"
    BY Zenon DEF RecvCut
  <1>2. CASE torn' = torn
    BY <1>2 DEF Tearing
  <1>3. CASE torn' = torn \cup {<<k.c, q[1].name>>} /\ j = 1 /\ q[2].type = "RAW"
    <2>1. PICK x \in 1 .. 2 :
            /\ q[x].type = "CREATE_FILE"
            /\ ~(IF <<k.c, q[x].name>> \in torn THEN 2 = 1 ELSE x = 2 \/ ~TooLong(q[x].name, x - 1))
      <3>1. ~Fits(k, n, 2)
        BY <1>1, <1>3
      <3> QED BY <3>1 DEF Fits
    <2>2. x = 1
      BY <1>3, <2>1
    <2>3. <<k.c, q[1].name>> \in torn \/ TooLong(q[1].name, 0)
      BY <2>1, <2>2
    <2> HIDE DEF q
    <2> DEFINE p == <<k.c, q[1].name>>
    <2>4. p[1] = k.c /\ p[2] = q[1].name
      OBVIOUS
    <2>5. TooLong(p[2], 0) \/ p[1] \in closed
      BY <2>3, <2>4 DEF Tearing
    <2> HIDE DEF p
    <2>6. \A e \in torn \cup {p} : TooLong(e[2], 0) \/ e[1] \in closed
      BY <2>5 DEF Tearing
    <2> QED BY <1>3, <2>6 DEF Tearing, p
  <1> QED BY <1>1, <1>2, <1>3

\* Or the client has hung up.
LEMMA TornByEnd ==
    ASSUME Tearing, NEW n \in Node, WaitRawEnd(n)
    PROVE  Tearing'
  <1>1. /\ fd[n].c \in closed /\ closed' = closed
        /\ torn' = torn \/ \E f : torn' = torn \cup {<<fd[n].c, f>>}
    BY Zenon DEF WaitRawEnd, AtEnd, user
  <1>2. CASE torn' = torn
    BY <1>1, <1>2 DEF Tearing
  <1>3. ASSUME NEW f, torn' = torn \cup {<<fd[n].c, f>>} PROVE Tearing'
    <2> DEFINE p == <<fd[n].c, f>>
    <2>1. p[1] \in closed
      BY <1>1
    <2> HIDE DEF p
    <2>2. \A e \in torn \cup {p} : TooLong(e[2], 0) \/ e[1] \in closed
      BY <2>1 DEF Tearing
    <2> QED BY <1>1, <1>3, <2>2 DEF Tearing, p
  <1> QED BY <1>1, <1>2, <1>3

LEMMA TearingStep ==
    ASSUME Tearing, Next
    PROVE  Tearing'
  <1>1. ASSUME torn' = torn, closed \subseteq closed' PROVE Tearing'
    BY <1>1 DEF Tearing
  <1>2. ASSUME closed' = closed, NEW k, NEW n, NEW j, Recv(k, n, j) \/ RecvCut(k, n, j) PROVE Tearing'
    <2>1. CASE Recv(k, n, j)
      BY <1>1, <1>2, <2>1, Zenon DEF Recv
    <2> QED BY <1>2, <2>1, TornByLength
  <1>3. ASSUME NEW n \in Node, NodeStep(n) PROVE Tearing'
    <2>1. closed' = closed
      BY <1>3, NodeKeeps
    <2>2. CASE Handle(n)
      BY <1>1, <2>1, <2>2 DEF Handle, HandleCreateFile, HandleStoreFragment, HandleRequestFileAtIndex,
                              HandleRequestFile, HandleRequestFrag, HandleUnknown
    <2>3. CASE Answered(n)
      BY <1>2, <2>1, <2>3, Zenon DEF Answered
    <2>4. CASE PollClient(n)
      BY <1>2, <2>1, <2>4, Zenon DEF PollClient
    <2>5. CASE ClientGone(n) \/ Accept(n)
      BY <1>1, <2>1, <2>5 DEF ClientGone, Accept
    <2>6. CASE Identify(n)
      BY <1>2, <2>1, <2>6, Zenon DEF Identify
    <2>7. CASE Receive(n)
      BY <1>2, <2>1, <2>7, Zenon DEF Receive
    <2>8. CASE WaitRaw(n)
      BY <1>2, <2>1, <2>8, Zenon DEF WaitRaw
    <2>9. CASE WaitRawEnd(n)
      BY <2>9, TornByEnd
    <2>10. CASE Fanout(n) \/ FanoutEnd(n) \/ RequestFragments(n) \/ RequestFragmentsEnd(n)
      BY <1>1, <2>1, <2>10 DEF Fanout, FanoutEnd, RequestFragments, RequestFragmentsEnd
    <2>11. CASE Answer(n)
      BY <1>2, <2>1, <2>11, Zenon DEF Answer
    <2>12. CASE CollectPacket(n)
      BY <1>2, <2>1, <2>12, Zenon DEF CollectPacket
    <2>13. CASE CollectGone(n) \/ CollectEnd(n) \/ CollectForeignEnd(n)
      BY <1>1, <2>1, <2>13 DEF CollectGone, CollectEnd, CollectForeignEnd
    <2>14. CASE CollectRaw(n)
      BY <1>2, <2>1, <2>14, Zenon DEF CollectRaw
    <2>15. CASE HandOver(n)
      BY <1>2, <2>1, <2>15, Zenon DEF HandOver
    <2>16. CASE CollectForeign(n)
      BY <1>2, <2>1, <2>16, Zenon DEF CollectForeign
    <2> QED BY <1>3, <2>2, <2>3, <2>4, <2>5, <2>6, <2>7, <2>8, <2>9, <2>10, <2>11, <2>12, <2>13, <2>14,
               <2>15, <2>16 DEF NodeStep, Collect
  <1>4. ASSUME NEW c \in Client, ClientStep(c) \/ \E f \in Name : SendFile(c, f) \/ AskFile(c, f) PROVE Tearing'
    BY <1>1, <1>4, ClientTurns
  <1>5. ASSUME NEW c \in Client, NEW n \in Node, Connect(c, n) PROVE Tearing'
    BY <1>1, <1>5 DEF Connect
  <1>6. ASSUME NEW c \in Client, Close(c) PROVE Tearing'
    BY <1>1, <1>6 DEF Close
  <1> QED BY <1>3, <1>4, <1>5, <1>6 DEF Next

\* What has overlapped, and what a node has mistaken, stays so.
LEMMA Lasting ==
    ASSUME Next
    PROVE  overlap \subseteq overlap' /\ foreign \subseteq foreign'
  <1>1. ASSUME NEW n \in Node, NodeStep(n) PROVE overlap \subseteq overlap' /\ foreign \subseteq foreign'
    BY <1>1, NodeKeeps
  <1>2. ASSUME NEW c \in Client, ClientStep(c) \/ \E f \in Name : SendFile(c, f) \/ AskFile(c, f)
        PROVE  overlap \subseteq overlap' /\ foreign \subseteq foreign'
    BY <1>2, ClientTurns
  <1>3. ASSUME NEW c \in Client, NEW n \in Node, Connect(c, n)
        PROVE  overlap \subseteq overlap' /\ foreign \subseteq foreign'
    BY <1>3 DEF Connect
  <1>4. ASSUME NEW c \in Client, Close(c) PROVE overlap \subseteq overlap' /\ foreign \subseteq foreign'
    BY <1>4 DEF Close
  <1> QED BY <1>1, <1>2, <1>3, <1>4 DEF Next

-----------------------------------------------------------------------------
(* The theorems *)

\* The three facts that make Inv an inductive invariant.
LEMMA InvInit ==
    ASSUME Init
    PROVE  Inv
  <1>1. Explicable
    BY InitExplained DEF Explicable
  <1>2. ~strayed /\ Early /\ AtPrompt /\ Tearing
    BY DEF Init, Early, AtPrompt, Tearing
  <1>3. Paired
    BY DEF Init, Paired, Pending
  <1> QED BY <1>1, <1>2, <1>3 DEF Inv, Init

LEMMA InvNext ==
    ASSUME Inv, Next
    PROVE  Inv'
  <1>1. CASE foreign # {}
    BY <1>1, Lasting DEF Inv
  <1>2. CASE foreign = {}
    <2>1. ~strayed /\ Explicable /\ Early /\ AtPrompt /\ Tearing /\ Paired
      BY <1>2 DEF Inv
    <2>2. Early' /\ AtPrompt' /\ Tearing' /\ Paired' /\ overlap \subseteq overlap'
      BY <2>1, EarlyStep, AtPromptStep, TearingStep, PairedStep, Lasting
    <2>3. (Explicable' /\ ~strayed' /\ foreign' = foreign) \/ (foreign' # {} /\ overlap # {})
      <3>1. ASSUME NEW n \in Node, NodeStep(n)
            PROVE  (Explicable' /\ ~strayed' /\ foreign' = foreign) \/ (foreign' # {} /\ overlap # {})
        BY <2>1, <3>1, NodeStepInv
      <3>2. ASSUME NEW c \in Client, ClientStep(c) \/ \E f \in Name : SendFile(c, f) \/ AskFile(c, f)
            PROVE  Explicable' /\ ~strayed' /\ foreign' = foreign
        BY <2>1, <3>2, ClientStepInv, ClientTurns
      <3>3. ASSUME NEW c \in Client, NEW n \in Node, Connect(c, n)
            PROVE  Explicable' /\ ~strayed' /\ foreign' = foreign
        <4>1. c \notin complete
          BY <2>1, <3>3 DEF Early, Connect
        <4>2. strayed' = strayed /\ foreign' = foreign
          BY <3>3 DEF Connect
        <4> QED BY <2>1, <3>3, <4>1, <4>2, ClientStepInv
      <3>4. ASSUME NEW c \in Client, Close(c)
            PROVE  Explicable' /\ ~strayed' /\ foreign' = foreign
        <4>1. strayed' = strayed /\ foreign' = foreign
          BY <3>4 DEF Close
        <4> QED BY <2>1, <3>4, <4>1, ClientStepInv
      <3> QED BY <3>1, <3>2, <3>3, <3>4 DEF Next
    <2> QED BY <1>2, <2>2, <2>3 DEF Inv
  <1> QED BY <1>1, <1>2

\* A step that changes nothing.
LEMMA InvStutter ==
    ASSUME Inv, UNCHANGED vars
    PROVE  Inv'
  <1>1. /\ UNCHANGED <<wire, backlog, pc, fd, client_fd, packet, ms, call, todo>>
        /\ UNCHANGED <<fs, files, complete, client, at, got, overlap, closed, merged, torn, foreign, strayed>>
    BY DEF vars, net, node, data, user
  <1>2. CASE foreign # {}
    BY <1>1, <1>2 DEF Inv
  <1>3. CASE foreign = {}
    <2>1. ~strayed /\ Explicable /\ Early /\ AtPrompt /\ Tearing /\ Paired
      BY <1>3 DEF Inv
    <2>2. PICK s \in Stories, t \in [Conns -> Stage] : Explains(s, t)
      BY <2>1 DEF Explicable
    <2>3. Typed'
      BY <1>1, <2>2 DEF Explains, Typed
    <2>4. Explains(s, t)'
      BY <1>1, <2>2, <2>3, Unmoved
    <2>5. Explicable'
      BY <2>4 DEF Explicable
    <2>6. Early' /\ AtPrompt' /\ Tearing' /\ ~strayed' /\ foreign' = {}
      BY <1>1, <1>3, <2>1 DEF Early, AtPrompt, Tearing
    <2>7. Paired'
      BY <1>1, <2>1 DEF Paired, Pending, Ended
    <2> QED BY <2>5, <2>6, <2>7 DEF Inv
  <1> QED BY <1>2, <1>3

\* After every step of any number of clients and nodes a story explains the state, as long as no
\* node has taken another packet for a fragment in WAIT_REQUEST_FRAGMENTS; when one has, requests
\* have overlapped.
THEOREM Invariant == Spec => []Inv
  <1>1. Init => Inv
    BY InvInit
  <1>2. Inv /\ [Next]_vars => Inv'
    BY InvNext, InvStutter
  <1> QED BY <1>1, <1>2, PTL DEF Spec

\* As long as no node has taken another packet for a fragment, connections join two processes, the
\* listeners' queues hold connections made to them, and WAIT_REQUEST_FRAGMENTS counts no more
\* fragments than the request expects.
THEOREM TypesCorrect == Spec => [](foreign = {} => TypeOK)
  <1>1. Inv => (foreign = {} => TypeOK)
    BY TypesExplained DEF Inv, Explicable
  <1> QED BY <1>1, Invariant, PTL

\* As long as no node has taken another packet for a fragment, what a client reads after
\* REQUEST_FILE is the parts of one creation in their order, never of two, whatever requests overlap.
THEOREM ReadsDeliverTheFile == Spec => [](foreign = {} => ReadsAreWhole)
  <1>1. Inv => (foreign = {} => ReadsAreWhole)
    BY ReadsExplained DEF Inv, Explicable
  <1> QED BY <1>1, Invariant, PTL

\* As long as no node has taken another packet for a fragment: when the nodes are idle, every copy of
\* every file that SERVER_INDEX_HANDLE_NEW_FILE has numbered is on the node that the table names, also
\* when CREATE_FILE and the contents came in one recv; and what was stored is what the client sent,
\* unless the two exceed what one recv returns or the client hung up.
THEOREM CreationsAreStored == Spec => [](foreign = {} => StoredWhole)
  <1>1. Inv => (foreign = {} => StoredWhole)
    BY StoresExplained DEF Inv, Explicable, Tearing
  <1> QED BY <1>1, Invariant, PTL

\* A packet that is not a delivery is taken for one in WAIT_REQUEST_FRAGMENTS only when the requests
\* of two clients have been under way together.
THEOREM StraysTakeTwo == Spec => []StraysNeedOverlap
  <1>1. Inv => StraysNeedOverlap
    BY DEF Inv, StraysNeedOverlap
  <1> QED BY <1>1, Invariant, PTL

\* As long as no node has taken another packet for a fragment, nodes that block in recv on each other
\* in a circle always have the index among them.
THEOREM NodesWaitThroughTheIndex == Spec => [](foreign = {} => CyclesThroughIndex)
  <1>1. Inv => (foreign = {} => CyclesThroughIndex)
    BY CyclesExplained DEF Inv, Explicable
  <1> QED BY <1>1, Invariant, PTL

=============================================================================
