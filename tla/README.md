# Verification of the distributed storage system

TLA+ modules, TLC configurations and TLAPS proofs for the storage cluster in
`src/`: N single-threaded C processes joined in a ring of TCP connections, one
of which, the *index*, knows where the fragments of every file are.

1. [The system](#1-the-system) – inventory
2. [Modules](#2-modules) – which module models what, and how
3. [Runs](#3-runs) – what TLC checks, on which instances
4. [Proofs](#4-proofs) – what holds for every value of the constants
5. [Disagreements](#5-disagreements-between-code-and-comments)
6. [Limits](#6-limits) – abstractions, and what is not modelled
7. [Plan](#7-plan)

`PROJECT.json` holds the same information for tools: the source lines behind
every definition, the hazards and the properties that watch them.

## 1. The system

| Component | State | Operations | Where |
|---|---|---|---|
| Node state machine | `sv.state`, sockets `peer_f`, `peer_b`, `client_fd` | `while (1) switch (sv.state)` | `main.c`, `lib/server/server.h` |
| Ring formation and election | `net_size`, `death_count`, `index.node_id`, `index_data` | connect to both neighbours, gossip, report to the index | `main.c:74-480` |
| Failure detection | the same, plus `peer_f.node_id` | `server_healthcheck`, `xprocedure_check_peer_b`, `SERVER_WAITING_NEW_PEER` | `lib/machine/procedures.c`, `main.c:118-147` |
| Placement and file table | `index_data->fnetidx`, `peer_ips`, `known_peers` | number, cut and place a file; select copies | `main.c:840-1110`, `lib/fileserver/fni.c` |
| Fragment store | `sv.fs`: containers with two slots | create a container, add a fragment, find | `lib/fileserver/fs.c` |
| Rebuilding the table | the file table of a new index | `xprocedure_save_file_to_index` | `procedures.c:340-401` |
| Raw transfer | one buffer, loop counters | send buckets, count receives | `server.c:225-300`, `main.c:600-640, 790-820` |
| File request protocol | `machine_state`, temporary connections | REQUEST_FILE, REQUEST_FRAG, fragment delivery | `main.c:1040-1290` |
| Relay of file creation | the same | pass CREATE_FILE and its bytes to the index | `main.c:590-650` |
| TCP wrapper | – | connect, accept, send, recv, poll | `lib/tcplib.c` |
| Client | – | connect, present, send, request, list | `client/` (Go) |

**How the parts interact.** A node talks only through TCP streams. The forward
stream (`peer_f`) carries gossip and death notices from a node to its successor,
which reads them from `peer_b`. Any node may dial the index to report itself and
its files, or to relay a request; the index dials nodes to hand out fragments.
Clients dial any node. A node has one thread: while it waits in `recv` for one
peer it serves no other, and sees no death.

**What is hard.** Every node elects the index alone, by comparing its id with
its *own* copy of `net_size`, which deaths change on each node in another order.
A listening socket does not say who dials: the first connection of any kind
becomes `peer_b`, and a node that collects the fragments of a read takes every
connection for a delivery. `recv` returns what has arrived, one packet or several,
and the code reads the first. A read makes the index call nodes that may at that
moment be calling the index. A pass of the `IDLE` case looks at the backward peer,
the client and the listener in turn, and the later looks may overwrite the state
set by the earlier ones. Nothing is persistent: after the death of the index its
table is put together again from what survivors report.

**What makes it correct.**

* Ring: one index at a time; a forward stream jumps over dead nodes only; notices
  name dead nodes, reach every survivor and are counted once; gossip stops; the
  index knows every follower; the ring comes into operation, and a dead index is
  replaced.
* Files: the two copies of a fragment are on different nodes; every pointer of
  the table is backed by bytes; a stored file can be read after a death; a rebuild
  forgets no file and gives no id twice.
* Requests: a file that was read is every part of one creation, in order; a
  creation is stored entirely or not at all; a request comes to its end; nodes do
  not block on each other in a circle; a delivery goes to the request it answers.
* Transfers: the reader stays inside its buffer, and has all of it when it ends.

Not all of this is what the code does. The properties that are checked say under which
conditions it holds; section 5 lists where it does not.

## 2. Modules

```
Ring          <- MCRing,         RingProofs <- RingFormationProofs
Placement     <- PlacementProofs
  Catalog     <- MCCatalog,      CatalogProofs <- StorageProofs
                                 (implements Store)
  Requests    <- MCRequests,     StoryProofs <- RequestsProofs
BulkTransfer  <- MCBulkTransfer, BulkTransferProofs
```

Definitions whose name starts with `Mut_` are wrong on purpose: each is a
plausible slip in the definition that follows it (a dropped guard, an index off
by one). Put in its place, it must make a property fail; this shows that the
property depends on that piece of code. The specifications never use them.

### Ring

One process per node. `state[n]` is `sv.state`; `pc[n]` is the place inside the
body of the case, for the bodies that block or that other nodes can overtake:

| `pc` | meaning |
|---|---|
| `top` | at the `switch` |
| `wait_ok`, `reported` | reporter: in `server_wait_ok`; between REPORT_SELF and the last OK |
| `identify` | in `server_wait_client_presentation` on an accepted connection |
| `session` | index: in the loop over a reporter's packets |
| `receive` | `IDLE`: waiting for the packet of a node that has presented itself |
| `poll` | `IDLE`: second half of the pass, after the backward peer was looked at |

| Action | Code |
|---|---|
| `Boot`, `Connecting` | `BOOTING`, `CONNECTING`: listen, accept the first connection as `peer_b`, dial `peer_f` |
| `BeginOperation` | the comparison `net_size == me` |
| `PresentItself`, `WaitIndexGossip`, `GossipExit` | the index announces itself; the others store and forward, or exit |
| `ReportDial`, `ReportSelf`, `ReportEnd` | `REPORT_KNOWLEDGE_TO_INDEX` |
| `Accept`, `Identify`, `RejectGuest`, `Session`, `Receive` | the accept branches of the index and of `IDLE` |
| `PollClient`, `PollNothing`, `Serve` | the second half of an `IDLE` pass, and a request handler as one step |
| `HealthCheck` | `server_healthcheck` with `xprocedure_peer_died_notify` |
| `AdoptWidow`, `ForwardDeath`, `DropFromPeerB` | `xprocedure_check_peer_b` |
| `WaitingNewPeer` | the widow takes its new backward peer |
| `ClientConnect`, `ClientRequest`, `ClientClose`, `Crash` | the environment |

A stream `link[a][b]` is a queue of packets and a status. `Sent` and `Closed`
follow the kernel: a stream whose reader has closed it swallows one packet, the
next send raises `SIGPIPE`, which ends the process because nothing handles it; a
reader that closes with unread bytes resets the stream. With `Coalescing` a `recv`
takes everything queued, otherwise one packet.

`net_size` is a `uint64_t` and can pass zero downwards, so subtraction is modulo
`WORD`.

### Placement and Catalog

`Placement` holds the index's arithmetic as operators: how many fragments
(`FragCount`), how long (`FragmentSize`), on which nodes (`TryNode`, `CopyNode`,
`Place`), which copy is read (`Selected`), and what one report writes into the
table of a new index (`Writes`). Array indices are those of the C code.

`Catalog` lets them act: `NewFile`, `FanoutStep` (one round of the fan-out),
`Crash`, `Learn` (a survivor counts a death), `Elect` (fresh index data),
`ReportSelf` (a session opens) and `ReportFile` (one file of the session, through
`xprocedure_save_file_to_index`). The first death is detected by the ring neighbour that
dialled the dead node, which takes 2 off its `net_size` where the others take 1, and it is
announced under the dead node's id. From the second on, both depend on how the ring
has healed: the holder of the backward stream is another node, and it announces the
`peer_b.node_id` it was started with, which may be a node that died before
(`procedures.c:298`). `Losses` and `Named` allow every outcome then: either decrement at
any node, and the id of any dead node, so that an index may keep the address of a dead
node for ever. `reports` is what the current session has still to
say: the containers of the new index itself first, then those of one reporter
after the other. A fragment count of 0 would be divided by (`main.c:871`), which
ends the process: `NewFile` is not enabled then, and `Crash` covers the end.
`corrupt` records a write outside a fragment table; after one there is nothing
defined to continue with, and `Next` stops.

### Store

What a user may rely on, with four variables: `stored`, the files whose creation has
ended, `pending`, the one that is being distributed, `open`, whether the service answers,
and `readable`, what a read would return. `Begin` gives a file a number that no stored
file has and closes the service, `End` and `Abort` finish it, `Toggle` closes and opens
the service for a death and its repair. Whenever the service is open, `readable` includes
*every* stored file; whether it is open is not read off `readable`.

`Catalog` implements it under the mapping `stored <- complete`, `pending <- Unfinished`
(the number that `NewFile` gave to the file in the fan-out), `open <- InService` (the
index lives, has no fan-out and no rebuild in work, and has counted every death:
its own view, in which no container is looked at) and `readable <- ReadableFiles` (the
files for which the table, the selection of copies and the containers of the live nodes
yield every byte, when in service).

### Requests

The ring in operation, and clients that create and read files and, back at their
prompt, may hang up (`Leaving`). No node dies. `recv` returns what has arrived, up to
`RECV` bytes (4096 in `server_wait_from_socket`): one packet (`Recv`), several, or whole packets and the beginning of the
next (`RecvCut`). What matters of lengths is whether a creation and its contents fit
in one `recv` (`TooLong`, from `PRESENTATION`, `CREATION` and `Size`). At the end of the
line of a client that has gone `recv` returns 0 (`AtEnd`). Every call is a connection of its own, a record `Conn(kind, c, i, from, to)` with two
queues of packets: `client` (a client's line), `relay` (a node to the index),
`store` (fan-out), `ask` (index to a holder), `deliver` (to the reader). `pc[n]` is
where the thread of node n is:

| `pc` | meaning |
|---|---|
| `idle` | `SERVER_IDLE`: polls `client_fd`, then the listener |
| `identify`, `receive` | waits for the presentation, for the packet after it |
| `packet` | `SERVER_RECEIVED_PACKET` |
| `raw` | `SERVER_WAITING_RAW_PACKETS` |
| `fanout`, `ask` | index: before the next fragment to hand out, to ask for |
| `call` | waits for an answer in a call it makes (`server_wait_ok`) |
| `answer` | waits for the index's answer to a relayed read |
| `collect`, `collect_identify`, `collect_packet`, `collect_raw` | `SERVER_WAIT_REQUEST_FRAGMENTS` |
| `hand_over` | all fragments found; waits for the client's OK |

`call[n]` is the script of the call a node makes: the packets still to be sent, each
after an answer, whether the last is confirmed, and where the thread goes on.
Contents are sequences of parts `<<creator, number>>`, so that a mixture of two
files, a missing part and a wrong order can be told apart. The fragment
table of a file and the copies a read asks for come from `Placement`.

| Action | Code |
|---|---|
| `PollClient`, `ClientGone`, `Accept`, `Identify`, `Receive` | the `IDLE` pass; `Accept` and `Identify` also in `WAIT_REQUEST_FRAGMENTS` |
| `HandleCreateFile`, `WaitRaw`, `WaitRawEnd`, `Fanout`, `FanoutEnd`, `HandleStoreFragment` | relay, numbering and fan-out of a new file |
| `HandleRequestFile`, `Answer`, `HandleRequestFileAtIndex` | the read at a node, and at the index |
| `RequestFragments`, `RequestFragmentsEnd`, `HandleRequestFrag` | USE_LOCAL, own delivery, or a request to the holder |
| `Answered` | one answer inside any call |
| `CollectPacket`, `CollectRaw`, `CollectEnd`, `HandOver` | collecting the fragments |
| `CollectForeign`, `CollectForeignEnd`, `CollectGone` | what is not a fragment, while collecting |
| `HandleUnknown` | the default branch of `RECEIVED_PACKET` |
| `Connect`, `Welcome`, `SendFile`, `SendContents`, `AskFile`, `ReadResponse`, `ReadContents`, `Close` | the Go client |

A collecting node confirms whatever packet follows a presentation and, unless it is
USE_LOCAL, takes it for DECLARE_FRAG (`main.c:1223-1269`). A packet that is not a delivery
of the read in work goes into `foreign` (the client whose read it is) and on to
`collect_raw`. What follows depends on the bytes that lie where DECLARE_FRAG has its size.
CREATE_FILE and REQUEST_FILE have the name there. A name of at most 16 characters (`Short`)
gives the size 0: one `recv`, of which every byte is copied past a `malloc(0)` – or
none, when the sender hangs up: then nothing is copied, `fragment_found++` counts it
all the same, and the file is handed over with a hole, which is `<<0, 0>>` in `buffer`.
A longer name gives a size that no connection carries: the node swallows what comes,
and copies outside its buffers at the end. Where bytes are copied outside a buffer there
is nothing defined to continue with: `strayed`, and the model stops. It also stops at
a foreign REQUEST_FRAG, whose size field is an address, and at a delivery of another read
(possible only after a hole); everything else goes on.

History variables record what happened for the properties to speak of: `overlap`
(clients connected while another's request was under way), `merged` (a `recv` returned
several packets, or one and a part of the next), `torn` (creations of whose contents the
index gets a part or nothing), `foreign`, `strayed`.

### BulkTransfer

Writer and reader of one buffer, over a connection that does not end with it. Bytes are
counted, not represented. Both sides use `Packets(sz) = sz / BUCKET + 1`; the writer
sends nothing for an empty bucket. `line` says whose connection it is. On a client's,
the next command may follow as soon as the last bucket is sent, because the client waits
for no answer (`SendNext`, `followed`, `behind`). On a node's nothing does before the
reader has answered. The writer may go away at any moment (`Close`), what it sent stays
readable. The reader counts `recv` calls (`rounds`), each of which returns any part of
what is queued, the buffer's bytes and those behind alike, or 0 at the end of the
stream, which counts too. It copies whatever it got: `populated` can pass `size`. `whole`
remembers whether all calls returned as much as they could. The Go client's writer
computes a ceiling instead, which sends the same bytes because the extra bucket is empty.

## 3. Runs

| Run | Instance | Result |
|---|---|---|
| `ring_crashes` | N=5, 2 crashes at any moment, coalescing | `TypeOK`, `AtMostOneIndex`, `SkipsOnlyTheDead`, `NoticesAreTrue`, `DeathsCountedOnce`, `GossipStops`, `IndexKnowsFollowers`, `PreviousPeerWasIndex`, `ReportsFitTable` hold (385 thousand states) |
| `ring_clients` | N=3, 1 crash, a client and a node-to-node connection | `OperatingRingIsWhole` holds: a connection that is taken for a ring neighbour can block the boot, but no ring in operation contains one. `ElectionHasBothPeers` holds (also proved) (100 thousand states) |
| `ring_life` | N=5, 1 crash after the start, one packet per `recv`, fair | `RingForms`, `DeathIsLearned`, `SuccessorElected` hold |
| `catalog_failover` | N=5, 3 files of sizes 2, 4, 7, 1 crash | `TypeOK`, `PointersAreBacked`, `CopiesApart`, `StoredFilesReadable`, `NothingForgotten`, `IdsUnique`, `OneContainerPerFile` hold, and `ImplementsStore` (68 thousand states) |
| `requests` | N=3, 2 clients, one of whom may hang up, one stored file, one new one that exceeds one `recv`, any merging of packets, fair | `TypeOK`, `CyclesThroughIndex`, `ReadsAreWhole`, `StoredWhole`, `StraysNeedOverlap`, `LoneRequestsEnd` hold (446 thousand states) |
| `bulk_transfer` | sizes 0 to 5 buckets, a client's and a node's line, up to 5 bytes behind the buffer, the writer leaving at any moment, any cutting of the stream, fair | `TypeOK`, `OverrunIsNextCommand`, `CompleteWhenDone`, `MultiplesWait`, `OthersEnd` hold (13 thousand states) |
| `requests_circular_wait`, `ring_two_indexes`, `ring_coalesced_report`, `ring_heals`, `catalog_reads`, `catalog_empty_slot` | see section 5 | violated |

**Bounds.**

* *N.* Rings of three and four are too small for some of the properties: the
  double decrement of `net_size` makes two nodes believe they are the index in a
  ring of three (`ring_two_indexes`), and makes an index take old files for new
  ones in a ring of four (`catalog_reads`). Five is the smallest size where these
  coincidences are absent for one death, and where two deaths can be apart
  (1 and 3), adjacent (3 and 4), across the wrap (5 and 1), and can include the
  index and the node that would succeed it. The passing runs at N=5 say that the
  properties hold *for this size*; the violation runs say that they do not hold
  for every size, and the theorems that need a size say so. The properties of
  `catalog_failover` are proved for every N from 5 on (section 4).
* *MaxCrashes = 2* gives a second death during the handling of the first. Exits
  that the program itself causes (`SIGPIPE`, `SIGFPE`, `return 1`) are not bounded.
  In `Catalog` one death reaches every path of the rebuild, and makes `Losses` and `Named`
  exact. With two deaths
  `StoredFilesReadable` is not to be expected: two neighbours may hold both copies
  of a fragment.
* *MaxClients, MaxCallers.* One client can be in any place a stranger can take
  (backlog, `guest`, `client_fd`, `peer_b`); the second connection lets one wait
  behind the other.
* *WORD = 100* is larger than any `net_size` reached, so that a wrapped counter is
  far from every node id, as 2^64 is.
* *MINIMAL_SIZE_FOR_SPLIT = 3* for 100:
  sizes 2, 4 and 7 give one fragment because the file is small, one because it is
  not longer than the ring, and one fragment per node with a remainder.
* *BUCKET = 4* for 4096: every remainder occurs. *MaxFollowed = 5* is more than a
  bucket: the bytes behind the buffer can fill the last round and stay over.
* *Requests.* In a ring of three a reader, the index and a third holder are all
  different nodes, so each of the three ways to fetch a fragment occurs in one read.
  Both files are longer than the ring and are cut into three. *RECV = 7, CREATION = 2,
  PRESENTATION = 1* with sizes 4 and 6: the contents of one file fit into a `recv` with
  its CREATE_FILE, also behind a presentation; those of the other do not. Its name is the
  long one of the two (`Short`), so that both ways a foreign packet is read occur. Two clients give every
  pair of overlapping requests: creation and creation, creation and read, two
  reads, at the same node, at two nodes, and at the index. A client makes one
  request: a second one of the same client is, for the nodes, a client that has
  presented itself earlier. *Leaving = {2}* has one of two clients hang up; with both
  leaving the safety properties hold as well (975 thousand states), but the liveness
  check takes longer than a run should.

**Fairness.** `FairSpec` of `Ring` is weak fairness of `NodeStep(n)` for each
node: a live process is scheduled and its loop goes round; nothing is assumed
of which branch it takes, of crashes or of clients. `FairSpec` of `BulkTransfer`
is weak fairness of the writer and of the reader; both are loops of system calls
that the kernel completes as soon as they can be. `FairSpec` of `Requests` is
weak fairness of the nodes and of the clients that are in the middle of a request
(a user may never start one); it says that *some* process goes on, and since no
behaviour of the instance is infinite this is the same as each of them going on
when it can. `LoneRequestsEnd` is `[]<>` of a condition on what is still open. No fairness is
assumed of a client that hangs up, of its next command (`SendNext`), or of a writer
that goes away (`Close`).

**Deadlock** is not checked (`CHECK_DEADLOCK FALSE`): the program blocks for ever
in `recv` in several places (sections 5 and 6), a completed transfer has no
next step, and an idle ring whose passes change nothing is a stutter.

## 4. Proofs

All are checked by TLAPS without open leaves.

**`RingProofs`** – assumption `RingConstants` (N at least 2, WORD larger than N).

* `TypeCorrect`: `Spec => []TypeOK`.
* `ElectionPeers`: `Spec => []ElectionHasBothPeers`, for every ring size, number
  of crashes and clients and both readings of `recv`. The danger is the `IDLE`
  pass: its first half may set `WAITING_NEW_PEER` (with `peer_b` closed) or
  `BEGIN_OPERATION`, and its second half may accept, be refused, or receive and
  then overwrite the state.

Neither is inductive. `IInv` adds `Coherent` for every node: a thread in the
second half of a pass is in `IDLE`, `WAITING_NEW_PEER` or `BEGIN_OPERATION`; a
thread in an accept branch has a guest (without this the streams read there have
no type); after `CONNECTING` the forward stream has been dialled; an election
state has a backward stream. There is one lemma per group of actions, and one
step per action under it; `Frame` covers the nodes an action does not touch.

**`RingFormationProofs`** – the same assumption; any number of crashes at any time,
any clients, with and without coalescing.

* `NoticesTrue`: `Spec => []NoticesAreTrue`.
* `WholeRing`: `Spec => []OperatingRingIsWhole`.
* While node N lives (`Spec => [](alive[N] => ...)`), whatever other nodes die:
  `FirstIndexIsAlone` (`AtMostOneIndex`), `FirstIndexKnowsFollowers`
  (`IndexKnowsFollowers`), `NodeOneWaitsForDeath` (`PreviousPeerWasIndex`),
  `GossipStopsAtFirst` (`GossipStops`), `FirstTableFits` (`ReportsFitTable`).
  The hypothesis is needed for a general theorem: with N dead the double decrement
  breaks the first at N=3, three crashes the second and third, small rings the
  fourth, and the deaths of nodes 2 and 6 the last at N=6.
* `FirstDeathIsBridged`: while at most one node has died (any node, at any moment),
  `SkipsOnlyTheDead`. With three deaths it is false.

A notice is true because the node that finds its backward stream at its end is
joined to its real neighbour, and it is, because a node whose first connection came
from a client never comes into operation. For node N the last point is a counting
argument. N counts `net_size - 1` reports, and the report of its own neighbour does
not arrive: the neighbour's ring connection stands in the listener *ahead* of its
report, and N waits in vain for a presentation on it. `FInv` says all of this at
once: `NodeOK` (who may be backward peer in which state), `StreamsTrue` (what may be
in flight on a stream: a death notice names a dead node, REPORT_SELF only on report
connections), `Listeners` (who may stand in a backlog), `ReportsOK` (one report per
node, counted once), `QueueOK` (the order in N's listener), `WholeOK`. The second
half of `RingProofs` says for every action what it does to its own node, to the
streams and to the listeners; `RingFormationProofs` puts these together.

Two invariants extend it. `FirstLife` is about the announcement of N. The node before
N drops it, but it looks only at the first packet of what `recv` returns and forwards
the whole; that nothing carries the announcement along is so because a node says
nothing before it has passed the announcement on (`Announced`), which therefore leads
every queue it stands in. `HInv` is about the first death: `Paired` (the widow named by
a notice is the successor of the dead node) and `OneBridge` (`peer_f.node_id`, which is
recomputed from a `net_size` that was decremented twice, is the command line's
neighbour unless that one is dead) leave one place for the new stream to go.

**`PlacementProofs`** – no state.

* `FragmentsTile`: every byte of a file lies in exactly one fragment, for every
  size and fragment count (the fan-out and the reader compute offsets separately).
* `CopiesOnDifferentNodes`: the placement loop separates the copies *if* it makes
  no more tries than its modulus. The hypothesis is needed: an index of a ring
  of three that has detected a death makes three tries modulo two (section 5).
* Lemmas for `CatalogProofs`: the recursive function `InternalOffset` exists and
  satisfies its recurrence (`InternalOffsetIs`), `Place` yields pointers
  (`PlaceType`), and while node 1 is present the first copy of the first fragment of
  every file goes there (`FirstCopyOnNodeOne`).

**`CatalogProofs`** – assumptions `CatalogConstants` and `SplitAssumption`; every
network size, set of file sizes, number of files, and a crash between any two
steps out of a rebuild.

* `CatalogTypeCorrect`: `Spec => []TypeOK`. `CInv` adds `Counts` (a node's `net_size`
  and `death_count` add up to N, or to N - 1 once it has detected the death of its
  neighbour, so that the modulus of the placement loop is never 0) and `FanoutOK`.
* `NumberingHolds`: `Spec => []NumberingWhileSpared`. As long as node 1 or node N is
  alive, through any number of deaths and failovers, `IdsUnique`, `NothingForgotten` and
  `OneContainerPerFile`. The proof uses nothing of who detects a second death, how
  often it is subtracted, or under which id it is announced (`Losses`, `Named`): the
  addresses an index keeps by mistake send copies to dead nodes, but give no number.
* `IdsStayUnique`, `StoredFilesKnown`, `ContainersMatchFiles`: the same three as
  `Spec => []...` when there is at most one crash.

A fresh id is the number of the index's containers plus one, and the index's
containers are what survivors reported. `Numbering` says why this leaves no gap:
node 1 is sent a fragment of every file before anybody else (`NodeOne`, `Abreast`);
out of a rebuild, table, containers and numbers are the same ids (`Steady`); during
one, what a reporter has is in the table or still to be told (`Rebuild`). With
nodes 1 and N both dead it is false: a file of one fragment that only nodes 1 and 2
had is forgotten and leaves a gap. TLC finds `IdsUnique` violated at N=5 with
three crashes.

**`StorageProofs`** – the same assumptions, and N at least 5 and
MaxCrashes at most 1; any file sizes, any number of files, a crash of any node
(the index too) in the middle of a fan-out or between files.

* `PointersBacked`: `Spec => []PointersAreBacked`.
* `CopiesStayApart`: `Spec => []CopiesApart`.
* `FilesStayReadable`: `Spec => []StoredFilesReadable`.
* `ClusterImplementsStore`: `Spec => ImplementsStore`, the refinement of `Store`: a file
  is begun only under a number no stored file has, and whenever an index is in service,
  the first or a successor, it returns every stored file. `ServedImplied` is the latter;
  one lemma per group of actions maps its steps (`NewFileBegins`, `FanoutEnds`,
  `CrashCloses`, `LearnKeeps`, `FailoverCloses`).

Both hypotheses are needed. Two copies survive one death, and two neighbours may hold
both copies of a fragment. In a ring of three `CopiesApart` fails and in a ring of four
`StoredFilesReadable` does (section 5): from N = 5 on no file has `2 * net_size`
fragments.

What a table says, what containers hold and what a rebuild writes are related only
through the moment the file was created, which the state does not remember. The
invariant says that it could be: `StorageInv` is `NumberingInv`, `Phase` (who is index
and which addresses it has; with one death the successor of N is N - 1) and
`\E L \in Layouts : Body(L)`, where a layout is the size of a file, the table it was
given and the number of rounds its fan-out has made. `Body(L)` explains the state by
the layouts:

| Part | Says |
|---|---|
| `Shape` | a table has all copies, no node twice among first or among second copies, and the copies of a fragment apart |
| `Patterned` | until node N learns of a death, fragment i is on nodes i and i + 1 (the rebuild takes this for granted when it computes positions) |
| `Holding` | a node's two slots have the fragments of the rounds that named it, in order, and it has a container if there are any |
| `Underway` | what is left of a fan-out is the rest of the table |
| `Ended` | the fan-out of a stored file made all its rounds |
| `Listing` | an entry of the index's table is the layout's or empty, and is the layout's for a stored file and a live node |
| `Relisting` | in a rebuild the same, as far as the survivors have been heard; a file of one fragment is entered in the order of node ids whatever the order of reports |

The first half of `StorageProofs` has what does not depend on behaviours: where the
placement loop puts the copies in each of the three situations one death can lead to
(`PlaceFull`, `PlaceLoss`, `PlaceHeir`), how slots fill up (`FilledStep`), what one report
does to a table (`FileMany`, `FileOne`). The second has a lemma per action (`NewFileBody`
gives the file a layout, `FanoutBody` counts a round, the others keep the layouts) and
draws the conclusions. For reads: an index that has counted the death takes exactly
the live nodes for valid (`ValidIs`), of two copies apart one is alive (`PickIs`), and
the fragments are the bytes of the file (`FragmentsCover`, from `FragmentsTile`).

**`StoryProofs`, `RequestsProofs`** – assumption `RequestConstants` (N at least 2, a
finite set of clients, any of whom may hang up, any files whose contents fit into one
raw packet, any lengths); any number of overlapping requests, any merging and cutting of
packets.

* `StraysTakeTwo`: `Spec => []StraysNeedOverlap`, without any condition.
* As long as no node has taken another packet for a fragment
  (`Spec => [](foreign = {} => ...)`): `TypesCorrect` (`TypeOK`), `ReadsDeliverTheFile`
  (`ReadsAreWhole`), `CreationsAreStored` (`StoredWhole`), `NodesWaitThroughTheIndex`
  (`CyclesThroughIndex`). By `StraysTakeTwo` the condition is met wherever no two
  requests have overlapped.
* `Invariant`: `Spec => []Inv`, from which the five follow.

What happens *after* a foreign packet is left to TLC: in its run the four properties
hold there too, as far as `strayed` lets the model go on, with the exception that
`ReadsAreWhole` itself makes for a read that has counted such a packet. `StoredWhole`
has two exceptions, both of which the code really has (section 5).

None of the five is inductive, and a request leaves its traces in many places: packets
on up to five kinds of connections, the threads and call scripts of several nodes, the
index's table, the buffers of the collecting node. What they have in common is the
request, which no variable names. So the invariant says, as in `StorageProofs`, that
the state has an explanation: a *story* `s` tells of every client the file it wants,
the node it is connected to, whether it reads or writes, and the number of the file, and
of every number the client who created the file; a *stage* `t[k]` tells of every possible
connection how far it has come (`LineStages` for a client's line, `ReadRelayStages` and
`WriteRelayStages` for the relay, `CallStages` for the calls). `Explains(s, t)` derives the
state from them:

| Part | Says |
|---|---|
| `Typed` | the types of what the story does not determine |
| `Links` | the connections past the stage `"none"` are those that exist, between the two processes the story names, and each carries the packets that its stage says, in both directions |
| `Queues` | a listener's queue has only connections to it in stage `"queued"`, each once |
| `Thread` | a node's `pc`, the connection it reads, the call it makes and its buffers are those of one connection that is in a stage of work at this node |
| `Request` | the stages of a request's connections fit each other, and the client's phase: how far the relay may be when the line is at `"relay"`, which asks and deliveries exist, what the answer says |
| `Inquiry`, `Handout` | the index, in a read: which holders it has asked; in a creation: which copies it has handed out |
| `Numbering` | the numbers given are those of the creations that reached the index, each once |
| `Shelves` | a node's store has, for every number, the fragments that the table places there and whose `store` call has brought them, in that order or the other |

A connection that is asked for is always the work of the index for one client, since the
index has one thread and does the fan-out and the asking of one request to the end
before it reads another. That is why the parts of two creations cannot mix
(`ReadsAreWhole`): a collecting node may be called by strangers, but what a *delivery*
carries follows from the request it belongs to. For `CyclesThroughIndex`: of two nodes
other than the index one waits for the other only in a delivery (`WaitsOnDelivery`). If
the collecting one waits, it has answered already, so that the delivering one has an
OK to read and waits for nobody. If the delivering one waits, the other is the reader
of its request and collects, or waits for the answer of the index; to be in the
circle it must wait for a deliverer, which by the first case waits for nobody.

A step may change the explanation of what has not changed itself: when a client
connects or asks, and when the index looks a file up or numbers it, the story is told
again for that client (`Resettled`), and the rest has to follow from the new story too.
The only step that leads out of the explained states is the foreign packet that a
collecting node takes for a delivery. So

    Inv == IF foreign = {} THEN ~strayed /\ Explicable /\ Early /\ AtPrompt /\ Tearing /\ Paired
           ELSE overlap # {}

where `Explicable` is the existence of a story and stages, `Early` and `AtPrompt` say where
a client is that has a complete creation or has hung up (so that the `recv` of 0 bytes is
possible only after the contents have been sent), `Tearing` why contents were cut, and
`Paired` that two requests that are pending at once have overlapped. That a second
request is pending at the step into `foreign # {}` (`ForeignIsOther`) follows from the
explanation of the state before.

A creation cut at `RECV` bytes stays explained: the index reads CREATE_FILE with the first
part, and takes the rest for the whole contents. The parts of its buffer are then not
those bytes, but still of one creation; `torn` notes it, and `Tearing` says when it may be.

`StoryProofs` has the definitions, the frame lemmas and the steps by which a request
gets to the index; `RequestsProofs` the work of the index and of the nodes, the clients,
and the theorems. `Inv` quantifies over all stories, too many for TLC to enumerate; it
checks the five properties on the run `requests`.

**`BulkTransferProofs`** – assumption `BulkConstants` (a bucket is not empty).

* `TypeCorrect`.
* `OverrunBound` (`OverrunIsNextCommand`): for every bucket size and every way to cut the
  stream the reader of a node's buffer never copies past its end, and the reader of a
  client's copies there only bytes of the client's next command, never beyond its last
  bucket.
* `DoneIsComplete` (`CompleteWhenDone`), `MultiplesNeedMore` (`MultiplesWait`): with reads
  that are never short a reader that ends has everything, unless the writer left before
  it had sent everything; for a multiple of the bucket it ends only by the end of the
  stream or the next command.
* The invariant: what was read and what is queued is what was sent, the buffer's bytes
  first (`Queued`); the writer's offset is `min(sent * BUCKET, size)` (`Cut`); nothing
  follows before the last bucket (`InOrder`); no round takes more than a bucket
  (`Bounded`), and while `whole` holds none takes less than there was (`Aligned`) and the
  reader is not ahead of the writer as long as the line is open (`Paced`).

**Only model-checked**

* Everything temporal with fairness (`RingForms`, `DeathIsLearned`,
  `SuccessorElected`, `OthersEnd`, `LoneRequestsEnd`): out of the prover's reach.
* `DeathsCountedOnce`: not true of every instance (it fails with clients), and a proof
  for the others has to follow each notice on its way round the ring.
* The unconditional form of the theorems about `Ring` that have a hypothesis, on the
  instance of `ring_crashes`: there two deaths, of node N too, break none of them.

## 5. Disagreements between code and comments

Each is a run that TLC ends with a counterexample.

| Run | What happens |
|---|---|
| `ring_two_indexes` | The node that detects a death decrements `net_size` twice (`procedures.c:89` and `:302`); both survivors of a ring of three become the index. |
| `ring_coalesced_report` | REPORT_SELF is not confirmed, although "it reads a packet and confirms to sender" (`main.c:258`). REPORT_SELF and the last OK may arrive in one `recv`; the index misses the second and waits for ever. |
| `ring_heals` | The `IDLE` pass that detects a death still accepts: the connection that should heal the ring is asked for a presentation it does not send, and the widow blocks. |
| `catalog_reads` | In a ring of four, files from before a death are taken for files "inserted after death" (`main.c:1071`), and the dead node is asked. |
| `catalog_empty_slot` | An empty slot is meant not to be mistaken for a fragment (`fs.c:39`); the rebuild computes a table position from its id 0. |
| `requests_circular_wait` | "Each node runs as a single thread, using non-blocking sockets" (`src/README.md:28`). Only the listener is non-blocking. A node relays a read and waits for the index's OK (`main.c:693`) while the index, busy with another request, dials that node and waits for its OK (`main.c:1013`, `procedures.c:150`). Neither accepts; both are lost to the cluster. `CyclesThroughIndex` says this is the only kind of circle. |

Further observations that need no run of their own:

* A buffer whose size is a multiple of 4096 does not get through by itself: the reader
  waits for a last bucket that is empty and never sent (`MultiplesWait`, checked and
  proved). What ends it, on a client's line: the next command, or the end of the stream,
  which counts as a round (`main.c:795-801`). With short reads the extra `recv` may find
  bytes of the buffer, and the transfer ends by chance.
* The reader can leave its buffer. `memcpy` is bounded by what `recv` returned, not by
  what is left (`main.c:799`). A client that sends a file of 4096 bytes and asks its next
  thing at once has that request copied past the `malloc`ed buffer and lost.
  `OverrunIsNextCommand` says that nothing else ever gets there.
* `CopiesApart` fails in rings of three: `catalog_failover.cfg` with `N = 3` shows
  an index that detected a death walking once round its modulus (2) and putting
  both copies of a fragment on one node.
* `net_size + death_count` is called the "original count" (`main.c:908`); after the
  double decrement it is one short on the node that detected a death. This is the
  cause of `catalog_reads` and of the next point.
* Overlapping requests: while a node collects fragments, a client or another node
  that calls it is taken for a delivery (`StraysNeedOverlap` shows that it takes a
  second request). Some end in a copy outside the buffers. With a short file
  name and a client that hangs up, nothing is copied and the fragment is counted:
  "else // DELIVERING FRAGMENT" (`main.c:1249`) ends in `fragment_found++` (`main.c:1267`), and
  the reader is sent a file with a hole. TLC reaches it in the instance of `requests`
  (check that no buffer has a part `<<0, 0>>` when a node is at `hand_over`); it is why
  `ReadsAreWhole` exempts the reads in `foreign`.
* A creation whose two packets (CREATE_FILE and contents, or presentation and relayed
  CREATE_FILE) are read in one `recv` is lost, and the thread that read them waits
  until the client's end of stream, or for ever. `LoneRequestsEnd` excludes the case.
* Files *are* stored by halves in two cases. When CREATE_FILE (219 bytes from the Go
  client) and the contents are read together and exceed 4096 bytes, the rest of the contents
  is taken for the file: `torn`, with `TooLong`. And when the contents were read with
  CREATE_FILE and the client hangs up, `recv` returns 0 and the index numbers and fans out a buffer that was
  never written. `StoredWhole` shows that these are the only ones, and that every copy of such a
  file still is of the same one creation.
* A client connected to the index itself can create files and is refused a missing
  one, but is never sent a file: the request carries the client's id, from which an
  address outside the table is computed (`main.c:1104`).
* The index's list is not ordered by id after a rebuild ("The list will always be
  ordered", `fni.c:52`): `SaveFile` appends in the order of the reports. No code
  that is modelled relies on the order.

## 6. Limits

Abstractions, and why they are harmless or what they leave out:

* **Handlers are one step** in `Ring` (`Serve`); the connections they open are
  `Caller`s whose owners go on. Their waiting for other nodes is in `Requests`.
* **Requests are opaque** in `Ring`; files are in `Catalog` and `Requests`. The packets
  of a report session that describe files are not in `Ring`: a reporter there has no
  files. `Catalog` has the files and takes a session file by file, without packets.
* **Nobody dies in `Requests`.** A death there leads from one blocked `recv` to
  another (the waits of a read look neither at deaths nor at ends of stream), so
  there is little to promise; which copies survive is in `Catalog`.
* **Files fit into one raw packet** in `Requests`: how larger ones arrive is the
  subject of `BulkTransfer`. Raw bytes are never taken for a packet type. TCP splits no
  packet there except at the limit of `recv`.
* **Receive errors** (`recv` returning -1, a reset) are in neither module; the code uses
  the -1 as a length.
* **The relaying node as a writer** of raw buckets is not in `BulkTransfer`: it sends on
  each `recv` as it is, so that the index sees the client's stream cut in another way.
* **The late deliveries of a read** that was handed over with a hole reach a node that
  does not expect them. At an idle node they are dropped (`HandleUnknown`) and their
  sender blocks. At a node that collects for another read the model stops.
* **A client makes one request** in `Requests`; that its next command can be taken for
  contents is in `BulkTransfer`.
* **Second deaths in `Catalog`** are coarser than the code (`Losses`, `Named`): who
  detects one depends on the ring, which is in `Ring`.
* **A file keeps its name** in `Requests`: of two creations under one name, reads
  return the first (`FindByName`).
* **A refused client of the index**: the index closes the line but keeps the number
  of the descriptor in `client_fd`; the model takes it as having no data. That the
  kernel gives the number to a later connection is not modelled.
* **Deaths are seen at once**: the kernel of a dead process closes its sockets,
  which on one host (and the scripts start all nodes on one host) is immediate.
  Loss of connectivity between live nodes is not modelled; the code has no handling of it.
* **A client's close is an end of stream**, never a reset, and comes from its prompt;
  a client that is killed in the middle of a request is in `Ring` and `BulkTransfer` only.
* **A dial is immediate.** The listener's queue is unbounded (it is 8 in the code), and the connection is
  made when the other side listens.
* **Fresh index data is taken as zero.** The code leaves the `malloc`ed `known_peers`
  and `peer_ips` as they come, and sizes `peer_ips` by the current `net_size`, so the
  entry of a dead former index lies past its end. The models take entries that
  were never written as empty; `ReportsFitTable` is about the entries written.
* **Deaths during a rebuild** are excluded in `Catalog` (`Crash` needs
  `reporters = {}`); `Ring` has them, without files.
* **Packet layout, printing and addresses** have no counterpart.

Not modelled: command-line parsing, address conversion and the clock (no state that
the protocol depends on), debug output, scripts, the client's prompt and its
packet encoding.

## 7. Plan

Done: `Ring`, `Placement`, `Catalog` with `Store`, `Requests`, `BulkTransfer`, their
runs, and the theorems of section 4. The order was: the ring first, because every
other part relies on who is index; then the table, because a failover rebuilds it;
then the bytes; then the requests, which use all of them; then the promise.

Next:

1. **Report session with files**: REPORT_FILE and its confirmations as packets, with
   coalescing, composed with the rebuild.
2. **Deaths during a request**: `Requests` with the crash of a holder, to say which
   requests still end.
3. **`DeathsCountedOnce`** without clients, from an invariant that says where the notice of
   each death is.
