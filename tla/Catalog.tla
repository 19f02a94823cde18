------------------------------- MODULE Catalog -------------------------------
(***************************************************************************)
(* Files, fragments and the index's table of them, through file creation,  *)
(* the fan-out of fragments, the death of a node, and the rebuilding of    *)
(* the table by the node that takes over from a dead index.                *)
(*                                                                         *)
(* Connections are abstract here: a fragment sent to a live node arrives   *)
(* (module BulkTransfer looks at the bytes), deaths become known to the    *)
(* survivors in any order (module Ring looks at the notices).              *)
(***************************************************************************)
EXTENDS Placement, SequencesExt

CONSTANTS
    N,                  \* -network-size
    Sizes,              \* file sizes clients use
    MaxFiles,           \* bound on created files
    MaxCrashes,         \* bound on Crash steps
    CrashDuringFanout   \* may a node die while a file is being fanned out?

ASSUME CatalogConstants ==
    /\ N \in Nat \ {0, 1} /\ Sizes \subseteq Nat /\ MaxFiles \in Nat
    /\ MaxCrashes \in Nat /\ CrashDuringFanout \in BOOLEAN

Node == 1 .. N

VARIABLES
    alive,        \* processes that run
    net_size, death_count,
    aware,        \* nodes that have counted the death of each dead node
    leader,       \* the index
    peer_ips,     \* ids whose address the index holds
    known_peers,  \* sv.index_data->known_peers
    fnetidx,      \* the index's list of files: sequence of [file_id, fragments]
    fs,           \* fs[n]: file containers of node n, a sequence
    fanout,       \* pointers still to be served for the newest file
    reporters,    \* nodes the new index still waits for
    reports,      \* file reports of the current session, still to be handled
    complete,     \* files whose fan-out ended
    corrupt       \* the rebuild wrote outside a fragment table

vars == <<alive, net_size, death_count, aware, leader, peer_ips, known_peers,
          fnetidx, fs, fanout, reporters, reports, complete, corrupt>>

Pred(n) == ((n - 2 + N) % N) + 1
Dead    == Node \ alive

\* What Placement needs to know of the index.
View == [me |-> leader, peer_ips |-> peer_ips, known_peers |-> known_peers,
         net_size |-> net_size[leader], death_count |-> death_count[leader]]

NoSlot == [id |-> 0, off |-> 0, size |-> 0]
Container(id, sz, cnt) ==
    [file_id |-> id, size |-> sz, total |-> cnt, slots |-> [j \in 0 .. 1 |-> NoSlot]]

\* xfilenetindex_find_file and xfileserver_find_file: first match, 0 for NULL.
PosOf(list, id) ==
    LET hits == {i \in DOMAIN list : list[i].file_id = id}
    IN IF hits = {} THEN 0 ELSE Least(hits)

Mut_AddFragmentFirst(c, frag) == [c EXCEPT !.slots[0] = frag]

\* xfileserver_add_fragment: the first slot when free, the second one otherwise.
AddFragment(c, frag) ==
    LET idx == IF c.slots[0].id = 0 THEN 0 ELSE 1
    IN [c EXCEPT !.slots[idx] = frag]

Mut_StoreFragmentNewContainer(list, c, frag) ==
    Append(list, AddFragment(Container(c.file_id, c.size, c.total), frag))

\* TYPE_STORE_FRAGMENT: the container is made on the first fragment of a file.
StoreFragment(list, c, frag) ==
    LET l == IF PosOf(list, c.file_id) = 0
               THEN Append(list, Container(c.file_id, c.size, c.total)) ELSE list
    IN [l EXCEPT ![PosOf(l, c.file_id)] = AddFragment(@, frag)]

-----------------------------------------------------------------------------
Init ==
    /\ alive       = Node
    /\ net_size    = [n \in Node |-> N]
    /\ death_count = [n \in Node |-> 0]
    /\ aware       = [d \in Node |-> {}]
    /\ leader      = N
    /\ peer_ips    = Node \ {N}
    /\ known_peers = N - 1
    /\ fnetidx     = <<>>
    /\ fs          = [n \in Node |-> <<>>]
    /\ fanout      = <<>>
    /\ reporters   = {}
    /\ reports     = <<>>
    /\ complete    = {}
    /\ corrupt     = FALSE

Serving == leader \in alive /\ reporters = {} /\ reports = <<>> /\ fanout = <<>>

Mut_NextIdOwnFragments(n) ==
    Cardinality({i \in DOMAIN fs[n] : fs[n][i].slots[0].id # 0}) + 1
NextId(n) == Len(fs[n]) + 1

\* INDEX_HANDLE_NEW_FILE: number the file, place its fragments, start the fan-out.
\* With a fragment count of 0 the division by it ends the process: Crash covers that.
NewFile(sz) ==
    LET id  == NextId(leader)
        tab == Place(View, sz)
        cnt == FragCount(sz, net_size[leader])
    IN /\ Serving
       /\ Len(fs[leader]) < MaxFiles /\ cnt # 0
       /\ fs'      = [fs EXCEPT ![leader] = Append(@, Container(id, sz, cnt))]
       /\ fnetidx' = Append(fnetidx, [file_id |-> id, fragments |-> tab])
       /\ fanout'  = [k \in 1 .. cnt * REDUNDANCY |-> tab[k - 1]]
       /\ UNCHANGED <<alive, net_size, death_count, aware, leader, peer_ips,
                      known_peers, reporters, reports, complete, corrupt>>

\* One round of INDEX_FANOUT_FRAGMENTS.  The file is the last one in the index's
\* own container list.  A dial to a dead node fails and its round has no effect.
FanoutStep ==
    LET c    == Last(fs[leader])
        p    == Head(fanout)
        n    == p.node_id
        base == c.size \div c.total
        frag == [id |-> p.fragment, off |-> base * (p.fragment - 1), size |-> p.size]
    IN /\ leader \in alive /\ fanout # <<>>
       /\ fs' = IF n \in alive THEN [fs EXCEPT ![n] = StoreFragment(@, c, frag)] ELSE fs
       /\ fanout'   = Tail(fanout)
       /\ complete' = IF Len(fanout) = 1 THEN complete \cup {c.file_id} ELSE complete
       /\ UNCHANGED <<alive, net_size, death_count, aware, leader, peer_ips,
                      known_peers, fnetidx, reporters, reports, corrupt>>

-----------------------------------------------------------------------------
(* Deaths *)

Crash(d) ==
    /\ d \in alive /\ Cardinality(Dead) < MaxCrashes
    /\ reporters = {} /\ reports = <<>>
    /\ CrashDuringFanout \/ fanout = <<>>
    /\ alive'  = alive \ {d}
    /\ fanout' = IF d = leader THEN <<>> ELSE fanout
    /\ UNCHANGED <<net_size, death_count, aware, leader, peer_ips, known_peers,
                   fnetidx, fs, reporters, reports, complete, corrupt>>

\* The first death is detected by the node that dialled the dead one, which ends up
\* subtracting 2, and named to all by its id.  Once the ring has healed the holder
\* of a backward stream is another node, and names the death it detects by the
\* peer_b.node_id it kept: a dead node, but perhaps one that died before.
Losses(n, d) == IF Dead = {d} THEN {IF d = Pred(n) THEN 2 ELSE 1} ELSE {1, 2}
Named(d)     == IF Dead = {d} THEN {d} ELSE Dead

\* n detects a death (server_healthcheck) or hears of it (xprocedure_check_peer_b);
\* the index clears the address of the node it was told of.
Learn(n, d) ==
    /\ n \in alive /\ d \in Dead /\ n \notin aware[d]
    /\ n = leader => Serving
    /\ n \notin reporters /\ (reports # <<>> => n # Head(reports).node_id)
    /\ aware'       = [aware EXCEPT ![d] = @ \cup {n}]
    /\ death_count' = [death_count EXCEPT ![n] = @ + 1]
    /\ \E loss \in Losses(n, d) : net_size' = [net_size EXCEPT ![n] = @ - loss]
    /\ \E e \in Named(d) : peer_ips' = IF n = leader THEN peer_ips \ {e} ELSE peer_ips
    /\ UNCHANGED <<alive, leader, known_peers, fnetidx, fs, fanout, reporters,
                   reports, complete, corrupt>>

-----------------------------------------------------------------------------
(* Failover *)

Mut_SaveFileIndexOnly(s, c, n) ==
    LET idx == IF PosOf(s.idx, c.file_id) # 0 THEN s.idx
               ELSE Append(s.idx, [file_id |-> c.file_id, fragments |-> EmptyTable(c.total)])
        pos == PosOf(idx, c.file_id)
        w   == Writes(idx[pos].fragments, c, n)
    IN [s EXCEPT !.idx = [idx EXCEPT ![pos].fragments = Written(@, w)]]

\* xprocedure_save_file_to_index for the container c reported by n, on the new
\* index's table and containers.
SaveFile(s, c, n) ==
    LET known == PosOf(s.idx, c.file_id) # 0
        idx   == IF known THEN s.idx
                 ELSE Append(s.idx, [file_id |-> c.file_id, fragments |-> EmptyTable(c.total)])
        own   == IF PosOf(s.own, c.file_id) # 0 THEN s.own
                 ELSE Append(s.own, Container(c.file_id, c.size, c.total))
        pos   == PosOf(idx, c.file_id)
        w     == Writes(idx[pos].fragments, c, n)
    IN [idx |-> [idx EXCEPT ![pos].fragments = Written(@, w)],
        own |-> own,
        corrupt |-> s.corrupt \/ ~InBounds(idx[pos].fragments, w)]

Mut_ReportsOfButFirst(n) ==
    [k \in 1 .. Len(fs[n]) - 1 |-> [node_id |-> n, file |-> fs[n][k + 1]]]

\* What n has to say about its files, in the order of its containers.
ReportsOf(n) == [k \in 1 .. Len(fs[n]) |-> [node_id |-> n, file |-> fs[n][k]]]

\* BEGIN_OPERATION of the node whose id equals its net_size: fresh index data, and
\* its own files are indexed before anybody reports.
Elect(i) ==
    /\ leader \in Dead /\ i \in alive
    /\ aware[leader] = alive
    /\ net_size[i] = i
    /\ leader'      = i
    /\ peer_ips'    = {}
    /\ known_peers' = 0
    /\ fnetidx'     = <<>>
    /\ reporters'   = alive \ {i}
    /\ reports'     = ReportsOf(i)
    /\ UNCHANGED <<alive, net_size, death_count, aware, fs, fanout, complete, corrupt>>

\* TYPE_REPORT_SELF opens the session of n; its files follow.
ReportSelf(n) ==
    /\ leader \in alive /\ n \in reporters /\ reports = <<>>
    /\ reporters'   = reporters \ {n}
    /\ peer_ips'    = peer_ips \cup {n}
    /\ known_peers' = known_peers + 1
    /\ reports'     = ReportsOf(n)
    /\ UNCHANGED <<alive, net_size, death_count, aware, leader, fnetidx, fs, fanout,
                   complete, corrupt>>

\* The next file of the new index itself or, with TYPE_REPORT_FILE, of the reporter.
ReportFile ==
    LET r == Head(reports)
        s == SaveFile([idx |-> fnetidx, own |-> fs[leader], corrupt |-> corrupt],
                      r.file, r.node_id)
    IN /\ leader \in alive /\ reports # <<>>
       /\ fnetidx'  = s.idx
       /\ fs'       = [fs EXCEPT ![leader] = s.own]
       /\ corrupt'  = s.corrupt
       /\ reports'  = Tail(reports)
       /\ UNCHANGED <<alive, net_size, death_count, aware, leader, peer_ips,
                      known_peers, fanout, reporters, complete>>

\* After a write outside a table the program has no defined behaviour to follow.
Next ==
    /\ ~corrupt
    /\ \/ \E sz \in Sizes : NewFile(sz)
       \/ FanoutStep
       \/ \E d \in Node : Crash(d)
       \/ \E n, d \in Node : Learn(n, d)
       \/ \E i \in Node : Elect(i) \/ ReportSelf(i)
       \/ ReportFile

Spec == Init /\ [][Next]_vars

-----------------------------------------------------------------------------
(* Properties *)

Pointer == [fragment : Nat, size : Nat, node_id : Nat]

\* Type correctness of the index's and the nodes' tables.
TypeOK ==
    /\ alive \subseteq Node /\ leader \in Node
    /\ net_size \in [Node -> Int] /\ death_count \in [Node -> 0 .. MaxCrashes]
    /\ aware \in [Node -> SUBSET Node]
    /\ peer_ips \subseteq Node /\ known_peers \in Nat
    /\ \A i \in DOMAIN fnetidx :
         /\ fnetidx[i].file_id \in Nat
         /\ \A k \in DOMAIN fnetidx[i].fragments : fnetidx[i].fragments[k] \in Pointer
    /\ \A n \in Node : \A i \in DOMAIN fs[n] :
         /\ fs[n][i].file_id \in Nat /\ fs[n][i].size \in Nat /\ fs[n][i].total \in Nat
         /\ \A j \in 0 .. 1 : fs[n][i].slots[j] \in [id : Nat, off : Nat, size : Nat]
    /\ \A i \in DOMAIN fanout : fanout[i] \in Pointer
    /\ reporters \subseteq Node
    /\ \A i \in DOMAIN reports : reports[i].node_id \in Node
    /\ corrupt \in BOOLEAN

\* What n keeps of file id: the slots of its container in use.
Kept(n, id) ==
    UNION {{fs[n][pos].slots[j] : j \in {k \in 0 .. 1 : fs[n][pos].slots[k].id # 0}} :
             pos \in {PosOf(fs[n], id)} \ {0}}

\* n holds, for the fragment a pointer names, exactly the bytes of a file of sz
\* bytes that the reader will expect there.
Holds(n, id, sz, cnt, p) ==
    [id |-> p.fragment, off |-> FragmentOffset(sz, cnt, p.fragment - 1),
     size |-> FragmentSize(sz, cnt, p.fragment - 1)] \in Kept(n, id)

Count(f) == Cardinality(DOMAIN f.fragments) \div REDUNDANCY
\* The size in the index's own container of the file: none when it has no container.
KnownSize(f) == {fs[leader][pos].size : pos \in {PosOf(fs[leader], f.file_id)} \ {0}}

\* Storage: every pointer of the index's table to a live node is backed by that
\* node's container; no later fragment has pushed it out of its two slots.
PointersAreBacked ==
    leader \in alive => \A i \in DOMAIN fnetidx :
        LET f == fnetidx[i] IN
        f.file_id \in complete => \A k \in DOMAIN f.fragments :
            f.fragments[k].node_id \in alive
              => \E sz \in KnownSize(f) :
                   Holds(f.fragments[k].node_id, f.file_id, sz, Count(f), f.fragments[k])

\* Redundancy: the two copies of a fragment are never placed on the same node.
CopiesApart ==
    leader \in alive => \A i \in DOMAIN fnetidx :
        LET t == fnetidx[i].fragments IN
        \A k \in DOMAIN t : k % 2 = 0 /\ t[k].node_id # 0 => t[k].node_id # t[k + 1].node_id

\* Reading: once the index has counted the deaths, the copy it selects of every
\* fragment of a stored file is on a live node that holds it, and the selected
\* copies together are every byte of the file.
Readable(f) ==
    \E pick \in {Selected(View, Count(f), f.fragments)}, sz \in KnownSize(f) :
       /\ \A i \in DOMAIN pick :
            /\ pick[i].fragment = i + 1
            /\ pick[i].node_id \in alive
            /\ Holds(pick[i].node_id, f.file_id, sz, Count(f), pick[i])
       /\ UNION {s.off .. s.off + s.size - 1 :
                   s \in UNION {{t \in Kept(pick[i].node_id, f.file_id) : t.id = i + 1} :
                                  i \in DOMAIN pick}} = 0 .. sz - 1
InService == Serving /\ \A d \in Dead : leader \in aware[d]
StoredFilesReadable ==
    InService => \A i \in DOMAIN fnetidx : fnetidx[i].file_id \in complete => Readable(fnetidx[i])

\* No file is forgotten: every stored file is in the table of an index in service.
NothingForgotten ==
    Serving => complete \subseteq {fnetidx[i].file_id : i \in DOMAIN fnetidx}

\* A file id names one file: fresh ids are the container count plus one, also
\* after a rebuild from reports.
IdsUnique ==
    \A i, j \in DOMAIN fnetidx : fnetidx[i].file_id = fnetidx[j].file_id => i = j

\* The container array of a node has FILE_SERVER_MAX_FILES entries and add_file does
\* not compare with it.  Fan-out, second copies and reports together give a node at
\* most one container per file, and never one for a file that the index in service
\* has no container of: no array fills up before the index's own, whose length
\* numbers the files.
OneContainerPerFile ==
    \A n \in Node : \A i, j \in DOMAIN fs[n] :
        /\ fs[n][i].file_id = fs[n][j].file_id => i = j
        /\ Serving /\ n \in alive => PosOf(fs[leader], fs[n][i].file_id) # 0

\* The three together, beyond the one death REDUNDANCY is made for: through any
\* deaths and failovers, also when a death is announced under a stale id, as long
\* as node 1 or node N lives.  With both dead a small file that only they had is
\* forgotten.
NumberingWhileSpared ==
    1 \in alive \/ N \in alive => IdsUnique /\ NothingForgotten /\ OneContainerPerFile

\* The file numbers given out by the index that has not yet distributed the file.
Unfinished == IF fanout = <<>> THEN {} ELSE {Last(fs[leader]).file_id}

\* The files a read would return.
ReadableFiles ==
    IF InService THEN {fnetidx[i].file_id : i \in {j \in DOMAIN fnetidx : Readable(fnetidx[j])}}
    ELSE {}

\* The table, the containers and the failover implement the promise of module Store:
\* the number given to a new file (fs.file_count + 1, also after the table was rebuilt
\* from reports) is that of no stored file, a file is served from the end of its
\* fan-out on, and an index in service, the first one or a successor, returns every
\* file stored before: being in service is the index's own view (it serves, and has
\* counted every death), not that files happen to be readable.
Promise == INSTANCE Store WITH
    File <- 1 .. MaxFiles, stored <- complete, pending <- Unfinished,
    open <- InService, readable <- ReadableFiles
ImplementsStore == Promise!Spec

\* An empty slot of a container (fragment id 0) is never filed as a fragment.
EmptySlotsAreNotFiled == ~corrupt
=============================================================================
