---------------------------- MODULE CatalogProofs ----------------------------
(***************************************************************************)
(* Proofs about module Catalog for every network size, every set of file   *)
(* sizes and every number of files and crashes.                            *)
(*                                                                         *)
(* CInv is the type invariant with what its own induction needs: a node's  *)
(* net_size and death_count add up to N less one for every death it        *)
(* subtracted twice for, so that the modulus of the placement loop is      *)
(* never 0; while one node is dead it is known exactly which nodes did.    *)
(* Numbering says what keeps file ids without gap and without repetition   *)
(* through failovers; it needs node 1 or node N alive.                     *)
(***************************************************************************)
EXTENDS Catalog, PlacementProofs, FiniteSetTheorems

-----------------------------------------------------------------------------
(* Types of the tables *)

Slot          == [id : Nat, off : Nat, size : Nat]
FileContainer == [file_id : Nat, size : Nat, total : Nat \ {0}, slots : [0 .. 1 -> Slot]]
Tables        == UNION {[0 .. k -> Pointer] : k \in Nat}
FileInNetwork == [file_id : Nat, fragments : Tables]
FileReport    == [node_id : Node, file : FileContainer]

Ids(list) == {list[i].file_id : i \in DOMAIN list}
Distinct(list) == \A i, j \in DOMAIN list : list[i].file_id = list[j].file_id => i = j

-----------------------------------------------------------------------------
(* Lists of files *)

\* xfilenetindex_find_file and xfileserver_find_file: NULL exactly for unknown ids.
LEMMA PosFound ==
    ASSUME NEW S, NEW list \in Seq(S), NEW id
    PROVE  /\ id \notin Ids(list) => PosOf(list, id) = 0
           /\ id \in Ids(list) => /\ PosOf(list, id) \in DOMAIN list
                                  /\ PosOf(list, id) # 0
                                  /\ list[PosOf(list, id)].file_id = id
  <1> DEFINE hits == {i \in DOMAIN list : list[i].file_id = id}
  <1>1. hits \in SUBSET Nat /\ 0 \notin hits
    OBVIOUS
  <1>2. CASE id \notin Ids(list)
    <2>1. hits = {}
      BY <1>2 DEF Ids
    <2> QED BY <1>2, <2>1 DEF PosOf
  <1>3. CASE id \in Ids(list)
    <2>1. hits # {}
      BY <1>3 DEF Ids
    <2> HIDE DEF hits
    <2>2. Least(hits) \in hits
      BY <1>1, <2>1, LeastOf
    <2>3. PosOf(list, id) = Least(hits)
      BY <2>1 DEF PosOf, hits
    <2> QED BY <1>1, <1>3, <2>2, <2>3 DEF hits
  <1> QED BY <1>2, <1>3

\* What adding an entry at the end of a list does to its ids.
LEMMA AppendFile ==
    ASSUME NEW S, NEW list \in Seq(S), NEW e \in S
    PROVE  /\ Append(list, e) \in Seq(S)
           /\ Len(Append(list, e)) = Len(list) + 1
           /\ Append(list, e)[Len(list) + 1] = e
           /\ Ids(Append(list, e)) = Ids(list) \cup {e.file_id}
           /\ Distinct(list) /\ e.file_id \notin Ids(list) => Distinct(Append(list, e))
  <1> DEFINE a == Append(list, e)
  <1>1. /\ a \in Seq(S) /\ Len(a) = Len(list) + 1
        /\ DOMAIN list = 1 .. Len(list) /\ DOMAIN a = 1 .. Len(list) + 1
        /\ \A i \in DOMAIN list : a[i] = list[i]
        /\ a[Len(list) + 1] = e /\ Len(list) \in Nat
    OBVIOUS
  <1> HIDE DEF a
  <1>2. Ids(a) = Ids(list) \cup {e.file_id}
    BY <1>1 DEF Ids
  <1>3. ASSUME Distinct(list), e.file_id \notin Ids(list) PROVE Distinct(a)
    <2> SUFFICES ASSUME NEW i \in DOMAIN a, NEW j \in DOMAIN a, a[i].file_id = a[j].file_id
                 PROVE  i = j
      BY DEF Distinct
    <2>1. CASE i \in DOMAIN list /\ j \in DOMAIN list
      BY <1>1, <1>3, <2>1 DEF Distinct
    <2>2. CASE i \in DOMAIN list /\ j = Len(list) + 1
      BY <1>1, <1>3, <2>2 DEF Ids
    <2>3. CASE j \in DOMAIN list /\ i = Len(list) + 1
      BY <1>1, <1>3, <2>3 DEF Ids
    <2>4. CASE j = Len(list) + 1 /\ i = Len(list) + 1
      BY <2>4
    <2> QED BY <1>1, <2>1, <2>2, <2>3, <2>4
  <1> QED BY <1>1, <1>2, <1>3 DEF a

\* Changing an entry but not its id leaves the ids of a list alone.
LEMMA UpdateFile ==
    ASSUME NEW S, NEW list \in Seq(S), NEW p \in DOMAIN list, NEW e \in S,
           e.file_id = list[p].file_id
    PROVE  LET l == [list EXCEPT ![p] = e] IN
           /\ l \in Seq(S) /\ Len(l) = Len(list)
           /\ \A i \in DOMAIN list : l[i].file_id = list[i].file_id
           /\ Ids(l) = Ids(list)
           /\ Distinct(list) => Distinct(l)
  <1> DEFINE l == [list EXCEPT ![p] = e]
  <1>1. /\ l \in Seq(S) /\ Len(l) = Len(list) /\ DOMAIN l = DOMAIN list
        /\ \A i \in DOMAIN list : l[i] = IF i = p THEN e ELSE list[i]
    OBVIOUS
  <1> HIDE DEF l
  <1>2. \A i \in DOMAIN list : l[i].file_id = list[i].file_id
    BY <1>1
  <1>3. Ids(l) = Ids(list)
    BY <1>1, <1>2 DEF Ids
  <1>4. Distinct(list) => Distinct(l)
    BY <1>1, <1>2 DEF Distinct
  <1> QED BY <1>1, <1>2, <1>3, <1>4 DEF l

-----------------------------------------------------------------------------
(* The operations of a node's file server *)

LEMMA FreshContainer ==
    ASSUME NEW id \in Nat, NEW sz \in Nat, NEW cnt \in Nat \ {0}
    PROVE  /\ Container(id, sz, cnt) \in FileContainer
           /\ Container(id, sz, cnt).file_id = id
           /\ Container(id, sz, cnt).total = cnt
           /\ Container(id, sz, cnt).size = sz
  BY DEF Container, FileContainer, NoSlot, Slot

LEMMA AddFragmentType ==
    ASSUME NEW c \in FileContainer, NEW frag \in Slot
    PROVE  AddFragment(c, frag) \in FileContainer /\ AddFragment(c, frag).file_id = c.file_id
  BY DEF AddFragment, FileContainer, Slot

\* TYPE_STORE_FRAGMENT adds the file's id to the node's list, and no second container.
LEMMA StoreFragmentKeeps ==
    ASSUME NEW list \in Seq(FileContainer), NEW c \in FileContainer, NEW frag \in Slot
    PROVE  LET l == StoreFragment(list, c, frag) IN
           /\ l \in Seq(FileContainer)
           /\ Ids(l) = Ids(list) \cup {c.file_id}
           /\ Distinct(list) => Distinct(l)
           /\ c.file_id \in Ids(list) =>
                /\ Len(l) = Len(list)
                /\ \A i \in DOMAIN list : l[i].file_id = list[i].file_id
  <1> DEFINE id == c.file_id
             new == Container(id, c.size, c.total)
             m == IF PosOf(list, id) = 0 THEN Append(list, new) ELSE list
             p == PosOf(m, id)
             l == [m EXCEPT ![p] = AddFragment(@, frag)]
  <1>1. StoreFragment(list, c, frag) = l
    BY DEF StoreFragment
  <1>2. id \in Nat /\ new \in FileContainer /\ new.file_id = id
    <2>1. id \in Nat /\ c.size \in Nat /\ c.total \in Nat \ {0}
      BY DEF FileContainer
    <2> HIDE DEF id
    <2> QED BY <2>1, FreshContainer
  <1> HIDE DEF new
  <1>3. /\ m \in Seq(FileContainer) /\ Ids(m) = Ids(list) \cup {id}
        /\ Distinct(list) => Distinct(m)
        /\ id \in Ids(list) => m = list
    <2>1. CASE id \in Ids(list)
      <3>1. m = list
        BY <2>1, PosFound
      <3> QED BY <2>1, <3>1
    <2>2. CASE id \notin Ids(list)
      <3>1. m = Append(list, new)
        BY <2>2, PosFound
      <3>2. /\ Append(list, new) \in Seq(FileContainer)
            /\ Ids(Append(list, new)) = Ids(list) \cup {new.file_id}
            /\ Distinct(list) /\ new.file_id \notin Ids(list) => Distinct(Append(list, new))
        BY <1>2, AppendFile
      <3> QED BY <1>2, <2>2, <3>1, <3>2
    <2> QED BY <2>1, <2>2
  <1> HIDE DEF m
  <1>4. p \in DOMAIN m /\ m[p].file_id = id
    BY <1>3, PosFound
  <1> HIDE DEF p
  <1>5. m[p] \in FileContainer
    BY <1>3, <1>4
  <1> DEFINE e == AddFragment(m[p], frag)
  <1>6. e \in FileContainer /\ e.file_id = m[p].file_id
    BY <1>5, AddFragmentType
  <1>7. l = [m EXCEPT ![p] = e]
    BY <1>3, <1>4
  <1> HIDE DEF e, l
  <1>8. LET u == [m EXCEPT ![p] = e] IN
        /\ u \in Seq(FileContainer) /\ Len(u) = Len(m)
        /\ \A i \in DOMAIN m : u[i].file_id = m[i].file_id
        /\ Ids(u) = Ids(m)
        /\ Distinct(m) => Distinct(u)
    BY <1>3, <1>4, <1>6, UpdateFile
  <1> QED BY <1>1, <1>3, <1>7, <1>8

-----------------------------------------------------------------------------
(* The rebuilding of the index's table *)

LEMMA EmptyTableType ==
    ASSUME NEW cnt \in Nat \ {0}
    PROVE  EmptyTable(cnt) \in Tables
  <1>1. cnt * REDUNDANCY - 1 \in Nat
    BY DEF REDUNDANCY
  <1>2. NullPtr \in Pointer
    BY DEF NullPtr, Pointer
  <1> QED BY <1>1, <1>2 DEF EmptyTable, Tables

LEMMA WritesType ==
    ASSUME NEW frags \in Tables, NEW c \in FileContainer, NEW n \in Node
    PROVE  \A w \in Writes(frags, c, n) : w[2] \in Pointer
  <1>1. Reported(c, n, 0) \in Pointer /\ Reported(c, n, 1) \in Pointer
    BY DEF Reported, Pointer, NullPtr, FileContainer, Slot, Node
  <1>2. frags[0] \in Pointer
    BY DEF Tables
  <1> DEFINE r0 == Reported(c, n, 0)
             r1 == Reported(c, n, 1)
             last == c.total * REDUNDANCY - 1
             place == (r1.fragment - 1) * REDUNDANCY
  <1>3. \/ Writes(frags, c, n) = {<<0, r0>>}
        \/ Writes(frags, c, n) = {<<1, r0>>}
        \/ Writes(frags, c, n) = {<<1, frags[0]>>, <<0, r0>>}
        \/ Writes(frags, c, n) = {<<0, r0>>, <<last, r1>>}
        \/ Writes(frags, c, n) = {<<place - 1, r0>>, <<place, r1>>}
    BY DEF Writes
  <1> HIDE DEF r0, r1, last, place
  <1>4. r0 \in Pointer /\ r1 \in Pointer
    BY <1>1 DEF r0, r1
  <1> QED BY <1>2, <1>3, <1>4

LEMMA WrittenType ==
    ASSUME NEW frags \in Tables, NEW writes, \A w \in writes : w[2] \in Pointer
    PROVE  Written(frags, writes) \in Tables
  <1>1. PICK k \in Nat : frags \in [0 .. k -> Pointer]
    BY DEF Tables
  <1>2. ASSUME NEW i \in 0 .. k
        PROVE  (IF \E w \in writes : w[1] = i THEN (CHOOSE w \in writes : w[1] = i)[2]
                ELSE frags[i]) \in Pointer
    BY <1>1
  <1>3. Written(frags, writes) \in [0 .. k -> Pointer]
    BY <1>1, <1>2 DEF Written
  <1> QED BY <1>3 DEF Tables

\* xprocedure_save_file_to_index adds the file's id to the table and to the index's
\* own containers, and nothing twice.
LEMMA SaveFileKeeps ==
    ASSUME NEW t, t.idx \in Seq(FileInNetwork), t.own \in Seq(FileContainer),
           NEW c \in FileContainer, NEW n \in Node
    PROVE  LET s == SaveFile(t, c, n) IN
           /\ s.idx \in Seq(FileInNetwork) /\ s.own \in Seq(FileContainer)
           /\ s.corrupt \in BOOLEAN
           /\ Ids(s.idx) = Ids(t.idx) \cup {c.file_id}
           /\ Ids(s.own) = Ids(t.own) \cup {c.file_id}
           /\ Distinct(t.idx) => Distinct(s.idx)
           /\ Distinct(t.own) => Distinct(s.own)
  <1> DEFINE id == c.file_id
             idx == t.idx
             own == t.own
             s == SaveFile(t, c, n)
             newi == [file_id |-> id, fragments |-> EmptyTable(c.total)]
             newo == Container(id, c.size, c.total)
             i == IF PosOf(idx, id) # 0 THEN idx ELSE Append(idx, newi)
             o == IF PosOf(own, id) # 0 THEN own ELSE Append(own, newo)
             p == PosOf(i, id)
             w == Writes(i[p].fragments, c, n)
             e == [i[p] EXCEPT !.fragments = Written(@, w)]
  <1>1. id \in Nat /\ c.size \in Nat /\ c.total \in Nat \ {0}
    BY DEF FileContainer
  <1>2. newi \in FileInNetwork /\ newi.file_id = id
    BY <1>1, EmptyTableType DEF FileInNetwork
  <1>3. newo \in FileContainer /\ newo.file_id = id
    <2> HIDE DEF id
    <2> QED BY <1>1, FreshContainer
  <1>4. /\ s.own = o
        /\ s.idx = [i EXCEPT ![p].fragments = Written(@, w)]
        /\ s.corrupt = (t.corrupt \/ ~InBounds(i[p].fragments, w))
    BY DEF SaveFile
  <1>13. idx \in Seq(FileInNetwork) /\ own \in Seq(FileContainer)
    OBVIOUS
  <1> HIDE DEF newi, newo, s, idx, own
  <1>5. /\ o \in Seq(FileContainer) /\ Ids(o) = Ids(own) \cup {id}
        /\ Distinct(own) => Distinct(o)
    <2>1. CASE id \in Ids(own)
      <3>1. o = own
        BY <1>13, <2>1, PosFound
      <3> QED BY <1>13, <2>1, <3>1
    <2>2. CASE id \notin Ids(own)
      <3>1. o = Append(own, newo)
        BY <1>13, <2>2, PosFound
      <3>2. /\ Append(own, newo) \in Seq(FileContainer)
            /\ Ids(Append(own, newo)) = Ids(own) \cup {newo.file_id}
            /\ Distinct(own) /\ newo.file_id \notin Ids(own) => Distinct(Append(own, newo))
        BY <1>3, <1>13, AppendFile
      <3> QED BY <1>3, <2>2, <3>1, <3>2
    <2> QED BY <2>1, <2>2
  <1>6. /\ i \in Seq(FileInNetwork) /\ Ids(i) = Ids(idx) \cup {id}
        /\ Distinct(idx) => Distinct(i)
    <2>1. CASE id \in Ids(idx)
      <3>1. i = idx
        BY <1>13, <2>1, PosFound
      <3> QED BY <1>13, <2>1, <3>1
    <2>2. CASE id \notin Ids(idx)
      <3>1. i = Append(idx, newi)
        BY <1>13, <2>2, PosFound
      <3>2. /\ Append(idx, newi) \in Seq(FileInNetwork)
            /\ Ids(Append(idx, newi)) = Ids(idx) \cup {newi.file_id}
            /\ Distinct(idx) /\ newi.file_id \notin Ids(idx) => Distinct(Append(idx, newi))
        BY <1>2, <1>13, AppendFile
      <3> QED BY <1>2, <2>2, <3>1, <3>2
    <2> QED BY <2>1, <2>2
  <1> HIDE DEF i, o
  <1>7. p \in DOMAIN i /\ i[p].file_id = id
    BY <1>6, PosFound
  <1> HIDE DEF p
  <1>8. i[p] \in FileInNetwork
    BY <1>6, <1>7
  <1>9. e \in FileInNetwork /\ e.file_id = i[p].file_id
    <2>1. i[p].fragments \in Tables
      BY <1>8 DEF FileInNetwork
    <2>2. Written(i[p].fragments, w) \in Tables
      BY <2>1, WritesType, WrittenType
    <2> HIDE DEF w
    <2> QED BY <1>8, <2>2 DEF FileInNetwork
  <1>10. s.idx = [i EXCEPT ![p] = e]
    <2> HIDE DEF w
    <2> QED BY <1>4, <1>6, <1>7, <1>8 DEF FileInNetwork
  <1>11. s.corrupt \in BOOLEAN
    BY <1>4 DEF InBounds
  <1> HIDE DEF e
  <1>12. /\ [i EXCEPT ![p] = e] \in Seq(FileInNetwork)
         /\ Ids([i EXCEPT ![p] = e]) = Ids(i)
         /\ Distinct(i) => Distinct([i EXCEPT ![p] = e])
    BY <1>6, <1>7, <1>9, UpdateFile
  <1> QED BY <1>4, <1>5, <1>6, <1>10, <1>11, <1>12 DEF s, idx, own

-----------------------------------------------------------------------------
(* Type correctness.  A node's net_size is what its count of deaths says. *)

KnownDead(n) == {d \in Node : n \in aware[d]}

TypeInv ==
    /\ alive \subseteq Node /\ leader \in Node
    /\ peer_ips \subseteq Node /\ known_peers \in Nat
    /\ fnetidx \in Seq(FileInNetwork)
    /\ fs \in [Node -> Seq(FileContainer)]
    /\ fanout \in Seq(Pointer)
    /\ reporters \subseteq Node /\ reports \in Seq(FileReport)
    /\ corrupt \in BOOLEAN
    /\ aware \in [Node -> SUBSET Node]
    /\ net_size \in [Node -> Int] /\ death_count \in [Node -> Nat]

Counts ==
    /\ Cardinality(Dead) <= MaxCrashes
    /\ \A d \in Node : d \notin aware[d] /\ (aware[d] # {} => d \in Dead)
    /\ \A n \in Node :
         /\ death_count[n] = Cardinality(KnownDead(n))
         /\ net_size[n] + death_count[n] <= N
         /\ N <= net_size[n] + 2 * death_count[n]
    /\ \A d \in Node : Dead = {d} => \A n \in Node :
         net_size[n] + death_count[n] = N - (IF d = Pred(n) /\ n \in aware[d] THEN 1 ELSE 0)

FanoutOK ==
    /\ fanout # <<>> => /\ fs[leader] # <<>> /\ leader \in alive
                        /\ reporters = {} /\ reports = <<>>
    /\ \A i \in DOMAIN fanout : fanout[i].node_id # 0 => fanout[i].fragment # 0

CInv == TypeInv /\ Counts /\ FanoutOK

LEMMA NodeFinite ==
    /\ IsFiniteSet(Node) /\ Cardinality(Node) = N
    /\ N \in Nat /\ N >= 2 /\ 1 \in Node /\ N \in Node /\ 0 \notin Node
  <1>1. N \in Nat /\ N >= 2
    BY CatalogConstants
  <1>2. IsFiniteSet(1 .. N) /\ Cardinality(1 .. N) = N
    BY <1>1, FS_Interval
  <1> QED BY <1>1, <1>2 DEF Node

\* A node counts only deaths that happened, and never its own.
LEMMA KnownDeadFew ==
    ASSUME TypeInv, \A d \in Node : d \notin aware[d] /\ (aware[d] # {} => d \in Dead),
           NEW n \in Node
    PROVE  /\ IsFiniteSet(KnownDead(n)) /\ KnownDead(n) \subseteq Dead
           /\ Cardinality(KnownDead(n)) \in 0 .. N - 1
           /\ Cardinality(KnownDead(n)) <= Cardinality(Dead)
  <1>1. IsFiniteSet(Node \ {n}) /\ Cardinality(Node \ {n}) = N - 1
    BY NodeFinite, FS_RemoveElement
  <1>2. KnownDead(n) \subseteq Dead /\ KnownDead(n) \subseteq Node \ {n}
    BY DEF KnownDead
  <1>3. IsFiniteSet(KnownDead(n)) /\ Cardinality(KnownDead(n)) <= N - 1
    BY <1>1, <1>2, FS_Subset
  <1>4. IsFiniteSet(Dead)
    BY NodeFinite, FS_Subset DEF Dead
  <1>5. Cardinality(KnownDead(n)) <= Cardinality(Dead)
    BY <1>2, <1>4, FS_Subset
  <1>6. Cardinality(KnownDead(n)) \in Nat
    BY <1>3, FS_CardinalityType
  <1> QED BY <1>2, <1>3, <1>5, <1>6, NodeFinite

LEMMA TypeInit == Init => CInv
  <1> SUFFICES ASSUME Init PROVE CInv
    OBVIOUS
  <1> USE DEF Init
  <1>1. N \in Nat /\ N >= 2 /\ N \in Node
    BY NodeFinite
  <1>2. TypeInv
    <2>1. \A S : <<>> \in Seq(S)
      OBVIOUS
    <2>2. fnetidx \in Seq(FileInNetwork) /\ fanout \in Seq(Pointer) /\ reports \in Seq(FileReport)
      BY <2>1
    <2>3. fs \in [Node -> Seq(FileContainer)]
      BY <2>1
    <2>4. alive \subseteq Node /\ leader \in Node /\ peer_ips \subseteq Node /\ known_peers \in Nat
      BY <1>1
    <2>5. reporters \subseteq Node /\ corrupt \in BOOLEAN
      OBVIOUS
    <2>6. aware \in [Node -> SUBSET Node] /\ net_size \in [Node -> Int]
          /\ death_count \in [Node -> Nat]
      BY <1>1
    <2> QED BY <2>2, <2>3, <2>4, <2>5, <2>6 DEF TypeInv
  <1>3. Dead = {} /\ \A n \in Node : KnownDead(n) = {}
    BY DEF Dead, KnownDead
  <1>4. Counts
    <2>1. Cardinality({}) = 0
      BY FS_EmptySet
    <2>2. Cardinality(Dead) <= MaxCrashes
      BY <1>3, <2>1, CatalogConstants
    <2>3. \A d \in Node : aware[d] = {}
      OBVIOUS
    <2>4. ASSUME NEW n \in Node
          PROVE  /\ death_count[n] = Cardinality(KnownDead(n))
                 /\ net_size[n] + death_count[n] <= N
                 /\ N <= net_size[n] + 2 * death_count[n]
      <3>1. death_count[n] = 0 /\ net_size[n] = N /\ KnownDead(n) = {}
        BY <1>3
      <3> QED BY <1>1, <2>1, <3>1
    <2> QED BY <1>3, <2>2, <2>3, <2>4 DEF Counts
  <1>5. FanoutOK
    BY DEF FanoutOK
  <1> QED BY <1>2, <1>4, <1>5 DEF CInv

\* What placement may rely on: the modulus net_size + death_count is not 0.
LEMMA ViewFacts ==
    ASSUME CInv
    PROVE  /\ View.known_peers \in Nat /\ View.net_size \in Int
           /\ View.death_count \in Nat /\ View.net_size + View.death_count > 0
           /\ View.net_size + View.death_count <= N
           /\ View.net_size = net_size[leader] /\ View.peer_ips = peer_ips
  <1>1. leader \in Node /\ known_peers \in Nat
        /\ net_size[leader] \in Int /\ death_count[leader] \in Nat
    BY DEF CInv, TypeInv
  <1>2. /\ net_size[leader] + death_count[leader] <= N
        /\ N <= net_size[leader] + 2 * death_count[leader]
        /\ death_count[leader] <= N - 1
    BY <1>1, KnownDeadFew DEF CInv, Counts
  <1>3. /\ View.known_peers = known_peers /\ View.net_size = net_size[leader]
        /\ View.death_count = death_count[leader] /\ View.peer_ips = peer_ips
    BY DEF View
  <1> QED BY <1>1, <1>2, <1>3, NodeFinite

LEMMA NewFileType ==
    ASSUME CInv, NEW sz \in Sizes, NewFile(sz)
    PROVE  CInv'
  <1> DEFINE id == NextId(leader)
             tab == Place(View, sz)
             cnt == FragCount(sz, net_size[leader])
             new == Container(id, sz, cnt)
             ent == [file_id |-> id, fragments |-> tab]
  <1>1. sz \in Nat /\ cnt # 0
    BY CatalogConstants DEF NewFile
  <1>2. /\ cnt \in Nat \ {0}
        /\ DOMAIN tab = 0 .. cnt * REDUNDANCY - 1
        /\ \A k \in 0 .. cnt * REDUNDANCY - 1 :
              tab[k] \in Pointer /\ (tab[k].node_id # 0 => tab[k].fragment # 0)
    <2>1. /\ cnt \in Nat \ {0}
          /\ DOMAIN tab = 0 .. cnt * REDUNDANCY - 1
          /\ \A k \in 0 .. cnt * REDUNDANCY - 1 :
                \/ tab[k] = NullPtr
                \/ /\ tab[k] = [fragment |-> (k \div REDUNDANCY) + 1,
                                size |-> FragmentSize(sz, cnt, k \div REDUNDANCY),
                                node_id |-> tab[k].node_id]
                   /\ k \div REDUNDANCY \in 0 .. cnt - 1
                   /\ tab[k].size \in Nat
                   /\ tab[k].node_id \in 1 .. View.net_size + View.death_count
                   /\ ValidNode(View, tab[k].node_id)
      BY <1>1, ViewFacts, PlaceType
    <2> HIDE DEF tab, cnt
    <2>2. ASSUME NEW k \in 0 .. cnt * REDUNDANCY - 1
          PROVE  tab[k] \in Pointer /\ (tab[k].node_id # 0 => tab[k].fragment # 0)
      <3>1. CASE tab[k] = NullPtr
        BY <3>1 DEF NullPtr, Pointer
      <3>2. CASE tab[k] # NullPtr
        <4>1. /\ tab[k] = [fragment |-> (k \div REDUNDANCY) + 1,
                           size |-> FragmentSize(sz, cnt, k \div REDUNDANCY),
                           node_id |-> tab[k].node_id]
              /\ k \div REDUNDANCY \in 0 .. cnt - 1
              /\ tab[k].size \in Nat
              /\ tab[k].node_id \in 1 .. View.net_size + View.death_count
          BY <2>1, <3>2
        <4>2. tab[k].node_id \in Nat
          BY <4>1, ViewFacts
        <4>3. tab[k].fragment = (k \div REDUNDANCY) + 1
          BY <4>1
        <4> DEFINE q == k \div REDUNDANCY
        <4>4. q \in 0 .. cnt - 1
          BY <4>1
        <4> HIDE DEF q
        <4>5. tab[k].fragment \in Nat /\ tab[k].fragment # 0
          BY <2>1, <4>3, <4>4 DEF q
        <4> QED BY <4>1, <4>2, <4>5 DEF Pointer
      <3> QED BY <3>1, <3>2
    <2> QED BY <2>1, <2>2
  <1>3. tab \in Tables
    <2>1. cnt * REDUNDANCY - 1 \in Nat
      BY <1>2 DEF REDUNDANCY
    <2>2. tab = [k \in 0 .. cnt * REDUNDANCY - 1 |-> tab[k]]
      BY <1>2 DEF Place
    <2> HIDE DEF tab, cnt
    <2> QED BY <1>2, <2>1, <2>2 DEF Tables
  <1>4. id \in Nat
    BY DEF NextId, CInv, TypeInv
  <1>5. /\ fs' = [fs EXCEPT ![leader] = Append(@, new)]
        /\ fnetidx' = Append(fnetidx, ent)
        /\ fanout' = [k \in 1 .. cnt * REDUNDANCY |-> tab[k - 1]]
        /\ UNCHANGED <<alive, net_size, death_count, aware, leader, peer_ips,
                       known_peers, reporters, reports, complete, corrupt>>
    BY DEF NewFile
  <1> HIDE DEF id, tab, cnt
  <1>6. new \in FileContainer
    BY <1>1, <1>2, <1>4, FreshContainer
  <1>7. ent \in FileInNetwork
    BY <1>3, <1>4 DEF FileInNetwork
  <1> HIDE DEF new, ent
  <1>8. /\ fanout' \in Seq(Pointer)
        /\ \A i \in DOMAIN fanout' : fanout'[i].node_id # 0 => fanout'[i].fragment # 0
    <2>1. cnt * REDUNDANCY \in Nat
      BY <1>2 DEF REDUNDANCY
    <2> DEFINE m == cnt * REDUNDANCY
    <2>2. \A k \in 1 .. m : /\ fanout'[k] \in Pointer
                            /\ fanout'[k].node_id # 0 => fanout'[k].fragment # 0
      <3> TAKE k \in 1 .. m
      <3>1. k - 1 \in 0 .. m - 1
        BY <2>1
      <3> QED BY <1>2, <1>5, <3>1
    <2> HIDE DEF m
    <2>3. fanout' \in [1 .. m -> Pointer]
      BY <1>5, <2>2 DEF m
    <2> QED BY <2>1, <2>2, <2>3 DEF m
  <1>9. TypeInv'
    <2>1. fs' \in [Node -> Seq(FileContainer)]
      BY <1>5, <1>6 DEF CInv, TypeInv
    <2>2. fnetidx' \in Seq(FileInNetwork)
      BY <1>5, <1>7 DEF CInv, TypeInv
    <2> QED BY <1>5, <1>8, <2>1, <2>2 DEF CInv, TypeInv
  <1>10. Counts'
    BY <1>5 DEF CInv, Counts, Dead, KnownDead
  <1>11. fs'[leader'] # <<>>
    <2>1. fs \in [Node -> Seq(FileContainer)] /\ leader \in Node
      BY DEF CInv, TypeInv
    <2>2. fs'[leader'] = Append(fs[leader], new)
      BY <1>5, <2>1
    <2> QED BY <1>6, <2>1, <2>2
  <1>12. leader \in alive /\ reporters = {} /\ reports = <<>>
    BY DEF NewFile, Serving
  <1> QED BY <1>5, <1>8, <1>9, <1>10, <1>11, <1>12 DEF CInv, FanoutOK

LEMMA FanoutFacts ==
    ASSUME CInv, FanoutStep
    PROVE  LET c    == Last(fs[leader])
               p    == Head(fanout)
               frag == [id |-> p.fragment, off |-> (c.size \div c.total) * (p.fragment - 1),
                        size |-> p.size]
           IN /\ Len(fs[leader]) \in Nat \ {0} /\ c = fs[leader][Len(fs[leader])]
              /\ c \in FileContainer
              /\ p \in Pointer /\ p = fanout[1]
              /\ p.node_id \in alive => frag \in Slot
              /\ fs' = IF p.node_id \in alive
                         THEN [fs EXCEPT ![p.node_id] = StoreFragment(@, c, frag)] ELSE fs
  <1> DEFINE c    == Last(fs[leader])
             p    == Head(fanout)
             frag == [id |-> p.fragment, off |-> (c.size \div c.total) * (p.fragment - 1),
                      size |-> p.size]
  <1>1. fs[leader] \in Seq(FileContainer) /\ fs[leader] # <<>>
        /\ fanout \in Seq(Pointer) /\ fanout # <<>> /\ alive \subseteq Node
    BY DEF FanoutStep, CInv, TypeInv, FanoutOK
  <1>2. Len(fs[leader]) \in Nat \ {0} /\ c = fs[leader][Len(fs[leader])] /\ c \in FileContainer
    BY <1>1 DEF Last
  <1>3. p \in Pointer /\ p = fanout[1] /\ 1 \in DOMAIN fanout
    BY <1>1
  <1>4. ASSUME p.node_id \in alive PROVE frag \in Slot
    <2>1. p.node_id # 0
      BY <1>1, <1>4, NodeFinite
    <2>2. p.fragment # 0
      BY <1>3, <2>1 DEF CInv, FanoutOK
    <2>3. p.fragment \in Nat /\ p.size \in Nat
      BY <1>3 DEF Pointer
    <2>4. c.size \in Nat /\ c.total \in Nat \ {0}
      BY <1>2 DEF FileContainer
    <2> HIDE DEF c, p
    <2>5. c.size \div c.total \in Nat
      BY <2>4, DivisionSplit
    <2>6. p.fragment - 1 \in Nat
      BY <2>2, <2>3
    <2>7. (c.size \div c.total) * (p.fragment - 1) \in Nat
      BY <2>5, <2>6, ProductNat
    <2> QED BY <2>3, <2>7 DEF Slot
  <1>5. fs' = IF p.node_id \in alive
                THEN [fs EXCEPT ![p.node_id] = StoreFragment(@, c, frag)] ELSE fs
    BY DEF FanoutStep
  <1> QED BY <1>2, <1>3, <1>4, <1>5

LEMMA FanoutType ==
    ASSUME CInv, FanoutStep
    PROVE  CInv'
  <1> DEFINE c    == Last(fs[leader])
             p    == Head(fanout)
             frag == [id |-> p.fragment, off |-> (c.size \div c.total) * (p.fragment - 1),
                      size |-> p.size]
  <1>1. /\ c \in FileContainer
        /\ Len(fs[leader]) \in Nat \ {0} /\ c = fs[leader][Len(fs[leader])]
        /\ p.node_id \in alive => frag \in Slot
        /\ fs' = IF p.node_id \in alive
                   THEN [fs EXCEPT ![p.node_id] = StoreFragment(@, c, frag)] ELSE fs
    BY FanoutFacts
  <1>2. /\ fanout # <<>> /\ fanout' = Tail(fanout)
        /\ UNCHANGED <<alive, net_size, death_count, aware, leader, peer_ips,
                       known_peers, fnetidx, reporters, reports, corrupt>>
    BY DEF FanoutStep
  <1> HIDE DEF c, p, frag
  <1>3. /\ fs' \in [Node -> Seq(FileContainer)] /\ fs'[leader] # <<>>
    <2>1. CASE p.node_id \in alive
      <3> DEFINE n == p.node_id
                 l == StoreFragment(fs[n], c, frag)
      <3>1. n \in Node /\ fs[n] \in Seq(FileContainer)
        BY <2>1 DEF CInv, TypeInv
      <3>2. /\ l \in Seq(FileContainer)
            /\ c.file_id \in Ids(fs[n]) => Len(l) = Len(fs[n])
        BY <1>1, <2>1, <3>1, StoreFragmentKeeps
      <3>3. fs' = [fs EXCEPT ![n] = l]
        BY <1>1, <2>1
      <3> HIDE DEF n, l
      <3>4. fs' \in [Node -> Seq(FileContainer)]
        BY <3>2, <3>3 DEF CInv, TypeInv
      <3>5. CASE n = leader
        <4>1. c.file_id \in Ids(fs[n])
          BY <1>1, <3>1, <3>5 DEF Ids
        <4>2. Len(fs'[leader]) = Len(fs[leader])
          BY <3>1, <3>2, <3>3, <3>5, <4>1 DEF CInv, TypeInv
        <4>3. fs'[leader] \in Seq(FileContainer)
          BY <3>4 DEF CInv, TypeInv
        <4> QED BY <1>1, <3>4, <4>2, <4>3
      <3>6. CASE n # leader
        BY <1>1, <3>1, <3>3, <3>4, <3>6 DEF CInv, TypeInv
      <3> QED BY <3>5, <3>6
    <2>2. CASE p.node_id \notin alive
      <3>1. fs' = fs
        BY <1>1, <2>2
      <3>2. fs[leader] \in Seq(FileContainer)
        BY DEF CInv, TypeInv
      <3> QED BY <1>1, <3>1, <3>2 DEF CInv, TypeInv
    <2> QED BY <2>1, <2>2
  <1>4. fanout' \in Seq(Pointer)
        /\ \A i \in DOMAIN fanout' : fanout'[i].node_id # 0 => fanout'[i].fragment # 0
    <2>1. fanout \in Seq(Pointer)
      BY DEF CInv, TypeInv
    <2>2. fanout' \in Seq(Pointer) /\ \A i \in DOMAIN fanout' :
            i + 1 \in DOMAIN fanout /\ fanout'[i] = fanout[i + 1]
      BY <1>2, <2>1
    <2> QED BY <2>2 DEF CInv, FanoutOK
  <1>5. TypeInv'
    BY <1>2, <1>3, <1>4 DEF CInv, TypeInv
  <1>6. Counts'
    BY <1>2 DEF CInv, Counts, Dead, KnownDead
  <1> QED BY <1>2, <1>3, <1>4, <1>5, <1>6 DEF CInv, FanoutOK

LEMMA CrashType ==
    ASSUME CInv, NEW d \in Node, Crash(d)
    PROVE  CInv'
  <1>1. /\ d \in alive /\ Cardinality(Dead) < MaxCrashes /\ alive' = alive \ {d}
        /\ fanout' = IF d = leader THEN <<>> ELSE fanout
        /\ UNCHANGED <<net_size, death_count, aware, leader, peer_ips, known_peers,
                       fnetidx, fs, reporters, reports, complete, corrupt>>
    BY DEF Crash
  <1>2. fanout' \in Seq(Pointer) /\ FanoutOK'
    <2>1. CASE d = leader
      <3>1. fanout' = <<>>
        BY <1>1, <2>1
      <3> QED BY <3>1 DEF FanoutOK
    <2>2. CASE d # leader
      BY <1>1, <2>2 DEF CInv, TypeInv, FanoutOK
    <2> QED BY <2>1, <2>2
  <1>3. TypeInv'
    BY <1>1, <1>2 DEF CInv, TypeInv
  <1>4. Dead' = Dead \cup {d} /\ d \notin Dead /\ IsFiniteSet(Dead)
    <2>1. IsFiniteSet(Dead)
      BY NodeFinite, FS_Subset DEF Dead
    <2> QED BY <1>1, <2>1 DEF Dead
  <1>5. Cardinality(Dead') = Cardinality(Dead) + 1 /\ Cardinality(Dead) \in Nat
    BY <1>4, FS_AddElement, FS_CardinalityType
  <1>6. Cardinality(Dead') <= MaxCrashes
    BY <1>1, <1>5, CatalogConstants
  <1>7. \A n \in Node : KnownDead(n)' = KnownDead(n)
    BY <1>1 DEF KnownDead
  <1>8. ASSUME NEW e \in Node, Dead' = {e}, NEW n \in Node
        PROVE  net_size'[n] + death_count'[n]
                 = N - (IF e = Pred(n) /\ n \in aware'[e] THEN 1 ELSE 0)
    <2>1. Dead = {} /\ e = d
      BY <1>4, <1>8
    <2>2. \A x \in Node : aware[x] = {}
      BY <2>1 DEF CInv, Counts
    <2>3. KnownDead(n) = {} /\ n \notin aware'[e]
      BY <1>1, <2>2 DEF KnownDead
    <2>4. /\ death_count[n] = 0 /\ net_size[n] + death_count[n] <= N
          /\ N <= net_size[n] + 2 * death_count[n]
      BY <2>3, FS_EmptySet DEF CInv, Counts
    <2>5. net_size[n] \in Int /\ N \in Nat
      BY NodeFinite DEF CInv, TypeInv
    <2> QED BY <1>1, <2>3, <2>4, <2>5
  <1>9. Counts'
    <2>1. \A x \in Node : x \notin aware'[x] /\ (aware'[x] # {} => x \in Dead')
      BY <1>1, <1>4 DEF CInv, Counts
    <2>2. \A n \in Node : /\ death_count'[n] = Cardinality(KnownDead(n)')
                          /\ net_size'[n] + death_count'[n] <= N
                          /\ N <= net_size'[n] + 2 * death_count'[n]
      BY <1>1, <1>7 DEF CInv, Counts
    <2>3. \A n \in Node : Pred(n)' = Pred(n)
      BY DEF Pred
    <2> QED BY <1>6, <1>8, <2>1, <2>2, <2>3 DEF Counts
  <1> QED BY <1>2, <1>3, <1>9 DEF CInv

LEMMA LearnType ==
    ASSUME CInv, NEW n \in Node, NEW d \in Node, Learn(n, d)
    PROVE  CInv'
  <1>1. /\ n \in alive /\ d \in Dead /\ n \notin aware[d]
        /\ aware' = [aware EXCEPT ![d] = @ \cup {n}]
        /\ death_count' = [death_count EXCEPT ![n] = @ + 1]
        /\ peer_ips' \subseteq peer_ips
        /\ UNCHANGED <<alive, leader, known_peers, fnetidx, fs, fanout, reporters,
                       reports, complete, corrupt>>
    BY DEF Learn
  <1>2. PICK loss \in Losses(n, d) : net_size' = [net_size EXCEPT ![n] = @ - loss]
    BY DEF Learn
  <1>3. loss \in {1, 2} /\ (Dead = {d} => loss = IF d = Pred(n) THEN 2 ELSE 1)
    BY DEF Losses
  <1>4. n # d /\ Dead' = Dead
    BY <1>1 DEF Dead
  <1>5. aware' \in [Node -> SUBSET Node]
        /\ \A e \in Node : e \notin aware'[e] /\ (aware'[e] # {} => e \in Dead)
    BY <1>1, <1>4 DEF CInv, TypeInv, Counts
  <1>6. /\ KnownDead(n)' = KnownDead(n) \cup {d} /\ d \notin KnownDead(n)
        /\ \A k \in Node \ {n} : KnownDead(k)' = KnownDead(k)
    BY <1>1 DEF CInv, TypeInv, KnownDead
  <1>7. IsFiniteSet(KnownDead(n)) /\ Cardinality(KnownDead(n)) \in Nat
    BY KnownDeadFew DEF CInv, Counts
  <1>8. Cardinality(KnownDead(n)') = Cardinality(KnownDead(n)) + 1
    BY <1>6, <1>7, FS_AddElement
  <1>9. /\ net_size \in [Node -> Int] /\ death_count \in [Node -> Nat] /\ N \in Nat
        /\ aware \in [Node -> SUBSET Node]
    BY NodeFinite DEF CInv, TypeInv
  <1>10. /\ net_size'[n] = net_size[n] - loss /\ death_count'[n] = death_count[n] + 1
         /\ \A k \in Node \ {n} : net_size'[k] = net_size[k] /\ death_count'[k] = death_count[k]
         /\ net_size' \in [Node -> Int] /\ death_count' \in [Node -> Nat]
    BY <1>1, <1>2, <1>3, <1>9
  <1>11. TypeInv'
    BY <1>1, <1>5, <1>10 DEF CInv, TypeInv
  <1>12. ASSUME NEW k \in Node
         PROVE  /\ death_count'[k] = Cardinality(KnownDead(k)')
                /\ net_size'[k] + death_count'[k] <= N
                /\ N <= net_size'[k] + 2 * death_count'[k]
    <2>1. /\ death_count[k] = Cardinality(KnownDead(k))
          /\ net_size[k] + death_count[k] <= N
          /\ N <= net_size[k] + 2 * death_count[k]
      BY DEF CInv, Counts
    <2>2. CASE k = n
      BY <1>3, <1>8, <1>9, <1>10, <2>1, <2>2
    <2>3. CASE k # n
      <3>1. KnownDead(k)' = KnownDead(k)
        BY <1>6, <2>3
      <3> QED BY <1>10, <2>1, <2>3, <3>1
    <2> QED BY <2>2, <2>3
  <1>13. ASSUME NEW e \in Node, Dead' = {e}, NEW k \in Node
         PROVE  net_size'[k] + death_count'[k]
                  = N - (IF e = Pred(k) /\ k \in aware'[e] THEN 1 ELSE 0)
    <2>1. e = d /\ Dead = {d}
      BY <1>1, <1>4, <1>13
    <2>2. net_size[k] + death_count[k]
            = N - (IF d = Pred(k) /\ k \in aware[d] THEN 1 ELSE 0)
      BY <2>1 DEF CInv, Counts
    <2>3. CASE k = n
      <3>1. n \in aware'[d] /\ n \notin aware[d]
        BY <1>1, <1>9
      <3> QED BY <1>3, <1>9, <1>10, <2>1, <2>2, <2>3, <3>1
    <2>4. CASE k # n
      <3>1. k \in aware'[d] <=> k \in aware[d]
        BY <1>1, <1>9, <2>4
      <3> QED BY <1>10, <2>1, <2>2, <2>4, <3>1
    <2> QED BY <2>3, <2>4
  <1>14. Counts'
    <2>1. Cardinality(Dead') <= MaxCrashes
      BY <1>4 DEF CInv, Counts
    <2>2. \A k \in Node : Pred(k)' = Pred(k)
      BY DEF Pred
    <2> QED BY <1>4, <1>5, <1>12, <1>13, <2>1, <2>2 DEF Counts
  <1>15. FanoutOK'
    BY <1>1 DEF CInv, FanoutOK
  <1> QED BY <1>11, <1>14, <1>15 DEF CInv

LEMMA ReportsOfFacts ==
    ASSUME TypeInv, NEW n \in Node
    PROVE  /\ ReportsOf(n) \in Seq(FileReport) /\ Len(ReportsOf(n)) = Len(fs[n])
           /\ \A k \in DOMAIN ReportsOf(n) : /\ ReportsOf(n)[k].node_id = n
                                           /\ ReportsOf(n)[k].file = fs[n][k]
           /\ DOMAIN ReportsOf(n) = DOMAIN fs[n]
  <1> DEFINE m == Len(fs[n])
             r == ReportsOf(n)
  <1>1. fs[n] \in Seq(FileContainer) /\ m \in Nat /\ DOMAIN fs[n] = 1 .. m
    BY DEF TypeInv
  <1>2. \A k \in 1 .. m : fs[n][k] \in FileContainer
    BY <1>1
  <1>3. r = [k \in 1 .. m |-> [node_id |-> n, file |-> fs[n][k]]]
    BY DEF ReportsOf
  <1> HIDE DEF m, r
  <1>4. r \in [1 .. m -> FileReport]
    BY <1>2, <1>3 DEF FileReport
  <1>5. r \in Seq(FileReport) /\ Len(r) = m /\ DOMAIN r = 1 .. m
    BY <1>1, <1>4
  <1> QED BY <1>1, <1>3, <1>5 DEF m, r

LEMMA ElectType ==
    ASSUME CInv, NEW i \in Node, Elect(i)
    PROVE  CInv'
  <1>1. /\ leader' = i /\ peer_ips' = {} /\ known_peers' = 0 /\ fnetidx' = <<>>
        /\ reporters' = alive \ {i} /\ reports' = ReportsOf(i)
        /\ leader \in Dead
        /\ UNCHANGED <<alive, net_size, death_count, aware, fs, fanout, complete, corrupt>>
    BY DEF Elect
  <1>2. reports' \in Seq(FileReport)
    BY <1>1, ReportsOfFacts DEF CInv
  <1>3. fnetidx' \in Seq(FileInNetwork)
    BY <1>1
  <1>4. TypeInv'
    BY <1>1, <1>2, <1>3 DEF CInv, TypeInv
  <1>5. Counts'
    BY <1>1 DEF CInv, Counts, Dead, KnownDead
  <1>6. fanout = <<>>
    BY <1>1 DEF CInv, FanoutOK, Dead
  <1> QED BY <1>1, <1>4, <1>5, <1>6 DEF CInv, FanoutOK

LEMMA ReportSelfType ==
    ASSUME CInv, NEW n \in Node, ReportSelf(n)
    PROVE  CInv'
  <1>1. /\ reporters' = reporters \ {n} /\ peer_ips' = peer_ips \cup {n}
        /\ known_peers' = known_peers + 1 /\ reports' = ReportsOf(n)
        /\ UNCHANGED <<alive, net_size, death_count, aware, leader, fnetidx, fs, fanout,
                       complete, corrupt>>
    BY DEF ReportSelf
  <1>2. reports' \in Seq(FileReport)
    BY <1>1, ReportsOfFacts DEF CInv
  <1>3. TypeInv'
    BY <1>1, <1>2 DEF CInv, TypeInv
  <1>4. Counts'
    BY <1>1 DEF CInv, Counts, Dead, KnownDead
  <1>5. fanout = <<>>
    BY DEF CInv, FanoutOK, ReportSelf
  <1> QED BY <1>1, <1>3, <1>4, <1>5 DEF CInv, FanoutOK

\* One TYPE_REPORT_FILE adds the file to the index's two lists and to nothing else.
LEMMA ReportFileFacts ==
    ASSUME CInv, ReportFile
    PROVE  LET id == Head(reports).file.file_id IN
           /\ Head(reports) = reports[1]
           /\ fnetidx' \in Seq(FileInNetwork) /\ fs' \in [Node -> Seq(FileContainer)]
           /\ corrupt' \in BOOLEAN
           /\ Ids(fnetidx') = Ids(fnetidx) \cup {id}
           /\ Ids(fs'[leader]) = Ids(fs[leader]) \cup {id}
           /\ Distinct(fnetidx) => Distinct(fnetidx')
           /\ Distinct(fs[leader]) => Distinct(fs'[leader])
           /\ \A n \in Node \ {leader} : fs'[n] = fs[n]
  <1> DEFINE r == Head(reports)
             s == SaveFile([idx |-> fnetidx, own |-> fs[leader], corrupt |-> corrupt],
                           r.file, r.node_id)
  <1>1. /\ reports # <<>> /\ fnetidx' = s.idx /\ corrupt' = s.corrupt
        /\ fs' = [fs EXCEPT ![leader] = s.own]
    BY DEF ReportFile
  <1>2. r \in FileReport /\ r = reports[1]
    BY <1>1 DEF CInv, TypeInv
  <1>3. /\ fnetidx \in Seq(FileInNetwork) /\ fs[leader] \in Seq(FileContainer)
        /\ corrupt \in BOOLEAN /\ r.file \in FileContainer /\ r.node_id \in Node
        /\ leader \in Node
    BY <1>2 DEF CInv, TypeInv, FileReport
  <1> HIDE DEF r
  <1>4. /\ s.idx \in Seq(FileInNetwork) /\ s.own \in Seq(FileContainer)
        /\ s.corrupt \in BOOLEAN
        /\ Ids(s.idx) = Ids(fnetidx) \cup {r.file.file_id}
        /\ Ids(s.own) = Ids(fs[leader]) \cup {r.file.file_id}
        /\ Distinct(fnetidx) => Distinct(s.idx)
        /\ Distinct(fs[leader]) => Distinct(s.own)
    <2> DEFINE t == [idx |-> fnetidx, own |-> fs[leader], corrupt |-> corrupt]
               c == r.file
               n == r.node_id
    <2>1. /\ t.idx \in Seq(FileInNetwork) /\ t.own \in Seq(FileContainer)
          /\ c \in FileContainer /\ n \in Node
          /\ t.idx = fnetidx /\ t.own = fs[leader]
      BY <1>3
    <2>2. s = SaveFile(t, c, n)
      OBVIOUS
    <2> HIDE DEF t, c, n, s
    <2>3. LET u == SaveFile(t, c, n) IN
          /\ u.idx \in Seq(FileInNetwork) /\ u.own \in Seq(FileContainer)
          /\ u.corrupt \in BOOLEAN
          /\ Ids(u.idx) = Ids(t.idx) \cup {c.file_id}
          /\ Ids(u.own) = Ids(t.own) \cup {c.file_id}
          /\ Distinct(t.idx) => Distinct(u.idx)
          /\ Distinct(t.own) => Distinct(u.own)
      BY <2>1, SaveFileKeeps
    <2> QED BY <2>1, <2>2, <2>3 DEF c
  <1> HIDE DEF s
  <1>5. fs' \in [Node -> Seq(FileContainer)] /\ fs'[leader] = s.own
        /\ \A n \in Node \ {leader} : fs'[n] = fs[n]
    BY <1>1, <1>3, <1>4 DEF CInv, TypeInv
  <1> QED BY <1>1, <1>2, <1>4, <1>5 DEF r

LEMMA ReportFileType ==
    ASSUME CInv, ReportFile
    PROVE  CInv'
  <1>1. /\ reports # <<>> /\ reports' = Tail(reports)
        /\ UNCHANGED <<alive, net_size, death_count, aware, leader, peer_ips,
                       known_peers, fanout, reporters, complete>>
    BY DEF ReportFile
  <1>2. /\ fnetidx' \in Seq(FileInNetwork) /\ fs' \in [Node -> Seq(FileContainer)]
        /\ corrupt' \in BOOLEAN
    BY ReportFileFacts
  <1>3. reports' \in Seq(FileReport)
    BY <1>1 DEF CInv, TypeInv
  <1>4. TypeInv'
    BY <1>1, <1>2, <1>3 DEF CInv, TypeInv
  <1>5. Counts'
    BY <1>1 DEF CInv, Counts, Dead, KnownDead
  <1>6. fanout = <<>>
    BY <1>1 DEF CInv, FanoutOK
  <1> QED BY <1>1, <1>4, <1>5, <1>6 DEF CInv, FanoutOK

LEMMA TypeStep == CInv /\ [Next]_vars => CInv'
  <1> SUFFICES ASSUME CInv, [Next]_vars PROVE CInv'
    OBVIOUS
  <1>1. ASSUME NEW sz \in Sizes, NewFile(sz) PROVE CInv'
    BY <1>1, NewFileType
  <1>2. CASE FanoutStep
    BY <1>2, FanoutType
  <1>3. ASSUME NEW d \in Node, Crash(d) PROVE CInv'
    BY <1>3, CrashType
  <1>4. ASSUME NEW n \in Node, NEW d \in Node, Learn(n, d) PROVE CInv'
    BY <1>4, LearnType
  <1>5. ASSUME NEW i \in Node, Elect(i) PROVE CInv'
    BY <1>5, ElectType
  <1>6. ASSUME NEW i \in Node, ReportSelf(i) PROVE CInv'
    BY <1>6, ReportSelfType
  <1>7. CASE ReportFile
    BY <1>7, ReportFileType
  <1>8. CASE UNCHANGED vars
    BY <1>8 DEF vars, CInv, TypeInv, Counts, FanoutOK, Dead, KnownDead
  <1> QED BY <1>1, <1>2, <1>3, <1>4, <1>5, <1>6, <1>7, <1>8 DEF Next

LEMMA TypeInvariance == Spec => []CInv
  BY TypeInit, TypeStep, PTL DEF Spec

LEMMA TypeImplied == CInv => TypeOK
  <1> SUFFICES ASSUME CInv PROVE TypeOK
    OBVIOUS
  <1>1. death_count \in [Node -> 0 .. MaxCrashes]
    <2>1. ASSUME NEW n \in Node PROVE death_count[n] \in 0 .. MaxCrashes
      <3>1. /\ Cardinality(KnownDead(n)) \in 0 .. N - 1
            /\ Cardinality(KnownDead(n)) <= Cardinality(Dead)
        BY KnownDeadFew DEF CInv, Counts
      <3>2. Cardinality(Dead) \in Nat
        BY NodeFinite, FS_Subset, FS_CardinalityType DEF Dead
      <3>3. death_count[n] = Cardinality(KnownDead(n)) /\ Cardinality(Dead) <= MaxCrashes
        BY DEF CInv, Counts
      <3> QED BY <3>1, <3>2, <3>3, CatalogConstants, NodeFinite
    <2>2. death_count = [n \in Node |-> death_count[n]]
      BY DEF CInv, TypeInv
    <2> QED BY <2>1, <2>2
  <1>2. ASSUME NEW i \in DOMAIN fnetidx
        PROVE  /\ fnetidx[i].file_id \in Nat
               /\ \A k \in DOMAIN fnetidx[i].fragments : fnetidx[i].fragments[k] \in Pointer
    <2>1. fnetidx[i] \in FileInNetwork
      BY DEF CInv, TypeInv
    <2>2. fnetidx[i].file_id \in Nat /\ fnetidx[i].fragments \in Tables
      BY <2>1 DEF FileInNetwork
    <2> QED BY <2>2 DEF Tables
  <1>3. ASSUME NEW n \in Node, NEW i \in DOMAIN fs[n]
        PROVE  /\ fs[n][i].file_id \in Nat /\ fs[n][i].size \in Nat /\ fs[n][i].total \in Nat
               /\ \A j \in 0 .. 1 : fs[n][i].slots[j] \in [id : Nat, off : Nat, size : Nat]
    <2>1. fs[n][i] \in FileContainer
      BY DEF CInv, TypeInv
    <2> QED BY <2>1 DEF FileContainer, Slot
  <1>4. \A i \in DOMAIN fanout : fanout[i] \in Pointer
    BY DEF CInv, TypeInv
  <1>5. \A i \in DOMAIN reports : reports[i].node_id \in Node
    <2>1. \A i \in DOMAIN reports : reports[i] \in FileReport
      BY DEF CInv, TypeInv
    <2> QED BY <2>1 DEF FileReport
  <1>6. net_size \in [Node -> Int]
    BY DEF CInv, TypeInv
  <1> QED BY <1>1, <1>2, <1>3, <1>4, <1>5, <1>6 DEF CInv, TypeInv, TypeOK

\* Every table the index or a node keeps stays well typed, whatever the sizes, deaths
\* and failovers: offsets and fragment numbers are natural, death counters never
\* exceed the deaths.
THEOREM CatalogTypeCorrect == Spec => []TypeOK
  BY TypeInvariance, TypeImplied, PTL

-----------------------------------------------------------------------------
(* Numbering.  Node 1 hears of every file first, and node N, while it lives, is
   the index: as long as one of the two lives, the index's containers are
   numbered 1, 2, ... without a gap, through any number of failovers. *)

Spared     == 1 \in alive \/ N \in alive
Told       == {reports[i].file.file_id : i \in DOMAIN reports}
Rebuilding == reports # <<>> \/ reporters # {}

\* Out of a rebuild: the table, the index's containers and the numbers up to the
\* count of those containers are the same ids, and no survivor has another one.
Steady ==
    LET all == 1 .. Len(fs[leader]) IN
    /\ Ids(fs[leader]) = all /\ Ids(fnetidx) = all /\ complete \subseteq all
    /\ \A n \in alive : Ids(fs[n]) \subseteq all
    /\ fanout # <<>> => fs[leader][Len(fs[leader])].file_id = Len(fs[leader])

\* Node 1 has as many files as the index in service, or one less when its fragment
\* of the newest file is the next to be sent.
Abreast ==
    LET m == Len(fs[leader]) IN
    /\ leader = 1 \/ 1 \in peer_ips
    /\ fanout = <<>> => Len(fs[1]) = m
    /\ fanout # <<>> => Len(fs[1]) = m \/ (Len(fs[1]) = m - 1 /\ Head(fanout).node_id = 1)

\* Node 1's files are numbered without a gap and include every file that is stored
\* and every file another follower has heard of.
NodeOne ==
    /\ Ids(fs[1]) = 1 .. Len(fs[1]) /\ complete \subseteq Ids(fs[1])
    /\ \A n \in alive \ {leader} : Ids(fs[n]) \subseteq Ids(fs[1])
    /\ leader \in alive /\ ~Rebuilding => Abreast

\* During a rebuild: what a finished or current reporter has is filed or told.
Rebuild ==
    /\ N \notin alive /\ leader \in alive /\ reporters \subseteq alive
    /\ Ids(fs[leader]) \subseteq Ids(fs[1]) /\ 1 \in reporters \cup peer_ips \cup {leader}
    /\ Ids(fnetidx) \subseteq Ids(fs[leader]) /\ Told \subseteq Ids(fs[1])
    /\ \A n \in alive \ reporters : Ids(fs[n]) \subseteq Ids(fnetidx) \cup Told

Numbering ==
    /\ \A n \in Node : Distinct(fs[n])
    /\ Distinct(fnetidx)
    /\ N \in alive => leader = N
    /\ 1 \in alive => NodeOne
    /\ Rebuilding => Rebuild
    /\ ~Rebuilding => Steady

\* As many containers as numbers.
LEMMA NumberedLength ==
    ASSUME NEW list \in Seq(FileContainer), Distinct(list), NEW m \in Nat,
           Ids(list) = 1 .. m
    PROVE  Len(list) = m
  <1> DEFINE len == Len(list)
             f == [i \in 1 .. len |-> list[i].file_id]
             g == [k \in 1 .. m |-> CHOOSE i \in 1 .. len : list[i].file_id = k]
  <1>1. len \in Nat /\ DOMAIN list = 1 .. len
    OBVIOUS
  <1> HIDE DEF len
  <1>2. /\ IsFiniteSet(1 .. len) /\ Cardinality(1 .. len) = len
        /\ IsFiniteSet(1 .. m) /\ Cardinality(1 .. m) = m
    <2>1. \A a, b \in Int : IsFiniteSet(a .. b) /\ Cardinality(a .. b) = IF a > b THEN 0 ELSE b - a + 1
      BY FS_Interval
    <2> QED BY <1>1, <2>1
  <1>3. f \in [1 .. len -> 1 .. m]
    BY <1>1 DEF Ids
  <1>4. ~(m < len)
    <2> SUFFICES ASSUME m < len PROVE FALSE
      OBVIOUS
    <2> HIDE DEF f
    <2>1. PICK x, y \in 1 .. len : x # y /\ f[x] = f[y]
      BY <1>2, <1>3, FS_PigeonHole
    <2>2. list[x].file_id = list[y].file_id
      BY <2>1 DEF f
    <2> QED BY <1>1, <2>1, <2>2 DEF Distinct
  <1>5. \A k \in 1 .. m : g[k] \in 1 .. len /\ list[g[k]].file_id = k
    <2> TAKE k \in 1 .. m
    <2>1. \E i \in 1 .. len : list[i].file_id = k
      BY <1>1 DEF Ids
    <2> QED BY <2>1
  <1>6. g \in [1 .. m -> 1 .. len]
    BY <1>5
  <1>7. ~(len < m)
    <2> SUFFICES ASSUME len < m PROVE FALSE
      OBVIOUS
    <2> HIDE DEF g
    <2>1. PICK x, y \in 1 .. m : x # y /\ g[x] = g[y]
      BY <1>2, <1>6, FS_PigeonHole
    <2> QED BY <1>5, <2>1
  <1> HIDE DEF f, g
  <1>8. len = m
    BY <1>1, <1>4, <1>7
  <1> QED BY <1>8 DEF len

LEMMA ListFacts ==
    ASSUME TypeInv
    PROVE  /\ leader \in Node /\ alive \subseteq Node
           /\ \A n \in Node : fs[n] \in Seq(FileContainer) /\ Len(fs[n]) \in Nat
  BY DEF TypeInv

LEMMA NumberingInit == Init => Numbering
  <1> SUFFICES ASSUME Init PROVE Numbering
    OBVIOUS
  <1>1. /\ leader = N /\ fnetidx = <<>> /\ reports = <<>> /\ reporters = {} /\ fanout = <<>>
        /\ complete = {} /\ peer_ips = Node \ {N} /\ alive = Node
        /\ \A n \in Node : fs[n] = <<>>
    BY DEF Init
  <1>2. N \in Node /\ 1 \in Node /\ 1 # N /\ Len(<<>>) = 0 /\ Ids(<<>>) = {} /\ Distinct(<<>>)
    BY NodeFinite DEF Ids, Distinct
  <1>3. 1 .. 0 = {}
    OBVIOUS
  <1>4. ~Rebuilding
    BY <1>1 DEF Rebuilding
  <1>5. Steady
    BY <1>1, <1>2, <1>3 DEF Steady
  <1>6. NodeOne
    <2>1. Abreast
      BY <1>1, <1>2 DEF Abreast
    <2>2. fs[1] = <<>> /\ \A n \in alive : fs[n] = <<>>
      BY <1>1, <1>2
    <2> QED BY <1>1, <1>2, <1>3, <2>1, <2>2 DEF NodeOne
  <1> QED BY <1>1, <1>2, <1>4, <1>5, <1>6 DEF Numbering

\* The end of a rebuild: node 1 has reported, so the index is abreast of it.
RebuildOver ==
    /\ CInv /\ 1 \in alive /\ Rebuild /\ ~Rebuilding /\ fanout = <<>>
    /\ \A n \in Node : Distinct(fs[n])
    /\ Ids(fs[1]) = 1 .. Len(fs[1]) /\ complete \subseteq Ids(fs[1])

LEMMA RebuildEnds == RebuildOver => Steady /\ Abreast
  <1> SUFFICES ASSUME RebuildOver PROVE Steady /\ Abreast
    OBVIOUS
  <1> USE DEF RebuildOver
  <1>1. /\ leader \in Node /\ fs[leader] \in Seq(FileContainer) /\ 1 \in Node
        /\ Len(fs[1]) \in Nat
    BY ListFacts, NodeFinite DEF CInv
  <1>2. reporters = {} /\ Told = {}
    BY DEF Rebuilding, Told
  <1>3. /\ Ids(fs[leader]) = Ids(fnetidx) /\ Ids(fs[leader]) = Ids(fs[1])
        /\ \A n \in alive : Ids(fs[n]) \subseteq Ids(fnetidx)
    BY <1>2 DEF Rebuild
  <1>4. Len(fs[leader]) = Len(fs[1])
    <2>1. Distinct(fs[leader]) /\ Ids(fs[leader]) = 1 .. Len(fs[1])
      BY <1>1, <1>3
    <2> QED BY <1>1, <2>1, NumberedLength
  <1>5. Steady
    BY <1>3, <1>4 DEF Steady
  <1>6. Abreast
    BY <1>2, <1>4 DEF Abreast, Rebuild
  <1> QED BY <1>5, <1>6

LEMMA NewFileNumbering ==
    ASSUME CInv, Numbering, NEW sz \in Sizes, NewFile(sz), CInv'
    PROVE  Numbering'
  <1> DEFINE id == Len(fs[leader]) + 1
             tab == Place(View, sz)
             cnt == FragCount(sz, net_size[leader])
             new == Container(id, sz, cnt)
             ent == [file_id |-> id, fragments |-> tab]
  <1>1. /\ leader \in alive /\ reporters = {} /\ reports = <<>> /\ fanout = <<>>
        /\ sz \in Nat /\ cnt # 0
        /\ fs' = [fs EXCEPT ![leader] = Append(@, new)]
        /\ fnetidx' = Append(fnetidx, ent)
        /\ fanout' = [k \in 1 .. cnt * REDUNDANCY |-> tab[k - 1]]
        /\ UNCHANGED <<alive, leader, peer_ips, reporters, reports, complete>>
    BY CatalogConstants DEF NewFile, NextId, Serving
  <1>2. /\ leader \in Node /\ fs \in [Node -> Seq(FileContainer)]
        /\ fs[leader] \in Seq(FileContainer)
        /\ fnetidx \in Seq(FileInNetwork) /\ alive \subseteq Node
    BY DEF CInv, TypeInv
  <1>3. ~Rebuilding /\ ~Rebuilding' /\ Steady
    BY <1>1 DEF Rebuilding, Numbering
  <1> DEFINE m == Len(fs[leader])
  <1>4. m \in Nat /\ id = m + 1
    BY <1>2
  <1>5. new \in FileContainer /\ new.file_id = id
    <2>1. cnt \in Nat \ {0}
      BY <1>1, <1>2 DEF FragCount, CInv, TypeInv
    <2> HIDE DEF id, cnt
    <2> QED BY <1>1, <1>4, <2>1, FreshContainer, SMTT(30)
  <1>6. ent.file_id = id
    OBVIOUS
  <1> HIDE DEF new, ent
  <1>7. /\ Ids(fs[leader]) = 1 .. m /\ Ids(fnetidx) = 1 .. m /\ complete \subseteq 1 .. m
        /\ \A n \in alive : Ids(fs[n]) \subseteq 1 .. m
    BY <1>3 DEF Steady
  <1>8. LET a == Append(fs[leader], new) IN
        /\ Len(a) = m + 1 /\ a[m + 1] = new /\ Ids(a) = Ids(fs[leader]) \cup {new.file_id}
        /\ Distinct(fs[leader]) /\ new.file_id \notin Ids(fs[leader]) => Distinct(a)
        /\ a \in Seq(FileContainer)
    BY <1>2, <1>5, AppendFile
  <1>9. ent \in FileInNetwork
    <2>1. fnetidx' \in Seq(FileInNetwork)
      BY DEF CInv, TypeInv
    <2>2. fnetidx'[Len(fnetidx) + 1] = ent /\ Len(fnetidx) + 1 \in DOMAIN fnetidx'
      BY <1>1, <1>2
    <2> QED BY <2>1, <2>2
  <1>10. LET a == Append(fnetidx, ent) IN
         /\ Ids(a) = Ids(fnetidx) \cup {ent.file_id}
         /\ Distinct(fnetidx) /\ ent.file_id \notin Ids(fnetidx) => Distinct(a)
    BY <1>2, <1>9, AppendFile
  <1>11. /\ fs'[leader] = Append(fs[leader], new)
         /\ \A n \in Node \ {leader} : fs'[n] = fs[n]
    BY <1>1, <1>2
  <1>12. id \notin 1 .. m /\ 1 .. m + 1 = 1 .. m \cup {id}
    BY <1>4
  <1> HIDE DEF id
  <1>13. /\ Distinct(fs'[leader]) /\ Ids(fs'[leader]) = 1 .. m + 1 /\ Len(fs'[leader]) = m + 1
         /\ Distinct(fnetidx') /\ Ids(fnetidx') = 1 .. m + 1
    BY <1>1, <1>2, <1>5, <1>6, <1>7, <1>8, <1>10, <1>11, <1>12 DEF Numbering
  <1>14. \A n \in Node : Distinct(fs'[n])
    BY <1>11, <1>13 DEF Numbering
  <1>15. fs'[leader][m + 1].file_id = m + 1
    BY <1>4, <1>5, <1>8, <1>11 DEF id
  <1>16. Steady'
    <2>1. \A n \in alive : Ids(fs'[n]) \subseteq 1 .. m + 1
      BY <1>2, <1>7, <1>11, <1>12, <1>13
    <2>2. complete \subseteq 1 .. m + 1
      BY <1>7, <1>12
    <2> HIDE DEF m
    <2> QED BY <1>1, <1>13, <1>15, <2>1, <2>2 DEF Steady
  <1>17. ASSUME 1 \in alive PROVE NodeOne'
    <2>1. NodeOne /\ Abreast /\ 1 \in Node /\ Len(fs[1]) = m
      BY <1>1, <1>3, <1>17, NodeFinite DEF Numbering, NodeOne, Abreast
    <2>2. CASE leader = 1
      <3>1. Len(fs'[1]) = m + 1 /\ Ids(fs'[1]) = 1 .. m + 1
        BY <1>13, <2>2
      <3>2. complete \subseteq 1 .. m + 1
        BY <1>7, <1>12
      <3>3. \A n \in alive \ {leader} : Ids(fs'[n]) \subseteq 1 .. m + 1
        BY <1>2, <1>7, <1>11, <1>12
      <3> HIDE DEF m
      <3> QED BY <1>1, <1>13, <2>2, <3>1, <3>2, <3>3 DEF NodeOne, Abreast
    <2>3. CASE leader # 1
      <3>1. fs'[1] = fs[1]
        BY <1>11, <2>1, <2>3
      <3>2. \A n \in alive \ {leader} : fs'[n] = fs[n]
        BY <1>2, <1>11
      <3>3. (m + 1) - 1 = m
        BY <1>4
      <3>4. Head(fanout').node_id = 1
        <4>1. 1 \in View.peer_ips /\ FragCount(sz, View.net_size) # 0
          BY <1>1, <2>1, <2>3, ViewFacts DEF Abreast
        <4>2. tab[0].node_id = 1
          BY <1>1, <4>1, ViewFacts, FirstCopyOnNodeOne
        <4>3. cnt \in Nat \ {0}
          BY <1>1, <1>2 DEF FragCount, CInv, TypeInv
        <4> HIDE DEF cnt, tab
        <4> DEFINE w == cnt * REDUNDANCY
        <4>4. w \in Nat /\ w >= 1
          BY <4>3 DEF REDUNDANCY
        <4>5. fanout' \in Seq(Pointer)
          BY DEF CInv, TypeInv
        <4>6. DOMAIN fanout' = 1 .. w /\ fanout'[1] = tab[0]
          BY <1>1, <4>4
        <4> HIDE DEF w
        <4>7. Len(fanout') = w
          BY <4>4, <4>5, <4>6
        <4>8. fanout' # <<>> /\ Head(fanout') = fanout'[1]
          BY <4>4, <4>5, <4>7
        <4> QED BY <4>2, <4>6, <4>8
      <3>5. fanout' # <<>>
        <4>1. cnt \in Nat \ {0}
          BY <1>1, <1>2 DEF FragCount, CInv, TypeInv
        <4> HIDE DEF cnt, tab
        <4>2. cnt * REDUNDANCY \in Nat /\ 1 \in 1 .. cnt * REDUNDANCY
          BY <4>1 DEF REDUNDANCY
        <4>3. 1 \in DOMAIN fanout'
          BY <1>1, <4>2
        <4> QED BY <4>3
      <3> HIDE DEF m
      <3> QED BY <1>1, <1>13, <2>1, <3>1, <3>2, <3>3, <3>4, <3>5 DEF NodeOne, Abreast
    <2> QED BY <2>2, <2>3
  <1> QED BY <1>1, <1>3, <1>13, <1>14, <1>16, <1>17 DEF Numbering

\* One fragment sent: its receiver, if alive, has the file from then on.
LEMMA FanoutIds ==
    ASSUME CInv, FanoutStep
    PROVE  LET id == Last(fs[leader]).file_id
               to == Head(fanout).node_id
           IN /\ Len(fs[leader]) \in DOMAIN fs[leader]
              /\ id = fs[leader][Len(fs[leader])].file_id /\ id \in Ids(fs[leader])
              /\ \A n \in Node :
                   /\ Ids(fs'[n]) = IF n = to /\ n \in alive THEN Ids(fs[n]) \cup {id}
                                     ELSE Ids(fs[n])
                   /\ Distinct(fs[n]) => Distinct(fs'[n])
              /\ Len(fs'[leader]) = Len(fs[leader])
              /\ \A i \in DOMAIN fs[leader] : fs'[leader][i].file_id = fs[leader][i].file_id
  <1> DEFINE c    == Last(fs[leader])
             p    == Head(fanout)
             to   == p.node_id
             id   == c.file_id
             frag == [id |-> p.fragment, off |-> (c.size \div c.total) * (p.fragment - 1),
                      size |-> p.size]
  <1>1. /\ c \in FileContainer
        /\ Len(fs[leader]) \in Nat \ {0} /\ c = fs[leader][Len(fs[leader])]
        /\ to \in alive => frag \in Slot
        /\ fs' = IF to \in alive
                   THEN [fs EXCEPT ![to] = StoreFragment(@, c, frag)] ELSE fs
    BY FanoutFacts
  <1> HIDE DEF c, p, frag
  <1>2. /\ fs \in [Node -> Seq(FileContainer)] /\ leader \in Node /\ alive \subseteq Node
    BY DEF CInv, TypeInv
  <1>3. Len(fs[leader]) \in DOMAIN fs[leader] /\ id \in Ids(fs[leader])
    <2>1. Len(fs[leader]) \in DOMAIN fs[leader]
      BY <1>1, <1>2
    <2> QED BY <1>1, <2>1 DEF Ids
  <1>4. CASE to \in alive
    <2> DEFINE l == StoreFragment(fs[to], c, frag)
    <2>1. to \in Node /\ fs[to] \in Seq(FileContainer)
      BY <1>2, <1>4
    <2>2. /\ Ids(l) = Ids(fs[to]) \cup {c.file_id}
          /\ Distinct(fs[to]) => Distinct(l)
          /\ c.file_id \in Ids(fs[to]) =>
               /\ Len(l) = Len(fs[to])
               /\ \A i \in DOMAIN fs[to] : l[i].file_id = fs[to][i].file_id
      BY <1>1, <1>4, <2>1, StoreFragmentKeeps, ZenonT(40)
    <2>3. fs'[to] = l /\ \A n \in Node \ {to} : fs'[n] = fs[n]
      BY <1>1, <1>2, <1>4, <2>1
    <2> HIDE DEF l, to
    <2>4. \A n \in Node :
             /\ Ids(fs'[n]) = IF n = to /\ n \in alive THEN Ids(fs[n]) \cup {id} ELSE Ids(fs[n])
             /\ Distinct(fs[n]) => Distinct(fs'[n])
      BY <1>4, <2>2, <2>3
    <2>5. /\ Len(fs'[leader]) = Len(fs[leader])
          /\ \A i \in DOMAIN fs[leader] : fs'[leader][i].file_id = fs[leader][i].file_id
      BY <1>2, <1>3, <2>2, <2>3
    <2> QED BY <1>1, <1>3, <2>4, <2>5 DEF c, p, to
  <1>5. CASE to \notin alive
    <2>1. fs' = fs
      BY <1>1, <1>5
    <2> QED BY <1>1, <1>3, <1>5, <2>1 DEF c, p
  <1> QED BY <1>4, <1>5

LEMMA FanoutNumbering ==
    ASSUME CInv, Numbering, FanoutStep
    PROVE  Numbering'
  <1> DEFINE id == Last(fs[leader]).file_id
             to == Head(fanout).node_id
             m  == Len(fs[leader])
  <1>1. /\ leader \in alive /\ fanout # <<>> /\ fanout' = Tail(fanout)
        /\ complete' = IF Len(fanout) = 1 THEN complete \cup {id} ELSE complete
        /\ UNCHANGED <<alive, leader, peer_ips, fnetidx, reporters, reports>>
    BY DEF FanoutStep
  <1>2. /\ m \in DOMAIN fs[leader] /\ id = fs[leader][m].file_id
        /\ \A n \in Node :
              /\ Ids(fs'[n]) = IF n = to /\ n \in alive THEN Ids(fs[n]) \cup {id} ELSE Ids(fs[n])
              /\ Distinct(fs[n]) => Distinct(fs'[n])
        /\ Len(fs'[leader]) = m
        /\ \A i \in DOMAIN fs[leader] : fs'[leader][i].file_id = fs[leader][i].file_id
    BY FanoutIds
  <1>3. reporters = {} /\ reports = <<>>
    BY <1>1 DEF CInv, FanoutOK
  <1>4. ~Rebuilding /\ ~Rebuilding' /\ Steady
    BY <1>1, <1>3 DEF Rebuilding, Numbering
  <1>5. /\ leader \in Node /\ alive \subseteq Node /\ m \in Nat
        /\ \A n \in Node : fs[n] \in Seq(FileContainer) /\ fs'[n] \in Seq(FileContainer)
    <2>1. TypeInv /\ TypeInv'
      BY FanoutType DEF CInv
    <2>2. fs' \in [Node -> Seq(FileContainer)]
      BY <2>1 DEF TypeInv
    <2> QED BY <2>1, <2>2, ListFacts
  <1> HIDE DEF id, to
  <1>6. /\ Ids(fs[leader]) = 1 .. m /\ Ids(fnetidx) = 1 .. m /\ complete \subseteq 1 .. m
        /\ \A n \in alive : Ids(fs[n]) \subseteq 1 .. m
        /\ id = m
    BY <1>1, <1>2, <1>4 DEF Steady
  <1>7. m \in 1 .. m
    <2>1. DOMAIN fs[leader] = 1 .. m
      BY <1>5
    <2> QED BY <1>2, <2>1
  <1>8. fs'[leader][m].file_id = m
    BY <1>2, <1>6
  <1> HIDE DEF m
  <1>9. Steady'
    <2>1. Ids(fs'[leader]) = 1 .. m
      BY <1>2, <1>5, <1>6, <1>7
    <2>2. \A n \in alive : Ids(fs'[n]) \subseteq 1 .. m
      BY <1>2, <1>5, <1>6, <1>7
    <2>3. complete' \subseteq 1 .. m
      BY <1>1, <1>6, <1>7
    <2> QED BY <1>1, <1>2, <1>6, <1>8, <2>1, <2>2, <2>3 DEF Steady
  <1>10. \A n \in Node : Distinct(fs'[n])
    BY <1>2 DEF Numbering
  <1>11. ASSUME 1 \in alive PROVE NodeOne'
    <2>1. /\ NodeOne /\ Abreast /\ 1 \in Node /\ Len(fs[1]) \in Nat
      BY <1>1, <1>4, <1>5, <1>11, NodeFinite DEF Numbering, NodeOne
    <2>2. Ids(fs'[1]) = 1 .. m
      <3>1. CASE Len(fs[1]) = m
        BY <1>2, <1>6, <1>7, <2>1, <3>1, ZenonT(40) DEF NodeOne
      <3>2. CASE Len(fs[1]) = m - 1 /\ to = 1
        <4>1. Ids(fs'[1]) = 1 .. m - 1 \cup {m}
          BY <1>2, <1>6, <1>11, <2>1, <3>2 DEF NodeOne
        <4>2. 1 .. m - 1 \cup {m} = 1 .. m
          BY <1>5, <1>7
        <4> QED BY <4>1, <4>2
      <3> QED BY <1>1, <2>1, <3>1, <3>2 DEF Abreast, m, to
    <2>3. Len(fs'[1]) = m
      BY <1>5, <1>10, <2>1, <2>2, NumberedLength
    <2>4. \A n \in alive \ {leader} : Ids(fs'[n]) \subseteq 1 .. m
      BY <1>2, <1>5, <1>6, <1>7
    <2>5. complete' \subseteq 1 .. m
      BY <1>1, <1>6, <1>7
    <2>6. Abreast'
      BY <1>1, <1>2, <2>1, <2>3 DEF Abreast, m
    <2> QED BY <1>1, <2>2, <2>3, <2>4, <2>5, <2>6 DEF NodeOne
  <1>12. Distinct(fnetidx')
    BY <1>1 DEF Numbering
  <1> QED BY <1>1, <1>4, <1>9, <1>10, <1>11, <1>12 DEF Numbering

LEMMA CrashNumbering ==
    ASSUME CInv, Numbering, NEW d \in Node, Crash(d)
    PROVE  Numbering'
  <1>1. /\ d \in alive /\ alive' = alive \ {d} /\ reporters = {} /\ reports = <<>>
        /\ fanout' = IF d = leader THEN <<>> ELSE fanout
        /\ UNCHANGED <<leader, peer_ips, fnetidx, fs, reporters, reports, complete>>
    BY DEF Crash
  <1>2. ~Rebuilding /\ ~Rebuilding' /\ Steady
    BY <1>1 DEF Rebuilding, Numbering
  <1>3. Steady'
    BY <1>1, <1>2 DEF Steady
  <1>4. ASSUME 1 \in alive' PROVE NodeOne'
    <2>1. NodeOne
      BY <1>1, <1>4 DEF Numbering
    <2>2. ASSUME leader \in alive' PROVE Abreast'
      <3>1. Abreast /\ fanout' = fanout
        BY <1>1, <1>2, <2>1, <2>2 DEF NodeOne
      <3> QED BY <1>1, <3>1 DEF Abreast
    <2> QED BY <1>1, <2>1, <2>2 DEF NodeOne
  <1> QED BY <1>1, <1>2, <1>3, <1>4 DEF Numbering

LEMMA LearnNumbering ==
    ASSUME CInv, Numbering, NEW n \in Node, NEW d \in Node, Learn(n, d)
    PROVE  Numbering'
  <1>1. /\ n \in alive /\ d \notin alive /\ (n = leader => Serving)
        /\ \E e \in Dead : peer_ips' = IF n = leader THEN peer_ips \ {e} ELSE peer_ips
        /\ UNCHANGED <<alive, leader, fnetidx, fs, fanout, reporters, reports, complete>>
    BY DEF Learn, Named, Dead
  <1>2. /\ Told' = Told /\ (Rebuilding' <=> Rebuilding) /\ (Steady' <=> Steady)
    BY <1>1 DEF Told, Rebuilding, Steady
  <1>3. ASSUME Rebuilding PROVE Rebuild'
    <2>1. peer_ips' = peer_ips
      BY <1>1, <1>3 DEF Serving, Rebuilding
    <2> QED BY <1>1, <1>2, <1>3, <2>1 DEF Numbering, Rebuild
  <1>4. ASSUME 1 \in alive PROVE NodeOne'
    <2>1. NodeOne /\ (1 \in peer_ips => 1 \in peer_ips')
      BY <1>1, <1>4 DEF Numbering, Dead
    <2>2. Abreast => Abreast'
      BY <1>1, <2>1 DEF Abreast
    <2> QED BY <1>1, <1>2, <2>1, <2>2 DEF NodeOne
  <1> QED BY <1>1, <1>2, <1>3, <1>4 DEF Numbering

LEMMA ElectNumbering ==
    ASSUME CInv, Numbering, NEW i \in Node, Elect(i), CInv', Spared
    PROVE  Numbering'
  <1>1. /\ leader \in Node \ alive /\ i \in alive /\ leader' = i /\ fnetidx' = <<>>
        /\ reporters' = alive \ {i} /\ reports' = ReportsOf(i)
        /\ UNCHANGED <<alive, fs, fanout, complete>>
    BY DEF Elect, Dead
  <1>2. N \notin alive /\ 1 \in alive /\ NodeOne /\ i # leader
    BY <1>1 DEF Numbering, Spared
  <1>3. fanout' = <<>>
    BY <1>1 DEF CInv, FanoutOK
  <1>4. Told' = Ids(fs[i])
    <2>1. /\ DOMAIN ReportsOf(i) = DOMAIN fs[i]
          /\ \A k \in DOMAIN ReportsOf(i) : ReportsOf(i)[k].file = fs[i][k]
      BY ReportsOfFacts DEF CInv
    <2> QED BY <1>1, <2>1 DEF Told, Ids
  <1>5. Ids(fnetidx') = {} /\ Distinct(fnetidx')
    BY <1>1 DEF Ids, Distinct
  <1>6. Ids(fs[i]) \subseteq Ids(fs[1])
    BY <1>1, <1>2 DEF NodeOne
  <1>7. Rebuild'
    BY <1>1, <1>2, <1>4, <1>5, <1>6 DEF Rebuild
  <1>8. \A n \in Node : Distinct(fs'[n])
    BY <1>1 DEF Numbering
  <1>9. ASSUME ~Rebuilding' PROVE Steady' /\ Abreast'
    <2>1. RebuildOver'
      BY <1>1, <1>2, <1>3, <1>7, <1>8, <1>9 DEF RebuildOver, NodeOne
    <2> QED BY <2>1, RebuildEnds, PTL
  <1>10. NodeOne'
    BY <1>1, <1>2, <1>9 DEF NodeOne
  <1> QED BY <1>1, <1>2, <1>5, <1>7, <1>8, <1>9, <1>10 DEF Numbering

LEMMA ReportSelfNumbering ==
    ASSUME CInv, Numbering, NEW n \in Node, ReportSelf(n), CInv', Spared
    PROVE  Numbering'
  <1>1. /\ n \in reporters /\ reports = <<>>
        /\ reporters' = reporters \ {n} /\ reports' = ReportsOf(n)
        /\ peer_ips' = peer_ips \cup {n}
        /\ UNCHANGED <<alive, leader, fnetidx, fs, fanout, complete>>
    BY DEF ReportSelf
  <1>2. Rebuilding /\ Rebuild /\ N \notin alive /\ 1 \in alive /\ NodeOne
    BY <1>1 DEF Rebuilding, Numbering, Rebuild, Spared
  <1>3. fanout' = <<>>
    BY <1>1 DEF CInv, FanoutOK
  <1>4. Told = {} /\ Told' = Ids(fs[n])
    <2>1. /\ DOMAIN ReportsOf(n) = DOMAIN fs[n]
          /\ \A k \in DOMAIN ReportsOf(n) : ReportsOf(n)[k].file = fs[n][k]
      BY ReportsOfFacts DEF CInv
    <2> QED BY <1>1, <2>1 DEF Told, Ids
  <1>5. Ids(fs[n]) \subseteq Ids(fs[1])
    BY <1>1, <1>2 DEF NodeOne, Rebuild
  <1>6. Rebuild'
    BY <1>1, <1>2, <1>4, <1>5 DEF Rebuild
  <1>7. \A k \in Node : Distinct(fs'[k])
    BY <1>1 DEF Numbering
  <1>8. ASSUME ~Rebuilding' PROVE Steady' /\ Abreast'
    <2>1. RebuildOver'
      BY <1>1, <1>2, <1>3, <1>6, <1>7, <1>8 DEF RebuildOver, NodeOne
    <2> QED BY <2>1, RebuildEnds, PTL
  <1>9. NodeOne'
    BY <1>1, <1>2, <1>8 DEF NodeOne
  <1>10. Distinct(fnetidx')
    BY <1>1 DEF Numbering
  <1> QED BY <1>1, <1>2, <1>6, <1>7, <1>8, <1>9, <1>10 DEF Numbering

LEMMA ReportFileNumbering ==
    ASSUME CInv, Numbering, ReportFile, CInv', Spared
    PROVE  Numbering'
  <1> DEFINE id == Head(reports).file.file_id
  <1>1. /\ reports # <<>> /\ reports' = Tail(reports)
        /\ UNCHANGED <<alive, leader, peer_ips, reporters, fanout, complete>>
    BY DEF ReportFile
  <1>2. /\ Head(reports) = reports[1]
        /\ Ids(fnetidx') = Ids(fnetidx) \cup {id}
        /\ Ids(fs'[leader]) = Ids(fs[leader]) \cup {id}
        /\ Distinct(fnetidx) => Distinct(fnetidx')
        /\ Distinct(fs[leader]) => Distinct(fs'[leader])
        /\ \A n \in Node \ {leader} : fs'[n] = fs[n]
    BY ReportFileFacts
  <1>3. /\ Rebuilding /\ Rebuild /\ N \notin alive /\ 1 \in alive /\ NodeOne
        /\ leader \in alive /\ alive \subseteq Node /\ 1 \in Node
    BY <1>1, NodeFinite DEF Rebuilding, Numbering, Rebuild, Spared, CInv, TypeInv
  <1>4. fanout' = <<>>
    BY <1>1 DEF CInv, FanoutOK
  <1>5. Told = {id} \cup Told'
    <2>1. reports \in Seq(FileReport)
      BY DEF CInv, TypeInv
    <2>2. /\ DOMAIN reports = 1 .. Len(reports) /\ Len(reports) \in Nat /\ Len(reports) >= 1
          /\ DOMAIN reports' = 1 .. Len(reports) - 1
          /\ \A k \in 1 .. Len(reports) - 1 : reports'[k] = reports[k + 1]
      BY <1>1, <2>1
    <2> DEFINE len == Len(reports)
    <2> HIDE DEF len
    <2>3. \A k \in 1 .. len : k = 1 \/ (k - 1 \in 1 .. len - 1 /\ (k - 1) + 1 = k)
      BY <2>2 DEF len
    <2>4. ASSUME NEW x \in Told PROVE x \in {id} \cup Told'
      <3>1. PICK k \in 1 .. len : x = reports[k].file.file_id
        BY <2>2 DEF Told, len
      <3>2. CASE k = 1
        BY <1>2, <3>1, <3>2
      <3>3. CASE k # 1
        <4>1. k - 1 \in DOMAIN reports' /\ reports'[k - 1] = reports[k]
          BY <2>2, <2>3, <3>3 DEF len
        <4> QED BY <3>1, <4>1 DEF Told
      <3> QED BY <3>2, <3>3
    <2>5. id \in Told
      <3>1. 1 \in DOMAIN reports
        BY <2>2
      <3> QED BY <1>2, <3>1 DEF Told
    <2>6. ASSUME NEW x \in Told' PROVE x \in Told
      <3>1. PICK k \in 1 .. len - 1 : x = reports'[k].file.file_id
        BY <2>2 DEF Told, len
      <3>2. reports'[k] = reports[k + 1] /\ k + 1 \in DOMAIN reports
        BY <2>2 DEF len
      <3> QED BY <3>1, <3>2 DEF Told
    <2> HIDE DEF id
    <2> QED BY <2>4, <2>5, <2>6
  <1> HIDE DEF id
  <1>6. id \in Ids(fs[1]) /\ Told' \subseteq Ids(fs[1])
    BY <1>3, <1>5 DEF Rebuild
  <1>7. (\A n \in Node : Distinct(fs'[n])) /\ Distinct(fnetidx')
    BY <1>2 DEF Numbering
  <1>8. Ids(fs'[1]) = Ids(fs[1]) /\ Len(fs'[1]) = Len(fs[1])
    <2>1. CASE leader # 1
      BY <1>2, <1>3, <2>1
    <2>2. CASE leader = 1
      <3>1. Ids(fs'[1]) = Ids(fs[1]) /\ Ids(fs[1]) = 1 .. Len(fs[1])
        BY <1>2, <1>3, <1>6, <2>2, ZenonT(40) DEF NodeOne
      <3>2. fs'[1] \in Seq(FileContainer) /\ Len(fs[1]) \in Nat
        BY <1>3 DEF CInv, TypeInv
      <3> QED BY <1>3, <1>7, <3>1, <3>2, NumberedLength
    <2> QED BY <2>1, <2>2
  <1>9. \A n \in alive \ {leader} : Ids(fs'[n]) \subseteq Ids(fs'[1])
    BY <1>2, <1>3, <1>8 DEF NodeOne
  <1>10. \A n \in alive \ reporters : Ids(fs'[n]) \subseteq Ids(fnetidx') \cup Told'
    BY <1>2, <1>3, <1>5 DEF Rebuild
  <1>11. /\ Ids(fnetidx') \subseteq Ids(fs'[leader])
         /\ Ids(fs'[leader]) \subseteq Ids(fs'[1])
    BY <1>2, <1>3, <1>6, <1>8 DEF Rebuild
  <1>12. Rebuild'
    BY <1>1, <1>3, <1>6, <1>8, <1>10, <1>11 DEF Rebuild
  <1>13. ASSUME ~Rebuilding' PROVE Steady' /\ Abreast'
    <2>1. RebuildOver'
      BY <1>1, <1>3, <1>4, <1>7, <1>8, <1>12, <1>13 DEF RebuildOver, NodeOne
    <2> QED BY <2>1, RebuildEnds, PTL
  <1>14. NodeOne'
    BY <1>1, <1>3, <1>8, <1>9, <1>13 DEF NodeOne
  <1> QED BY <1>1, <1>3, <1>7, <1>12, <1>13, <1>14 DEF Numbering

NumberingInv == CInv /\ (Spared => Numbering)

LEMMA NumberingStep == NumberingInv /\ [Next]_vars => NumberingInv'
  <1> SUFFICES ASSUME NumberingInv, [Next]_vars PROVE NumberingInv'
    OBVIOUS
  <1>1. CInv /\ CInv'
    BY TypeStep DEF NumberingInv
  <1> SUFFICES ASSUME Spared' PROVE Numbering'
    BY <1>1 DEF NumberingInv
  <1>2. Spared /\ Numbering
    <2>1. alive' \subseteq alive
      BY DEF Next, NewFile, FanoutStep, Crash, Learn, Elect, ReportSelf, ReportFile, vars
    <2> QED BY <2>1 DEF Spared, NumberingInv
  <1>3. ASSUME NEW sz \in Sizes, NewFile(sz) PROVE Numbering'
    BY <1>1, <1>2, <1>3, NewFileNumbering
  <1>4. CASE FanoutStep
    BY <1>1, <1>2, <1>4, FanoutNumbering
  <1>5. ASSUME NEW d \in Node, Crash(d) PROVE Numbering'
    BY <1>1, <1>2, <1>5, CrashNumbering
  <1>6. ASSUME NEW n \in Node, NEW d \in Node, Learn(n, d) PROVE Numbering'
    BY <1>1, <1>2, <1>6, LearnNumbering
  <1>7. ASSUME NEW i \in Node, Elect(i) PROVE Numbering'
    BY <1>1, <1>2, <1>7, ElectNumbering
  <1>8. ASSUME NEW i \in Node, ReportSelf(i) PROVE Numbering'
    BY <1>1, <1>2, <1>8, ReportSelfNumbering
  <1>9. CASE ReportFile
    BY <1>1, <1>2, <1>9, ReportFileNumbering
  <1>10. CASE UNCHANGED vars
    BY <1>2, <1>10 DEF vars, Numbering, Rebuilding, Rebuild, Told, Steady, NodeOne, Abreast
  <1> QED BY <1>3, <1>4, <1>5, <1>6, <1>7, <1>8, <1>9, <1>10 DEF Next

LEMMA NumberingInvariance == Spec => []NumberingInv
  <1>1. Init => NumberingInv
    BY TypeInit, NumberingInit DEF NumberingInv
  <1> QED BY <1>1, NumberingStep, PTL DEF Spec

LEMMA NumberingImplies ==
    CInv /\ Numbering => IdsUnique /\ NothingForgotten /\ OneContainerPerFile
  <1> SUFFICES ASSUME CInv, Numbering
               PROVE  IdsUnique /\ NothingForgotten /\ OneContainerPerFile
    OBVIOUS
  <1>1. IdsUnique
    BY DEF Numbering, IdsUnique, Distinct
  <1>2. NothingForgotten
    BY DEF Numbering, Rebuilding, Serving, Steady, Ids, NothingForgotten
  <1>3. OneContainerPerFile
    <2> SUFFICES ASSUME NEW n \in Node, NEW i \in DOMAIN fs[n], NEW j \in DOMAIN fs[n]
                 PROVE  /\ fs[n][i].file_id = fs[n][j].file_id => i = j
                        /\ Serving /\ n \in alive => PosOf(fs[leader], fs[n][i].file_id) # 0
      BY DEF OneContainerPerFile
    <2>1. fs[n][i].file_id = fs[n][j].file_id => i = j
      BY DEF Numbering, Distinct
    <2>2. ASSUME Serving, n \in alive PROVE PosOf(fs[leader], fs[n][i].file_id) # 0
      <3>1. Steady
        BY <2>2 DEF Numbering, Rebuilding, Serving
      <3>2. fs[n][i].file_id \in Ids(fs[leader])
        BY <2>2, <3>1 DEF Steady, Ids
      <3>3. fs[leader] \in Seq(FileContainer)
        BY DEF CInv, TypeInv
      <3> QED BY <3>2, <3>3, PosFound
    <2> QED BY <2>1, <2>2
  <1> QED BY <1>1, <1>2, <1>3

\* File ids (fs.file_count + 1) through any number of deaths and failovers that spare
\* node 1 or node N: the table never has two files with one id, the index in service
\* has every stored file in its table, and no node has two containers of a file or
\* a container the index in service lacks.  With both nodes dead it fails: a small
\* file only nodes 1 and 2 had is forgotten and its number leaves a gap.
THEOREM NumberingHolds == Spec => []NumberingWhileSpared
  <1>1. NumberingInv => NumberingWhileSpared
    BY NumberingImplies DEF NumberingInv, Spared, NumberingWhileSpared
  <1> QED BY <1>1, NumberingInvariance, PTL

\* One death cannot take both node 1 and node N.
LEMMA OneOfTwoLives ==
    ASSUME MaxCrashes <= 1
    PROVE  CInv => Spared
  <1> SUFFICES ASSUME CInv, 1 \notin alive, N \notin alive PROVE FALSE
    BY DEF Spared
  <1>1. 1 \in Dead /\ N \in Dead /\ 1 # N
    BY NodeFinite DEF Dead
  <1>2. IsFiniteSet(Dead)
    BY NodeFinite, FS_Subset DEF Dead
  <1>3. IsFiniteSet({1}) /\ Cardinality({1}) = 1
    BY FS_Singleton
  <1>4. Cardinality({1} \cup {N}) = 2
    BY <1>1, <1>3, FS_AddElement
  <1>5. Cardinality({1} \cup {N}) <= Cardinality(Dead)
    <2>1. {1} \cup {N} \subseteq Dead
      BY <1>1
    <2> QED BY <1>2, <2>1, FS_Subset
  <1>6. Cardinality(Dead) \in Nat /\ Cardinality(Dead) <= MaxCrashes
    BY <1>2, FS_CardinalityType DEF CInv, Counts
  <1> QED BY <1>4, <1>5, <1>6, CatalogConstants

\* With at most one death, which REDUNDANCY is made for, fresh ids never repeat.
THEOREM IdsStayUnique ==
    ASSUME MaxCrashes <= 1
    PROVE  Spec => []IdsUnique
  <1>1. NumberingInv => IdsUnique
    BY NumberingImplies, OneOfTwoLives DEF NumberingInv
  <1> QED BY <1>1, NumberingInvariance, PTL

\* With at most one death the index in service knows every stored file.
THEOREM StoredFilesKnown ==
    ASSUME MaxCrashes <= 1
    PROVE  Spec => []NothingForgotten
  <1>1. NumberingInv => NothingForgotten
    BY NumberingImplies, OneOfTwoLives DEF NumberingInv
  <1> QED BY <1>1, NumberingInvariance, PTL

\* With at most one death no container array grows past the index's own.
THEOREM ContainersMatchFiles ==
    ASSUME MaxCrashes <= 1
    PROVE  Spec => []OneContainerPerFile
  <1>1. NumberingInv => OneContainerPerFile
    BY NumberingImplies, OneOfTwoLives DEF NumberingInv
  <1> QED BY <1>1, NumberingInvariance, PTL
=============================================================================
