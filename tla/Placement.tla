------------------------------ MODULE Placement ------------------------------
(***************************************************************************)
(* The index's arithmetic: how a file is cut into fragments, on which      *)
(* nodes the copies of each fragment go, which copy is asked for when the  *)
(* file is read, and how a new index files the reports of the survivors.   *)
(* Pure operators; module Catalog puts them to work.                       *)
(*                                                                         *)
(* Arrays keep the C indices: they are functions on 0 .. k-1.              *)
(* Definitions named Mut_... are wrong on purpose: each takes the place of *)
(* the definition that follows it, to see that a property notices.         *)
(***************************************************************************)
EXTENDS Integers, Sequences, FiniteSets

CONSTANT MINIMAL_SIZE_FOR_SPLIT

ASSUME SplitAssumption == MINIMAL_SIZE_FOR_SPLIT \in Nat

REDUNDANCY == 2

NullPtr == [fragment |-> 0, size |-> 0, node_id |-> 0]

Least(S) == CHOOSE x \in S : \A y \in S : x <= y

-----------------------------------------------------------------------------
(* Cutting: fragment i (0-based) of a file of sz bytes in cnt fragments *)

\* net_size is unsigned: decremented below 0 it exceeds every size.
FragCount(sz, net_size) ==
    IF net_size < 0 \/ sz <= net_size \/ sz <= MINIMAL_SIZE_FOR_SPLIT THEN 1 ELSE net_size

Mut_FragmentSizeNoRemainder(sz, cnt, i) == sz \div cnt
FragmentSize(sz, cnt, i) == IF i + 1 = cnt THEN (sz \div cnt) + (sz % cnt) ELSE sz \div cnt

\* Offset used by the fan-out and by the node that puts the file together again.
FragmentOffset(sz, cnt, i) == (sz \div cnt) * i

-----------------------------------------------------------------------------
(* Placing.  The index knows: me, the ids with an address (peer_ips), how many
   reports it counted (known_peers), net_size and death_count. *)

ValidNode(v, n) == n > 0 /\ (n = v.me \/ n \in v.peer_ips)

\* internaloffset grows past the empty entries of peer_ips below known_peers.
InternalOffset(v, cnt) ==
    LET off[i \in 0 .. cnt - 1] ==
          LET prev == IF i = 0 THEN 0 ELSE off[i - 1]
          IN Least({o \in prev .. prev + v.known_peers :
                      i + o >= v.known_peers \/ (i + o + 1) \in v.peer_ips})
    IN off

Mut_TryNodeStuck(v, node, t) == (node % (v.net_size + v.death_count)) + 1
TryNode(v, node, t) == ((node + t) % (v.net_size + v.death_count)) + 1

\* Where the first REDUNDANCY valid tries put the copies of one fragment.
GoodTries(v, node) == {t \in 0 .. v.known_peers : ValidNode(v, TryNode(v, node, t))}
CopyNode(v, node, j) ==
    LET good  == GoodTries(v, node)
        first == Least(good)
    IN CASE good = {}                          -> 0
         [] good # {} /\ j = 0                 -> TryNode(v, node, first)
         [] good = {first} /\ j = 1            -> 0
         [] good \notin {{}, {first}} /\ j = 1 -> TryNode(v, node, Least(good \ {first}))

Mut_PlaceFromZero(v, sz) ==
    LET cnt == FragCount(sz, v.net_size)
        off == InternalOffset(v, cnt)
    IN [k \in 0 .. cnt * REDUNDANCY - 1 |->
          LET i == k \div REDUNDANCY
              n == CopyNode(v, i + off[i], k % REDUNDANCY)
          IN IF n = 0 THEN NullPtr
             ELSE [fragment |-> i, size |-> FragmentSize(sz, cnt, i), node_id |-> n]]

\* The fragment table of a new file.
Place(v, sz) ==
    LET cnt == FragCount(sz, v.net_size)
        off == InternalOffset(v, cnt)
    IN [k \in 0 .. cnt * REDUNDANCY - 1 |->
          LET i == k \div REDUNDANCY
              n == CopyNode(v, i + off[i], k % REDUNDANCY)
          IN IF n = 0 THEN NullPtr
             ELSE [fragment |-> i + 1, size |-> FragmentSize(sz, cnt, i), node_id |-> n]]

-----------------------------------------------------------------------------
(* Reading: the copy of every fragment the index asks for *)

Selected(v, cnt, frags) ==
    [i \in 0 .. cnt - 1 |->
       IF \/ v.death_count = 0
          \/ cnt = v.net_size * REDUNDANCY
          \/ ValidNode(v, frags[i * REDUNDANCY].node_id)
         THEN frags[i * REDUNDANCY]
         ELSE frags[i * REDUNDANCY + 1]]

-----------------------------------------------------------------------------
(* Rebuilding: what a report of node n about its container c writes into the
   fragment table of the file.  slots are the container's two fragments. *)

EmptyTable(cnt) == [k \in 0 .. cnt * REDUNDANCY - 1 |-> NullPtr]

Reported(c, n, j) ==
    IF c.slots[j].id = 0 THEN NullPtr
    ELSE [fragment |-> c.slots[j].id, size |-> c.slots[j].size, node_id |-> n]

\* The table positions written, with their new content.
Writes(frags, c, n) ==
    LET r0   == Reported(c, n, 0)
        r1   == Reported(c, n, 1)
        cnt  == c.total
        last == cnt * REDUNDANCY - 1
        place == (r1.fragment - 1) * REDUNDANCY
    IN CASE cnt = 1 /\ frags[0].fragment = 0
              -> {<<0, r0>>}
         [] cnt = 1 /\ frags[0].fragment # 0 /\ frags[0].node_id < n
              -> {<<1, r0>>}
         [] cnt = 1 /\ frags[0].fragment # 0 /\ frags[0].node_id >= n
              -> {<<1, frags[0]>>, <<0, r0>>}
         [] cnt # 1 /\ (r1.fragment - r0.fragment > 1 \/ (cnt = 2 /\ frags[0].fragment = 0))
              -> {<<0, r0>>, <<last, r1>>}
         [] OTHER
              -> {<<place - 1, r0>>, <<place, r1>>}

InBounds(frags, writes) == \A w \in writes : w[1] \in DOMAIN frags

Written(frags, writes) ==
    [k \in DOMAIN frags |->
       IF \E w \in writes : w[1] = k THEN (CHOOSE w \in writes : w[1] = k)[2] ELSE frags[k]]
=============================================================================
