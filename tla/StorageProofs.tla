---------------------------- MODULE StorageProofs ---------------------------
(***************************************************************************)
(* With five nodes or more and at most one death, which is what two copies *)
(* are for: pointers are backed, copies are apart, stored files can be     *)
(* read, before and after the death and the failover, and module Catalog   *)
(* implements module Store.                                                *)
(*                                                                         *)
(* The invariant says that there are layouts: for every file number, the   *)
(* table the file was given when it was created and how many rounds its    *)
(* fan-out has made. Containers, the rest of a fan-out, the table of an    *)
(* index in office and the table a new index is putting together are each  *)
(* described by the layouts.                                               *)
(*                                                                         *)
(* The first part has the lemmas about layouts that hold for every state   *)
(* with the hypotheses they name: the tables that INDEX_HANDLE_NEW_FILE    *)
(* makes while at most one node is dead, what a container holds after some *)
(* rounds of the fan-out, and the table a new index gets back from         *)
(* reports.                                                                *)
(***************************************************************************)
EXTENDS CatalogProofs

-----------------------------------------------------------------------------
(* Regular tables, and where the placement loop puts the copies *)

\* The shape of a regular table: fragment numbers and sizes as the file is cut, no node
\* with two first copies or two second copies, and no fragment twice on one node.
GoodPtr(sz, cnt, p, k) ==
    /\ p = [fragment |-> (k \div 2) + 1, size |-> FragmentSize(sz, cnt, k \div 2),
            node_id |-> p.node_id]
    /\ p.node_id \in Node
Spread(t) == \A a, b \in DOMAIN t : a % 2 = b % 2 /\ t[a].node_id = t[b].node_id => a = b
Apart(t) ==
    \A k \in DOMAIN t : k % 2 = 0 /\ t[k].node_id # 0 => t[k].node_id # t[k + 1].node_id
Regular(sz, cnt, t) ==
    /\ DOMAIN t = 0 .. 2 * cnt - 1
    /\ \A k \in DOMAIN t : GoodPtr(sz, cnt, t[k], k)
    /\ Spread(t) /\ Apart(t)

\* Where fragment i starts, A and B of its copies, and the try that finds B.
PlanAt(v, off, A, B, S, i) ==
    LET prev == IF i = 0 THEN 0 ELSE off[i - 1]
        node == i + off[i]
    IN /\ node >= v.known_peers \/ (node + 1) \in v.peer_ips
       /\ off[i] # prev => /\ off[i] = prev + 1
                           /\ i + prev < v.known_peers /\ (i + prev + 1) \notin v.peer_ips
       /\ TryNode(v, node, 0) = A[i] /\ ValidNode(v, A[i])
       /\ TryNode(v, node, S[i]) = B[i] /\ ValidNode(v, B[i])
       /\ S[i] = 2 => ~ValidNode(v, TryNode(v, node, 1))
Plan(v, cnt, off, A, B, S) ==
    /\ off \in [0 .. cnt - 1 -> {0, 1}] /\ S \in [0 .. cnt - 1 -> {1, 2}]
    /\ A \in [0 .. cnt - 1 -> Node] /\ B \in [0 .. cnt - 1 -> Node]
    /\ \A i \in 0 .. cnt - 1 :
         /\ PlanAt(v, off, A, B, S, i)
         /\ A[i] # B[i]
         /\ \A j \in 0 .. cnt - 1 : (A[i] = A[j] => i = j) /\ (B[i] = B[j] => i = j)

LEMMA PlaceIs ==
    ASSUME NEW v, v.known_peers \in Nat, v.known_peers >= 2, NEW sz \in Nat,
           NEW cnt \in Nat \ {0}, cnt = FragCount(sz, v.net_size),
           NEW off, NEW A, NEW B, NEW S, Plan(v, cnt, off, A, B, S)
    PROVE  LET t == Place(v, sz) IN
           /\ Regular(sz, cnt, t)
           /\ \A k \in 0 .. 2 * cnt - 1 :
                t[k].node_id = IF k % 2 = 0 THEN A[k \div 2] ELSE B[k \div 2]
  <1> DEFINE t == Place(v, sz)
             g == InternalOffset(v, cnt)
  <1>1. /\ off \in [0 .. cnt - 1 -> Nat] /\ S \in [0 .. cnt - 1 -> {1, 2}]
        /\ A \in [0 .. cnt - 1 -> Node] /\ B \in [0 .. cnt - 1 -> Node]
    <2>1. /\ off \in [0 .. cnt - 1 -> {0, 1}] /\ S \in [0 .. cnt - 1 -> {1, 2}]
          /\ A \in [0 .. cnt - 1 -> Node] /\ B \in [0 .. cnt - 1 -> Node]
      BY Zenon DEF Plan
    <2> QED BY <2>1
  <1>2. ASSUME NEW i \in 0 .. cnt - 1
        PROVE  off[i] = OffsetStep(v, i, IF i = 0 THEN 0 ELSE off[i - 1])
    <2> DEFINE prev == IF i = 0 THEN 0 ELSE off[i - 1]
    <2>1. i \in Nat /\ prev \in Nat /\ off[i] \in Nat /\ v.known_peers \in Nat \ {0}
      BY <1>1
    <2>2. /\ i + off[i] >= v.known_peers \/ (i + off[i] + 1) \in v.peer_ips
          /\ off[i] # prev => /\ off[i] = prev + 1
                              /\ i + prev < v.known_peers /\ (i + prev + 1) \notin v.peer_ips
      BY DEF Plan, PlanAt
    <2> HIDE DEF prev
    <2>3. LET Stop(o) == i + o >= v.known_peers \/ (i + o + 1) \in v.peer_ips IN
          /\ Stop(prev) => OffsetStep(v, i, prev) = prev
          /\ ~Stop(prev) /\ Stop(prev + 1) => OffsetStep(v, i, prev) = prev + 1
      BY <2>1, OffsetStepIs
    <2>4. off[i] = OffsetStep(v, i, prev)
      BY <2>1, <2>2, <2>3
    <2> QED BY <2>4 DEF prev
  <1>3. \A i \in 0 .. cnt - 1 : g[i] = off[i]
    <2>1. \A i \in 0 .. cnt - 1 : off[i] = OffsetStep(v, i, IF i = 0 THEN 0 ELSE off[i - 1])
      BY <1>2, Zenon
    <2>2. IsOffsets(v, cnt - 1, off)
      BY <1>1, <2>1, Zenon DEF IsOffsets
    <2> QED BY <2>2, OffsetsAre
  <1>4. ASSUME NEW i \in 0 .. cnt - 1
        PROVE  CopyNode(v, i + g[i], 0) = A[i] /\ CopyNode(v, i + g[i], 1) = B[i]
    <2> DEFINE node == i + off[i]
    <2>1. node \in Nat /\ g[i] = off[i] /\ S[i] \in {1, 2} /\ S[i] <= v.known_peers
      BY <1>1, <1>3
    <2>2. /\ TryNode(v, node, 0) = A[i] /\ ValidNode(v, A[i])
          /\ TryNode(v, node, S[i]) = B[i] /\ ValidNode(v, B[i])
          /\ S[i] = 2 => ~ValidNode(v, TryNode(v, node, 1))
      BY DEF Plan, PlanAt
    <2> HIDE DEF node
    <2>3. /\ CopyNode(v, node, 0) = TryNode(v, node, 0)
          /\ CopyNode(v, node, 1) = TryNode(v, node, S[i])
      BY <2>1, <2>2, CopiesAt
    <2> QED BY <2>1, <2>2, <2>3 DEF node
  <1> HIDE DEF g
  <1>5. \A k \in 0 .. 2 * cnt - 1 : k \div 2 \in 0 .. cnt - 1 /\ k % 2 \in {0, 1}
    OBVIOUS
  <1>6. t = [k \in 0 .. 2 * cnt - 1 |->
               LET i == k \div 2
                   n == CopyNode(v, i + g[i], k % 2)
               IN IF n = 0 THEN NullPtr
                  ELSE [fragment |-> i + 1, size |-> FragmentSize(sz, cnt, i), node_id |-> n]]
    <2>1. cnt * 2 - 1 = 2 * cnt - 1
      OBVIOUS
    <2> QED BY <2>1 DEF Place, REDUNDANCY, g
  <1>7. ASSUME NEW k \in 0 .. 2 * cnt - 1
        PROVE  t[k] = [fragment |-> (k \div 2) + 1, size |-> FragmentSize(sz, cnt, k \div 2),
                       node_id |-> IF k % 2 = 0 THEN A[k \div 2] ELSE B[k \div 2]]
    <2> DEFINE i == k \div 2
               n == CopyNode(v, i + g[i], k % 2)
    <2>1. i \in 0 .. cnt - 1 /\ (k % 2 = 0 \/ k % 2 = 1)
      BY <1>5
    <2>2. t[k] = IF n = 0 THEN NullPtr
                 ELSE [fragment |-> i + 1, size |-> FragmentSize(sz, cnt, i), node_id |-> n]
      BY <1>6, Zenon
    <2>3. n = IF k % 2 = 0 THEN A[i] ELSE B[i]
      BY <1>4, <2>1
    <2>4. A[i] \in Node /\ B[i] \in Node /\ 0 \notin Node
      BY <1>1, <2>1, NodeFinite
    <2> HIDE DEF n, i
    <2>5. n # 0
      BY <2>1, <2>3, <2>4
    <2> QED BY <2>2, <2>3, <2>5 DEF i
  <1>8. DOMAIN t = 0 .. 2 * cnt - 1
    BY <1>6, Zenon
  <1> HIDE DEF t
  <1>9. ASSUME NEW k \in 0 .. 2 * cnt - 1
        PROVE  /\ t[k].node_id = IF k % 2 = 0 THEN A[k \div 2] ELSE B[k \div 2]
               /\ GoodPtr(sz, cnt, t[k], k)
    <2>1. t[k].node_id = IF k % 2 = 0 THEN A[k \div 2] ELSE B[k \div 2]
      <3> DEFINE n == IF k % 2 = 0 THEN A[k \div 2] ELSE B[k \div 2]
                 q == k \div 2
      <3>1. t[k] = [fragment |-> q + 1, size |-> FragmentSize(sz, cnt, q), node_id |-> n]
        BY <1>7
      <3> HIDE DEF n, q
      <3>2. t[k].node_id = n
        BY <3>1
      <3> QED BY <3>2 DEF n
    <2>2. t[k].node_id \in Node
      <3> DEFINE i == k \div 2
      <3>1. A[i] \in Node /\ B[i] \in Node
        BY <1>1, <1>5
      <3> QED BY <2>1, <3>1
    <2> QED BY <1>7, <2>1, <2>2 DEF GoodPtr
  <1>10. \A i, j \in 0 .. cnt - 1 : /\ A[i] = A[j] => i = j
                                    /\ B[i] = B[j] => i = j
                                    /\ A[i] # B[i]
    BY DEF Plan
  <1>11. Spread(t)
    <2> SUFFICES ASSUME NEW a \in 0 .. 2 * cnt - 1, NEW b \in 0 .. 2 * cnt - 1,
                        a % 2 = b % 2, t[a].node_id = t[b].node_id
                 PROVE  a = b
      BY <1>8 DEF Spread
    <2>1. a \div 2 = b \div 2
      BY <1>5, <1>9, <1>10
    <2> QED BY <2>1
  <1>12. Apart(t)
    <2> SUFFICES ASSUME NEW k \in 0 .. 2 * cnt - 1, k % 2 = 0
                 PROVE  t[k].node_id # t[k + 1].node_id
      BY <1>8 DEF Apart
    <2>1. k + 1 \in 0 .. 2 * cnt - 1 /\ (k + 1) % 2 = 1 /\ (k + 1) \div 2 = k \div 2
      OBVIOUS
    <2> QED BY <1>5, <1>9, <1>10, <2>1
  <1> QED BY <1>8, <1>9, <1>11, <1>12 DEF Regular, t

\* The views an index has of the ring with at most one death: nobody is missing; node
\* N is the index and has counted the death of d; node N - 1 has taken over.
FullView(v) ==
    /\ v.me = N /\ v.peer_ips = Node \ {N} /\ v.known_peers = N - 1
    /\ v.net_size = N /\ v.death_count = 0
LossView(v, d) ==
    /\ d \in 1 .. N - 1
    /\ v.me = N /\ v.peer_ips = Node \ {N, d} /\ v.known_peers = N - 1
    /\ v.net_size = (IF d = N - 1 THEN N - 2 ELSE N - 1) /\ v.death_count = 1
HeirView(v) ==
    /\ v.me = N - 1 /\ v.peer_ips = 1 .. N - 2 /\ v.known_peers = N - 2
    /\ v.net_size = N - 1 /\ v.death_count = 1

\* The node of position k of a table made under the full view.
NodeAt(k) == IF k % 2 = 0 THEN (k \div 2) + 1
             ELSE IF (k \div 2) + 1 = N THEN 1 ELSE (k \div 2) + 2

LEMMA PlaceFull ==
    ASSUME N >= 5, NEW v, FullView(v), NEW sz \in Nat
    PROVE  LET cnt == FragCount(sz, v.net_size)
               t == Place(v, sz)
           IN /\ cnt \in {1, N} /\ Regular(sz, cnt, t)
              /\ \A k \in 0 .. 2 * cnt - 1 : t[k].node_id = NodeAt(k)
  <1> DEFINE cnt == FragCount(sz, v.net_size)
             off == [i \in 0 .. cnt - 1 |-> 0]
             A == [i \in 0 .. cnt - 1 |-> i + 1]
             B == [i \in 0 .. cnt - 1 |-> IF i + 1 = N THEN 1 ELSE i + 2]
             S == [i \in 0 .. cnt - 1 |-> 1]
  <1>1. N \in Nat /\ Node = 1 .. N
    BY NodeFinite DEF Node
  <1>2. cnt \in {1, N} /\ cnt \in Nat \ {0}
    BY <1>1 DEF FragCount, FullView
  <1>3. /\ v.me = N /\ v.peer_ips = Node \ {N} /\ v.known_peers = N - 1
        /\ v.net_size + v.death_count = N
    BY <1>1 DEF FullView
  <1> HIDE DEF cnt
  <1>4. ASSUME NEW i \in 0 .. cnt - 1
        PROVE  /\ TryNode(v, i, 0) = i + 1
               /\ TryNode(v, i, 1) = IF i + 1 = N THEN 1 ELSE i + 2
    <2>1. i \in Nat /\ i < N /\ N \in Nat \ {0}
      BY <1>1, <1>2
    <2>2. TryNode(v, i, 0) = i + 1
      BY <1>3, <2>1, TryAt
    <2>3. /\ i + 1 < N => TryNode(v, i, 1) = i + 1 + 1
          /\ N <= i + 1 /\ i + 1 < N + N => TryNode(v, i, 1) = i + 1 - N + 1
      BY <1>3, <2>1, TryAt
    <2> QED BY <2>1, <2>2, <2>3
  <1>5. \A n \in Node : ValidNode(v, n)
    BY <1>1, <1>3 DEF ValidNode
  <1>6. Plan(v, cnt, off, A, B, S)
    <2>1. /\ off \in [0 .. cnt - 1 -> {0, 1}] /\ S \in [0 .. cnt - 1 -> {1, 2}]
          /\ A \in [0 .. cnt - 1 -> Node] /\ B \in [0 .. cnt - 1 -> Node]
      BY <1>1, <1>2
    <2>2. ASSUME NEW i \in 0 .. cnt - 1 PROVE PlanAt(v, off, A, B, S, i)
      <3>1. off[i] = 0 /\ (i # 0 => off[i - 1] = 0) /\ i + off[i] = i /\ S[i] = 1
        BY <1>2
      <3>2. i >= v.known_peers \/ (i + 1) \in v.peer_ips
        BY <1>1, <1>2, <1>3
      <3>3. TryNode(v, i, 0) = A[i] /\ TryNode(v, i, 1) = B[i]
        BY <1>4
      <3>4. A[i] \in Node /\ B[i] \in Node
        BY <2>1
      <3> HIDE DEF A, B, off, S
      <3> QED BY <1>5, <3>1, <3>2, <3>3, <3>4 DEF PlanAt
    <2>3. \A i, j \in 0 .. cnt - 1 : /\ A[i] # B[i]
                                     /\ A[i] = A[j] => i = j
                                     /\ B[i] = B[j] => i = j
      BY <1>1, <1>2
    <2> HIDE DEF A, B, off, S
    <2> QED BY <2>1, <2>2, <2>3 DEF Plan
  <1>7. v.known_peers \in Nat /\ v.known_peers >= 2 /\ cnt = FragCount(sz, v.net_size)
    BY <1>1, <1>3 DEF cnt
  <1> DEFINE t == Place(v, sz)
  <1>8. \A i \in 0 .. cnt - 1 : A[i] = i + 1 /\ B[i] = IF i + 1 = N THEN 1 ELSE i + 2
    OBVIOUS
  <1> HIDE DEF A, B, off, S
  <1>9. /\ Regular(sz, cnt, t)
        /\ \A k \in 0 .. 2 * cnt - 1 :
             t[k].node_id = IF k % 2 = 0 THEN A[k \div 2] ELSE B[k \div 2]
    BY <1>2, <1>6, <1>7, PlaceIs
  <1> HIDE DEF t
  <1>10. ASSUME NEW k \in 0 .. 2 * cnt - 1 PROVE t[k].node_id = NodeAt(k)
    <2>1. k \div 2 \in 0 .. cnt - 1
      BY <1>2
    <2> QED BY <1>8, <1>9, <2>1 DEF NodeAt
  <1> QED BY <1>2, <1>9, <1>10 DEF cnt, t

\* Nodes 1 .. r are there and r + 1, the last of the modulus, is not.
LEMMA PlaceShort ==
    ASSUME NEW v, NEW r \in Nat, r >= 3, r < N, v.net_size + v.death_count = r + 1,
           v.net_size = r, v.known_peers \in Nat, v.known_peers >= 2,
           \A n \in 1 .. r : ValidNode(v, n) /\ (n > v.known_peers \/ n \in v.peer_ips),
           ~ValidNode(v, r + 1), NEW sz \in Nat
    PROVE  LET cnt == FragCount(sz, v.net_size) IN
           cnt \in {1, r} /\ Regular(sz, cnt, Place(v, sz))
  <1> DEFINE cnt == FragCount(sz, v.net_size)
             off == [i \in 0 .. cnt - 1 |-> 0]
             A == [i \in 0 .. cnt - 1 |-> i + 1]
             B == [i \in 0 .. cnt - 1 |-> IF i + 1 = r THEN 1 ELSE i + 2]
             S == [i \in 0 .. cnt - 1 |-> IF i + 1 = r THEN 2 ELSE 1]
  <1>1. N \in Nat /\ Node = 1 .. N /\ 1 .. r \subseteq Node
    BY NodeFinite DEF Node
  <1>2. cnt \in {1, r} /\ cnt \in Nat \ {0}
    BY DEF FragCount
  <1> HIDE DEF cnt
  <1>3. ASSUME NEW i \in 0 .. cnt - 1
        PROVE  /\ TryNode(v, i, 0) = i + 1
               /\ TryNode(v, i, 1) = i + 2
               /\ i + 1 = r => TryNode(v, i, 2) = 1
    <2>1. i \in Nat /\ i + 1 < r + 1 /\ r + 1 \in Nat \ {0} /\ 2 \in Nat /\ 1 \in Nat /\ 0 \in Nat
      BY <1>2
    <2> DEFINE m == r + 1
    <2>2. v.net_size + v.death_count = m /\ m \in Nat \ {0}
      BY <2>1
    <2>3. i + 0 < m => TryNode(v, i, 0) = i + 0 + 1
      BY <2>1, <2>2, TryAt
    <2>4. i + 1 < m => TryNode(v, i, 1) = i + 1 + 1
      BY <2>1, <2>2, TryAt
    <2>5. m <= i + 2 /\ i + 2 < m + m => TryNode(v, i, 2) = i + 2 - m + 1
      BY <2>1, <2>2, TryAt
    <2> QED BY <2>1, <2>3, <2>4, <2>5
  <1>4. Plan(v, cnt, off, A, B, S)
    <2>1. /\ off \in [0 .. cnt - 1 -> {0, 1}] /\ S \in [0 .. cnt - 1 -> {1, 2}]
          /\ A \in [0 .. cnt - 1 -> 1 .. r] /\ B \in [0 .. cnt - 1 -> 1 .. r]
      BY <1>2
    <2>2. ASSUME NEW i \in 0 .. cnt - 1 PROVE PlanAt(v, off, A, B, S, i)
      <3>1. off[i] = 0 /\ (i # 0 => off[i - 1] = 0) /\ i + off[i] = i
        BY <1>2
      <3>2. i >= v.known_peers \/ (i + 1) \in v.peer_ips
        <4>1. i + 1 \in 1 .. r
          BY <1>2
        <4> QED BY <4>1
      <3>3. TryNode(v, i, 0) = A[i] /\ TryNode(v, i, S[i]) = B[i]
        BY <1>3
      <3>4. A[i] \in 1 .. r /\ B[i] \in 1 .. r
        BY <2>1
      <3>5. S[i] = 2 => TryNode(v, i, 1) = r + 1
        BY <1>3
      <3> HIDE DEF A, B, off, S
      <3> QED BY <3>1, <3>2, <3>3, <3>4, <3>5 DEF PlanAt
    <2>3. \A i, j \in 0 .. cnt - 1 : /\ A[i] # B[i]
                                     /\ A[i] = A[j] => i = j
                                     /\ B[i] = B[j] => i = j
      BY <1>2
    <2>4. A \in [0 .. cnt - 1 -> Node] /\ B \in [0 .. cnt - 1 -> Node]
      <3> HIDE DEF A, B
      <3> QED BY <1>1, <2>1
    <2> HIDE DEF A, B, off, S
    <2> QED BY <2>1, <2>2, <2>3, <2>4 DEF Plan
  <1>5. cnt = FragCount(sz, v.net_size)
    BY DEF cnt
  <1> HIDE DEF A, B, off, S
  <1>6. Regular(sz, cnt, Place(v, sz))
    BY <1>2, <1>4, <1>5, PlaceIs
  <1> QED BY <1>2, <1>6 DEF cnt

LEMMA PlaceHeir ==
    ASSUME N >= 5, NEW v, HeirView(v), NEW sz \in Nat
    PROVE  LET cnt == FragCount(sz, v.net_size) IN
           cnt \in {1, N - 1} /\ Regular(sz, cnt, Place(v, sz))
  <1> DEFINE r == N - 1
  <1>1. N \in Nat
    BY NodeFinite
  <1>2. /\ r \in Nat /\ r >= 3 /\ r < N /\ v.net_size + v.death_count = r + 1
        /\ v.net_size = r /\ v.known_peers \in Nat /\ v.known_peers >= 2
    BY <1>1 DEF HeirView
  <1>3. \A n \in 1 .. r : ValidNode(v, n) /\ (n > v.known_peers \/ n \in v.peer_ips)
    BY <1>1 DEF HeirView, ValidNode
  <1>4. ~ValidNode(v, r + 1)
    BY <1>1 DEF HeirView, ValidNode
  <1> HIDE DEF r
  <1>5. LET cnt == FragCount(sz, v.net_size) IN
        cnt \in {1, r} /\ Regular(sz, cnt, Place(v, sz))
    BY <1>2, <1>3, <1>4, PlaceShort
  <1> QED BY <1>5 DEF r

LEMMA PlaceLoss ==
    ASSUME N >= 5, NEW v, NEW d, LossView(v, d), NEW sz \in Nat
    PROVE  LET cnt == FragCount(sz, v.net_size) IN
           cnt \in {1, N - 2, N - 1} /\ Regular(sz, cnt, Place(v, sz))
  <1> DEFINE cnt == FragCount(sz, v.net_size)
  <1>1. N \in Nat /\ Node = 1 .. N /\ d \in 1 .. N - 1
    BY NodeFinite DEF Node, LossView
  <1>2. CASE d = N - 1
    <2> DEFINE r == N - 2
    <2>1. /\ r \in Nat /\ r >= 3 /\ r < N /\ v.net_size + v.death_count = r + 1
          /\ v.net_size = r /\ v.known_peers \in Nat /\ v.known_peers >= 2
      BY <1>1, <1>2 DEF LossView
    <2>2. \A n \in 1 .. r : ValidNode(v, n) /\ (n > v.known_peers \/ n \in v.peer_ips)
      BY <1>1, <1>2 DEF LossView, ValidNode
    <2>3. ~ValidNode(v, r + 1)
      BY <1>1, <1>2 DEF LossView, ValidNode
    <2> HIDE DEF r
    <2>4. cnt \in {1, r} /\ Regular(sz, cnt, Place(v, sz))
      BY <2>1, <2>2, <2>3, PlaceShort
    <2> QED BY <2>4 DEF r
  <1>3. CASE d # N - 1
    <2> DEFINE off == [i \in 0 .. cnt - 1 |-> IF i + 1 < d THEN 0 ELSE 1]
               A == [i \in 0 .. cnt - 1 |-> IF i + 1 < d THEN i + 1 ELSE i + 2]
               S == [i \in 0 .. cnt - 1 |->
                       IF i + 2 = d \/ (i + 2 = N /\ d = 1) THEN 2 ELSE 1]
               B == [i \in 0 .. cnt - 1 |->
                       IF i + 2 < d THEN i + 2 ELSE IF i + 2 < N THEN i + 3
                       ELSE IF d = 1 THEN 2 ELSE 1]
    <2>1. /\ v.me = N /\ v.peer_ips = Node \ {N, d} /\ v.known_peers = N - 1
          /\ v.net_size = N - 1 /\ v.net_size + v.death_count = N
      BY <1>1, <1>3 DEF LossView
    <2>2. cnt \in {1, N - 1} /\ cnt \in Nat \ {0}
      BY <1>1, <2>1 DEF FragCount
    <2> HIDE DEF cnt
    <2>3. \A n : ValidNode(v, n) <=> n \in Node \ {d}
      BY <1>1, <2>1 DEF ValidNode
    <2>4. ASSUME NEW x \in Nat, NEW t \in {0, 1, 2}, x < N
          PROVE  TryNode(v, x, t) = IF x + t < N THEN x + t + 1 ELSE x + t - N + 1
      <3>1. N \in Nat \ {0} /\ t \in Nat /\ x + t < N + N
        BY <1>1, <2>4
      <3>2. /\ x + t < N => TryNode(v, x, t) = x + t + 1
            /\ N <= x + t /\ x + t < N + N => TryNode(v, x, t) = x + t - N + 1
        BY <2>1, <3>1, TryAt
      <3> QED BY <3>1, <3>2
    <2>5. Plan(v, cnt, off, A, B, S)
      <3>1. /\ off \in [0 .. cnt - 1 -> {0, 1}] /\ S \in [0 .. cnt - 1 -> {1, 2}]
        OBVIOUS
      <3>2. A \in [0 .. cnt - 1 -> Node \ {d}]
        BY <1>1, <2>2
      <3>3. B \in [0 .. cnt - 1 -> Node \ {d}]
        BY <1>1, <1>3, <2>2
      <3>4. ASSUME NEW i \in 0 .. cnt - 1 PROVE PlanAt(v, off, A, B, S, i)
        <4> DEFINE prev == IF i = 0 THEN 0 ELSE off[i - 1]
                   node == i + off[i]
        <4>1. /\ node >= v.known_peers \/ (node + 1) \in v.peer_ips
              /\ off[i] # prev => /\ off[i] = prev + 1
                                  /\ i + prev < v.known_peers
                                  /\ (i + prev + 1) \notin v.peer_ips
          BY <1>1, <1>3, <2>1, <2>2
        <4>2. node \in Nat /\ node < N /\ S[i] \in {0, 1, 2}
          BY <1>1, <2>2
        <4>3. /\ TryNode(v, node, 0) = IF node + 0 < N THEN node + 0 + 1 ELSE node + 0 - N + 1
              /\ TryNode(v, node, 1) = IF node + 1 < N THEN node + 1 + 1 ELSE node + 1 - N + 1
              /\ TryNode(v, node, S[i])
                   = IF node + S[i] < N THEN node + S[i] + 1 ELSE node + S[i] - N + 1
          <5> HIDE DEF node, S
          <5> QED BY <2>4, <4>2
        <4>4. TryNode(v, node, 0) = A[i]
          BY <1>1, <2>2, <4>3
        <4>5. TryNode(v, node, S[i]) = B[i]
          BY <1>1, <1>3, <2>2, <4>3
        <4>6. S[i] = 2 => TryNode(v, node, 1) = d
          BY <1>1, <1>3, <2>2, <4>3
        <4>7. A[i] \in Node \ {d} /\ B[i] \in Node \ {d}
          BY <3>2, <3>3
        <4> HIDE DEF node, A, B, S, off
        <4> QED BY <2>3, <4>1, <4>4, <4>5, <4>6, <4>7 DEF PlanAt, node
      <3>5. \A i, j \in 0 .. cnt - 1 : /\ A[i] # B[i]
                                       /\ A[i] = A[j] => i = j
                                       /\ B[i] = B[j] => i = j
        BY <1>1, <1>3, <2>2
      <3>6. A \in [0 .. cnt - 1 -> Node] /\ B \in [0 .. cnt - 1 -> Node]
        <4> HIDE DEF A, B
        <4> QED BY <3>2, <3>3
      <3> HIDE DEF A, B, off, S
      <3> QED BY <3>1, <3>4, <3>5, <3>6 DEF Plan
    <2>6. cnt = FragCount(sz, v.net_size) /\ v.known_peers \in Nat /\ v.known_peers >= 2
      BY <1>1, <2>1 DEF cnt
    <2> HIDE DEF A, B, off, S
    <2>7. Regular(sz, cnt, Place(v, sz))
      BY <2>2, <2>5, <2>6, PlaceIs
    <2> QED BY <2>2, <2>7 DEF cnt
  <1> QED BY <1>2, <1>3

-----------------------------------------------------------------------------
(* Lists as sets of files *)

Box(list) == {list[i] : i \in DOMAIN list}

LEMMA BoxFacts ==
    ASSUME NEW S, NEW list \in Seq(S)
    PROVE  /\ \A x \in Box(list) : x \in S /\ x.file_id \in Ids(list)
           /\ \A id \in Ids(list) : \E x \in Box(list) : x.file_id = id
           /\ Distinct(list) =>
                /\ \A x, y \in Box(list) : x.file_id = y.file_id => x = y
                /\ \A x \in Box(list) : /\ PosOf(list, x.file_id) # 0
                                        /\ list[PosOf(list, x.file_id)] = x
  <1>1. \A x \in Box(list) : x \in S /\ x.file_id \in Ids(list)
    BY DEF Box, Ids
  <1>2. \A id \in Ids(list) : \E x \in Box(list) : x.file_id = id
    BY DEF Box, Ids
  <1>3. ASSUME Distinct(list), NEW x \in Box(list), NEW y \in Box(list), x.file_id = y.file_id
        PROVE  x = y
    BY <1>3 DEF Box, Distinct
  <1>4. ASSUME Distinct(list), NEW x \in Box(list)
        PROVE  PosOf(list, x.file_id) # 0 /\ list[PosOf(list, x.file_id)] = x
    <2> DEFINE p == PosOf(list, x.file_id)
    <2>1. p \in DOMAIN list /\ p # 0 /\ list[p].file_id = x.file_id
      BY <1>1, PosFound
    <2> HIDE DEF p
    <2>2. list[p] \in Box(list)
      BY <2>1 DEF Box
    <2>3. list[p] = x
      BY <1>3, <1>4, <2>1, <2>2
    <2> QED BY <2>1, <2>3 DEF p
  <1> QED BY <1>1, <1>2, <1>3, <1>4

LEMMA BoxAppend ==
    ASSUME NEW S, NEW list \in Seq(S), NEW e
    PROVE  Box(Append(list, e)) = Box(list) \cup {e}
  <1> DEFINE a == Append(list, e)
             m == Len(list)
  <1>1. /\ DOMAIN list = 1 .. m /\ DOMAIN a = 1 .. m + 1 /\ m \in Nat
        /\ \A i \in 1 .. m : a[i] = list[i]
        /\ a[m + 1] = e
    OBVIOUS
  <1> HIDE DEF a, m
  <1>2. \A i : i \in 1 .. m + 1 <=> i \in 1 .. m \/ i = m + 1
    BY <1>1
  <1>3. Box(a) = Box(list) \cup {e}
    BY <1>1, <1>2 DEF Box
  <1> QED BY <1>3 DEF a

LEMMA BoxUpdate ==
    ASSUME NEW S, NEW list \in Seq(S), Distinct(list), NEW p \in DOMAIN list, NEW e,
           e.file_id = list[p].file_id
    PROVE  \A x : x \in Box([list EXCEPT ![p] = e])
                    <=> x = e \/ (x \in Box(list) /\ x.file_id # e.file_id)
  <1> DEFINE l == [list EXCEPT ![p] = e]
  <1>1. DOMAIN l = DOMAIN list /\ \A i \in DOMAIN list : l[i] = IF i = p THEN e ELSE list[i]
    OBVIOUS
  <1> HIDE DEF l
  <1>2. \A i \in DOMAIN list : i # p => list[i].file_id # e.file_id
    BY DEF Distinct
  <1>3. ASSUME NEW x
        PROVE  x \in Box(l) <=> x = e \/ (x \in Box(list) /\ x.file_id # e.file_id)
    <2>1. ASSUME x \in Box(l) PROVE x = e \/ (x \in Box(list) /\ x.file_id # e.file_id)
      <3>1. PICK i \in DOMAIN list : x = l[i]
        BY <1>1, <2>1 DEF Box
      <3> QED BY <1>1, <1>2, <3>1 DEF Box
    <2>2. ASSUME x = e PROVE x \in Box(l)
      BY <1>1, <2>2 DEF Box
    <2>3. ASSUME x \in Box(list), x.file_id # e.file_id PROVE x \in Box(l)
      <3>1. PICK i \in DOMAIN list : x = list[i]
        BY <2>3 DEF Box
      <3>2. i # p
        BY <2>3, <3>1
      <3> QED BY <1>1, <3>1, <3>2 DEF Box
    <2> QED BY <2>1, <2>2, <2>3
  <1> QED BY <1>3 DEF l

\* TYPE_STORE_FRAGMENT changes the container of its file and no other.
LEMMA StoreFragmentBox ==
    ASSUME NEW list \in Seq(FileContainer), Distinct(list), NEW c \in FileContainer,
           NEW frag \in Slot
    PROVE  LET l == StoreFragment(list, c, frag)
               new == Container(c.file_id, c.size, c.total)
           IN \A x : x \in Box(l) <=>
                \/ x \in Box(list) /\ x.file_id # c.file_id
                \/ \E y \in Box(list) : y.file_id = c.file_id /\ x = AddFragment(y, frag)
                \/ c.file_id \notin Ids(list) /\ x = AddFragment(new, frag)
  <1> DEFINE id == c.file_id
             new == Container(id, c.size, c.total)
             m == IF PosOf(list, id) = 0 THEN Append(list, new) ELSE list
             p == PosOf(m, id)
             l == [m EXCEPT ![p] = AddFragment(@, frag)]
  <1>1. StoreFragment(list, c, frag) = l
    BY DEF StoreFragment
  <1>2. id \in Nat /\ new \in FileContainer /\ new.file_id = id
    <2>1. id \in Nat /\ c.size \in Nat /\ c.total \in Nat \ {0}
      BY DEF FileContainer
    <2> HIDE DEF id
    <2> QED BY <2>1, FreshContainer
  <1> HIDE DEF new
  <1>3. /\ m \in Seq(FileContainer) /\ Distinct(m)
        /\ id \in Ids(list) => m = list
        /\ id \notin Ids(list) => Box(m) = Box(list) \cup {new}
        /\ id \in Ids(m)
    <2>1. CASE id \in Ids(list)
      <3>1. m = list
        BY <2>1, PosFound
      <3> QED BY <2>1, <3>1
    <2>2. CASE id \notin Ids(list)
      <3>1. m = Append(list, new)
        BY <2>2, PosFound
      <3>2. /\ Append(list, new) \in Seq(FileContainer)
            /\ Ids(Append(list, new)) = Ids(list) \cup {new.file_id}
            /\ Distinct(list) /\ new.file_id \notin Ids(list) => Distinct(Append(list, new))
        BY <1>2, AppendFile
      <3>3. Box(Append(list, new)) = Box(list) \cup {new}
        BY BoxAppend
      <3> QED BY <1>2, <2>2, <3>1, <3>2, <3>3
    <2> QED BY <2>1, <2>2
  <1> HIDE DEF m
  <1>4. p \in DOMAIN m /\ m[p].file_id = id
    BY <1>3, PosFound
  <1> HIDE DEF p
  <1>5. m[p] \in FileContainer /\ m[p] \in Box(m)
    BY <1>3, <1>4 DEF Box
  <1> DEFINE e == AddFragment(m[p], frag)
  <1>6. e.file_id = m[p].file_id
    BY <1>5, AddFragmentType
  <1>7. l = [m EXCEPT ![p] = e]
    BY <1>3, <1>4
  <1> HIDE DEF l
  <1>8. \A x : x \in Box(l) <=> x = e \/ (x \in Box(m) /\ x.file_id # id)
    <2> HIDE DEF e, id
    <2>1. e.file_id = id
      BY <1>4, <1>6
    <2>2. \A x : x \in Box([m EXCEPT ![p] = e])
                   <=> x = e \/ (x \in Box(m) /\ x.file_id # e.file_id)
      BY <1>3, <1>4, <1>6, BoxUpdate
    <2> QED BY <1>7, <2>1, <2>2
  <1>9. \A y \in Box(m) : y.file_id = id => y = m[p]
    BY <1>3, <1>4, <1>5, BoxFacts
  <1> HIDE DEF id
  <1>10. CASE id \in Ids(list)
    <2>1. m = list
      BY <1>3, <1>10
    <2>2. \A x : (\E y \in Box(list) : y.file_id = id /\ x = AddFragment(y, frag)) <=> x = e
      BY <1>4, <1>5, <1>9, <2>1
    <2> HIDE DEF e
    <2> QED BY <1>1, <1>8, <1>10, <2>1, <2>2 DEF id, new
  <1>11. CASE id \notin Ids(list)
    <2>1. \A y \in Box(list) : y.file_id # id
      BY <1>11, BoxFacts
    <2>2. m[p] = new
      BY <1>2, <1>3, <1>9, <1>11
    <2>3. e = AddFragment(new, frag)
      BY <2>2
    <2>4. \A x : x \in Box(m) /\ x.file_id # id <=> x \in Box(list)
      BY <1>2, <1>3, <1>11, <2>1
    <2> HIDE DEF e
    <2> QED BY <1>1, <1>8, <1>11, <2>1, <2>3, <2>4 DEF id, new
  <1> QED BY <1>10, <1>11

-----------------------------------------------------------------------------
(* Layouts: what was decided about a file when it was created, and how many rounds
   its fan-out has made *)

Layout == [size : Nat, total : Nat \ {0}, table : Tables, served : Nat]

\* The totals there are with at most one death.
Shape(l) ==
    /\ l.total \in {1, N - 2, N - 1, N}
    /\ Regular(l.size, l.total, l.table)
    /\ l.served \in 0 .. 2 * l.total
Whole(l) == l.served = 2 * l.total
FullPattern(l) ==
    l.total \in {1, N} /\ \A k \in 0 .. 2 * l.total - 1 : l.table[k].node_id = NodeAt(k)

\* The fragment that table position k is about, as a container keeps it.
Piece(l, k) ==
    [id |-> (k \div 2) + 1, off |-> FragmentOffset(l.size, l.total, k \div 2),
     size |-> FragmentSize(l.size, l.total, k \div 2)]

\* The positions served so far that name node n, and the slots n then has in use.
On(l, n) == {k \in 0 .. l.served - 1 : l.table[k].node_id = n}
Filled(l, n, s) ==
    \/ On(l, n) = {} /\ s[0] = NoSlot /\ s[1] = NoSlot
    \/ \E a \in Nat : On(l, n) = {a} /\ s[0] = Piece(l, a) /\ s[1] = NoSlot
    \/ \E a, b \in Nat : /\ a < b /\ On(l, n) = {a, b}
                         /\ s[0] = Piece(l, a) /\ s[1] = Piece(l, b)

LEMMA PieceFacts ==
    ASSUME NEW l \in Layout, Shape(l), NEW k \in 0 .. 2 * l.total - 1
    PROVE  /\ Piece(l, k) \in Slot /\ Piece(l, k).id # 0
           /\ Piece(l, k).id = (k \div 2) + 1 /\ k \div 2 \in 0 .. l.total - 1
           /\ l.table[k] = [fragment |-> Piece(l, k).id, size |-> Piece(l, k).size,
                            node_id |-> l.table[k].node_id]
           /\ l.table[k].node_id \in Node
  <1> DEFINE i == k \div 2
  <1>1. l.size \in Nat /\ l.total \in Nat \ {0}
    BY DEF Layout
  <1>2. i \in 0 .. l.total - 1
    BY <1>1
  <1>3. GoodPtr(l.size, l.total, l.table[k], k)
    BY DEF Shape, Regular
  <1>4. FragmentSize(l.size, l.total, i) \in Nat
    <2> HIDE DEF i
    <2> QED BY <1>1, <1>2, FragmentSizeType
  <1>5. FragmentOffset(l.size, l.total, i) \in Nat
    <2> HIDE DEF i
    <2>1. i \in Nat
      BY <1>1, <1>2
    <2>2. l.size \div l.total \in Nat
      BY <1>1, DivisionSplit
    <2>3. (l.size \div l.total) * i \in Nat
      BY <2>1, <2>2, ProductNat
    <2> QED BY <2>3 DEF FragmentOffset
  <1>6. Piece(l, k) = [id |-> i + 1, off |-> FragmentOffset(l.size, l.total, i),
                       size |-> FragmentSize(l.size, l.total, i)]
    BY DEF Piece
  <1>7. /\ l.table[k] = [fragment |-> i + 1, size |-> FragmentSize(l.size, l.total, i),
                         node_id |-> l.table[k].node_id]
        /\ l.table[k].node_id \in Node
    BY <1>3 DEF GoodPtr
  <1> HIDE DEF i
  <1>8. i + 1 \in Nat /\ i + 1 # 0
    BY <1>1, <1>2
  <1>9. Piece(l, k) \in Slot
    BY <1>4, <1>5, <1>6, <1>8 DEF Slot
  <1>10. Piece(l, k).id = i + 1 /\ Piece(l, k).size = FragmentSize(l.size, l.total, i)
    BY <1>6
  <1> QED BY <1>2, <1>7, <1>8, <1>9, <1>10 DEF i

\* A node has at most one position of each parity.
LEMMA OnFew ==
    ASSUME NEW l \in Layout, Shape(l), NEW n
    PROVE  /\ On(l, n) \subseteq 0 .. 2 * l.total - 1
           /\ \A a, b \in On(l, n) : a % 2 = b % 2 => a = b
           /\ \A a, b, c \in 0 .. 2 * l.total - 1 :
                l.table[a].node_id = n /\ l.table[b].node_id = n /\ l.table[c].node_id = n
                  => a = b \/ b = c \/ a = c
  <1>1. /\ l.served \in 0 .. 2 * l.total /\ l.total \in Nat \ {0}
        /\ DOMAIN l.table = 0 .. 2 * l.total - 1 /\ Spread(l.table)
    BY DEF Shape, Regular, Layout
  <1>2. On(l, n) \subseteq 0 .. 2 * l.total - 1
    BY <1>1 DEF On
  <1>3. \A a, b \in 0 .. 2 * l.total - 1 :
           a % 2 = b % 2 /\ l.table[a].node_id = l.table[b].node_id => a = b
    BY <1>1 DEF Spread
  <1>4. \A a, b \in On(l, n) : a % 2 = b % 2 => a = b
    BY <1>2, <1>3 DEF On
  <1>5. \A a \in 0 .. 2 * l.total - 1 : a % 2 = 0 \/ a % 2 = 1
    BY <1>1
  <1> QED BY <1>2, <1>3, <1>4, <1>5

\* One more round of the fan-out: a node it does not name stays as it is, and the one
\* it names puts the fragment into its first free slot.
LEMMA FilledStep ==
    ASSUME NEW l \in Layout, Shape(l), l.served < 2 * l.total, NEW n,
           NEW s \in [0 .. 1 -> Slot], Filled(l, n, s)
    PROVE  LET u == [l EXCEPT !.served = @ + 1]
               k == l.served
           IN /\ l.table[k].node_id # n => On(u, n) = On(l, n) /\ Filled(u, n, s)
              /\ l.table[k].node_id = n =>
                   /\ On(u, n) = On(l, n) \cup {k}
                   /\ Filled(u, n, [s EXCEPT ![IF s[0].id = 0 THEN 0 ELSE 1] = Piece(l, k)])
  <1> DEFINE u == [l EXCEPT !.served = @ + 1]
             k == l.served
             v == [s EXCEPT ![IF s[0].id = 0 THEN 0 ELSE 1] = Piece(l, k)]
  <1>1. /\ u.served = k + 1 /\ u.table = l.table /\ u.size = l.size /\ u.total = l.total
        /\ k \in Nat /\ k \in 0 .. 2 * l.total - 1 /\ l.total \in Nat
    BY DEF Layout
  <1> HIDE DEF u, k
  <1>2. \A a : Piece(u, a) = Piece(l, a)
    BY <1>1 DEF Piece
  <1>3. On(u, n) = IF l.table[k].node_id = n THEN On(l, n) \cup {k} ELSE On(l, n)
    <2>1. \A a : a \in 0 .. k <=> a \in 0 .. k - 1 \/ a = k
      BY <1>1
    <2>2. u.served - 1 = k
      BY <1>1
    <2> QED BY <1>1, <2>1, <2>2 DEF On, k
  <1>4. ASSUME l.table[k].node_id # n PROVE Filled(u, n, s)
    BY <1>2, <1>3, <1>4 DEF Filled
  <1>5. ASSUME l.table[k].node_id = n PROVE Filled(u, n, v)
    <2>1. \A a \in On(l, n) : a \in Nat /\ a < k /\ a \in 0 .. 2 * l.total - 1
      BY <1>1 DEF On, k
    <2>2. \A a \in On(l, n) : Piece(l, a).id # 0
      BY <2>1, PieceFacts
    <2>3. CASE On(l, n) = {} /\ s[0] = NoSlot /\ s[1] = NoSlot
      <3>1. s[0].id = 0
        BY <2>3 DEF NoSlot
      <3>2. v[0] = Piece(l, k) /\ v[1] = NoSlot
        BY <2>3, <3>1
      <3>3. On(u, n) = {k}
        BY <1>3, <1>5, <2>3
      <3> HIDE DEF v
      <3> QED BY <1>1, <1>2, <3>2, <3>3 DEF Filled
    <2>4. ASSUME NEW a \in Nat, On(l, n) = {a}, s[0] = Piece(l, a), s[1] = NoSlot
          PROVE  Filled(u, n, v)
      <3>1. s[0].id # 0 /\ a < k
        BY <2>1, <2>2, <2>4
      <3>2. v[0] = Piece(l, a) /\ v[1] = Piece(l, k)
        BY <2>4, <3>1
      <3>3. On(u, n) = {a, k}
        BY <1>3, <1>5, <2>4
      <3> HIDE DEF v
      <3> QED BY <1>1, <1>2, <3>1, <3>2, <3>3 DEF Filled
    <2>5. ASSUME NEW a \in Nat, NEW b \in Nat, a < b, On(l, n) = {a, b} PROVE FALSE
      <3>1. /\ a \in 0 .. 2 * l.total - 1 /\ b \in 0 .. 2 * l.total - 1 /\ a < k /\ b < k
            /\ l.table[a].node_id = n /\ l.table[b].node_id = n
        BY <2>1, <2>5 DEF On
      <3>2. a = b \/ b = k \/ a = k
        BY <1>1, <1>5, <3>1, OnFew
      <3> QED BY <1>1, <2>5, <3>1, <3>2
    <2> HIDE DEF v
    <2> QED BY <2>3, <2>4, <2>5 DEF Filled
  <1> QED BY <1>3, <1>4, <1>5 DEF u, k, v

-----------------------------------------------------------------------------
(* What a report writes *)

\* The positions of node n under the full view, the first one served first.
Lo(n) == IF n = 1 THEN 0 ELSE 2 * n - 3
Hi(n) == IF n = 1 THEN 2 * N - 1 ELSE 2 * n - 2

LEMMA NodeAtIs ==
    ASSUME N >= 5, NEW k \in 0 .. 2 * N - 1, NEW n \in Node
    PROVE  NodeAt(k) = n <=> k = Lo(n) \/ k = Hi(n)
  BY NodeFinite DEF NodeAt, Lo, Hi, Node

LEMMA OnFull ==
    ASSUME N >= 5, NEW l \in Layout, Shape(l), FullPattern(l), l.total = N, NEW n \in Node
    PROVE  /\ Lo(n) \in 0 .. 2 * N - 1 /\ Hi(n) \in 0 .. 2 * N - 1 /\ Lo(n) < Hi(n)
           /\ \A k : k \in On(l, n) <=> (k = Lo(n) \/ k = Hi(n)) /\ k < l.served
           /\ \A k \in 0 .. 2 * N - 1 : l.table[k].node_id = n <=> k = Lo(n) \/ k = Hi(n)
           /\ n = 1 => Lo(n) \div 2 = 0 /\ Hi(n) \div 2 = N - 1
           /\ n # 1 => Lo(n) \div 2 = n - 2 /\ Hi(n) \div 2 = n - 1
  <1>1. N \in Nat /\ Node = 1 .. N
    BY NodeFinite DEF Node
  <1>2. Lo(n) \in 0 .. 2 * N - 1 /\ Hi(n) \in 0 .. 2 * N - 1 /\ Lo(n) < Hi(n)
    BY <1>1 DEF Lo, Hi
  <1>3. \A k \in 0 .. 2 * N - 1 : l.table[k].node_id = n <=> k = Lo(n) \/ k = Hi(n)
    BY NodeAtIs DEF FullPattern
  <1>4. l.served \in 0 .. 2 * N
    BY DEF Shape
  <1>5. \A k : k \in On(l, n) <=> (k = Lo(n) \/ k = Hi(n)) /\ k < l.served
    <2>1. \A k : k \in 0 .. l.served - 1 <=> k \in 0 .. 2 * N - 1 /\ k < l.served
      BY <1>1, <1>4
    <2> HIDE DEF Lo, Hi
    <2> QED BY <1>2, <1>3, <2>1 DEF On
  <1>6. n = 1 => Lo(n) \div 2 = 0 /\ Hi(n) \div 2 = N - 1
    BY <1>1 DEF Lo, Hi
  <1>7. n # 1 => Lo(n) \div 2 = n - 2 /\ Hi(n) \div 2 = n - 1
    BY <1>1 DEF Lo, Hi
  <1> QED BY <1>2, <1>3, <1>5, <1>6, <1>7

\* Sets of one and of two writes.
One(x, p)       == {<<x, p>>}
Two(x, p, y, q) == {<<x, p>>, <<y, q>>}

LEMMA WrittenOne ==
    ASSUME NEW g, NEW x, NEW p
    PROVE  /\ DOMAIN Written(g, One(x, p)) = DOMAIN g
           /\ \A k \in DOMAIN g : Written(g, One(x, p))[k] = IF k = x THEN p ELSE g[k]
  <1> DEFINE W == {<<x, p>>}
  <1>1. ASSUME NEW k
        PROVE  (IF \E w \in W : w[1] = k THEN (CHOOSE w \in W : w[1] = k)[2] ELSE g[k])
                 = IF k = x THEN p ELSE g[k]
    <2>1. CASE k = x
      <3>1. \A w : w \in W /\ w[1] = k <=> w = <<x, p>>
        BY <2>1
      <3>2. (CHOOSE w \in W : w[1] = k) = <<x, p>>
        BY <3>1
      <3> QED BY <2>1, <3>1, <3>2
    <2>2. CASE k # x
      <3>1. ~\E w \in W : w[1] = k
        BY <2>2
      <3> QED BY <2>2, <3>1
    <2> QED BY <2>1, <2>2
  <1> HIDE DEF W
  <1>2. /\ DOMAIN Written(g, W) = DOMAIN g
        /\ \A k \in DOMAIN g : Written(g, W)[k] = IF k = x THEN p ELSE g[k]
    BY <1>1 DEF Written
  <1> QED BY <1>2 DEF W, One

LEMMA WrittenTwo ==
    ASSUME NEW g, NEW x, NEW p, NEW y, NEW q, x # y
    PROVE  /\ DOMAIN Written(g, Two(x, p, y, q)) = DOMAIN g
           /\ \A k \in DOMAIN g : Written(g, Two(x, p, y, q))[k]
                                    = IF k = x THEN p ELSE IF k = y THEN q ELSE g[k]
  <1> DEFINE W == {<<x, p>>, <<y, q>>}
  <1>1. ASSUME NEW k
        PROVE  (IF \E w \in W : w[1] = k THEN (CHOOSE w \in W : w[1] = k)[2] ELSE g[k])
                 = IF k = x THEN p ELSE IF k = y THEN q ELSE g[k]
    <2>1. CASE k = x
      <3>1. \A w : w \in W /\ w[1] = k <=> w = <<x, p>>
        BY <2>1
      <3>2. (CHOOSE w \in W : w[1] = k) = <<x, p>>
        BY <3>1
      <3> QED BY <2>1, <3>1, <3>2
    <2>2. CASE k = y
      <3>1. \A w : w \in W /\ w[1] = k <=> w = <<y, q>>
        BY <2>2
      <3>2. (CHOOSE w \in W : w[1] = k) = <<y, q>>
        BY <3>1
      <3> QED BY <2>2, <3>1, <3>2
    <2>3. CASE k # x /\ k # y
      <3>1. ~\E w \in W : w[1] = k
        BY <2>3
      <3> QED BY <2>3, <3>1
    <2> QED BY <2>1, <2>2, <2>3
  <1> HIDE DEF W
  <1>2. /\ DOMAIN Written(g, W) = DOMAIN g
        /\ \A k \in DOMAIN g : Written(g, W)[k] = IF k = x THEN p ELSE IF k = y THEN q ELSE g[k]
    BY <1>1 DEF Written
  <1> QED BY <1>2 DEF W, Two

\* The table t of a file when the nodes of H have told all they have of it.  A file of
\* one fragment is on nodes 1 and 2, and entry 0 goes to the smaller one heard.
Relisted(l, t, H) ==
    /\ DOMAIN t = 0 .. 2 * l.total - 1
    /\ l.total # 1 =>
         \A k \in DOMAIN t : /\ t[k] \in {l.table[k], NullPtr}
                             /\ Whole(l) /\ l.table[k].node_id \in H => t[k] = l.table[k]
    /\ l.total = 1 =>
         LET a == 1 \in H /\ l.served > 0
             b == 2 \in H /\ l.served > 1
         IN /\ t[0] = IF a THEN l.table[0] ELSE IF b THEN l.table[1] ELSE NullPtr
            /\ t[1] = IF a /\ b THEN l.table[1] ELSE NullPtr

\* What a report of a slot in use says is what the table said.
LEMMA ReportedIs ==
    ASSUME NEW l \in Layout, Shape(l), NEW c, NEW m, NEW k \in 0 .. 2 * l.total - 1,
           l.table[k].node_id = m, NEW j \in {0, 1}, c.slots[j] = Piece(l, k)
    PROVE  Reported(c, m, j) = l.table[k] /\ l.table[k].fragment = (k \div 2) + 1
                                          /\ l.table[k].fragment # 0
  <1>1. /\ Piece(l, k).id # 0 /\ Piece(l, k).id = (k \div 2) + 1
        /\ l.table[k] = [fragment |-> Piece(l, k).id, size |-> Piece(l, k).size, node_id |-> m]
    BY PieceFacts
  <1>2. l.table[k].fragment = Piece(l, k).id
    BY <1>1
  <1> QED BY <1>1, <1>2 DEF Reported

\* The report of node m on its container of a file.
Reporter(l, c, m) ==
    /\ l \in Layout /\ Shape(l) /\ FullPattern(l)
    /\ m \in Node /\ c.total = l.total /\ Filled(l, m, c.slots) /\ On(l, m) # {}

\* A file cut into N fragments: a node with both its fragments writes its two
\* entries, a node with one writes outside the table.
LEMMA FileMany ==
    ASSUME N >= 5, NEW l, NEW c, NEW m, Reporter(l, c, m), l.total # 1,
           NEW H, NEW g, Relisted(l, g, H)
    PROVE  Relisted(l, Written(g, Writes(g, c, m)), H \cup {m})
  <1>0. /\ l \in Layout /\ Shape(l) /\ FullPattern(l)
        /\ m \in Node /\ c.total = l.total /\ Filled(l, m, c.slots) /\ On(l, m) # {}
    BY DEF Reporter
  <1> DEFINE lo == Lo(m)
             hi == Hi(m)
             r0 == Reported(c, m, 0)
             r1 == Reported(c, m, 1)
             t == Written(g, Writes(g, c, m))
             place == (r1.fragment - 1) * REDUNDANCY
             last == c.total * REDUNDANCY - 1
  <1>1. N \in Nat /\ l.total = N /\ m \in 1 .. N
    BY <1>0, NodeFinite DEF FullPattern, Node
  <1>2. /\ lo \in 0 .. 2 * N - 1 /\ hi \in 0 .. 2 * N - 1 /\ lo < hi
        /\ \A k : k \in On(l, m) <=> (k = lo \/ k = hi) /\ k < l.served
        /\ \A k \in 0 .. 2 * N - 1 : l.table[k].node_id = m <=> k = lo \/ k = hi
        /\ m = 1 => lo \div 2 = 0 /\ hi \div 2 = N - 1
        /\ m # 1 => lo \div 2 = m - 2 /\ hi \div 2 = m - 1
    BY <1>0, <1>1, OnFull
  <1>3. /\ DOMAIN g = 0 .. 2 * N - 1
        /\ \A k \in 0 .. 2 * N - 1 :
              /\ g[k] \in {l.table[k], NullPtr}
              /\ Whole(l) /\ l.table[k].node_id \in H => g[k] = l.table[k]
    BY <1>1 DEF Relisted
  <1>4. l.served \in 0 .. 2 * N
    BY <1>0, <1>1 DEF Shape
  <1>5. CASE hi < l.served
    <2>1. On(l, m) = {lo, hi}
      BY <1>2, <1>4, <1>5
    <2>2. c.slots[0] = Piece(l, lo) /\ c.slots[1] = Piece(l, hi)
      <3>1. PICK a, b \in Nat : /\ a < b /\ On(l, m) = {a, b}
                                /\ c.slots[0] = Piece(l, a) /\ c.slots[1] = Piece(l, b)
        <4>1. lo # hi /\ lo \in On(l, m) /\ hi \in On(l, m)
          BY <1>2, <2>1
        <4> HIDE DEF lo, hi
        <4> QED BY <1>0, <4>1 DEF Filled
      <3>2. a = lo /\ b = hi
        <4>1. lo \in Nat /\ hi \in Nat /\ lo < hi
          BY <1>1, <1>2
        <4> HIDE DEF lo, hi
        <4> QED BY <2>1, <3>1, <4>1
      <3> QED BY <3>1, <3>2
    <2>3. /\ r0 = l.table[lo] /\ r0.fragment = (lo \div 2) + 1
          /\ r1 = l.table[hi] /\ r1.fragment = (hi \div 2) + 1
      <3>1. /\ lo \in 0 .. 2 * l.total - 1 /\ l.table[lo].node_id = m
            /\ hi \in 0 .. 2 * l.total - 1 /\ l.table[hi].node_id = m
        BY <1>1, <1>2
      <3> HIDE DEF lo, hi
      <3>2. Reported(c, m, 0) = l.table[lo] /\ l.table[lo].fragment = (lo \div 2) + 1
        BY <1>0, <2>2, <3>1, ReportedIs
      <3>3. Reported(c, m, 1) = l.table[hi] /\ l.table[hi].fragment = (hi \div 2) + 1
        BY <1>0, <2>2, <3>1, ReportedIs
      <3> QED BY <3>2, <3>3
    <2>4. Writes(g, c, m) = {<<lo, l.table[lo]>>, <<hi, l.table[hi]>>}
      <3>1. CASE m = 1
        <4>1. r1.fragment - r0.fragment > 1 /\ lo = 0 /\ hi = last
          <5>1. lo = 0 /\ hi = last
            BY <1>0, <1>1, <3>1 DEF Lo, Hi, REDUNDANCY
          <5> HIDE DEF lo, hi, last, r0, r1
          <5>2. r0.fragment = 1 /\ r1.fragment = N
            BY <1>1, <1>2, <2>3, <3>1
          <5> QED BY <1>1, <5>1, <5>2
        <4>2. Writes(g, c, m) = {<<0, r0>>, <<last, r1>>}
          <5> HIDE DEF r0, r1, lo, hi
          <5> QED BY <1>0, <1>1, <4>1 DEF Writes, r0, r1
        <4> QED BY <2>3, <4>1, <4>2
      <3>2. CASE m # 1
        <4>1. ~(r1.fragment - r0.fragment > 1) /\ lo = place - 1 /\ hi = place
          BY <1>1, <1>2, <2>3, <3>2 DEF Lo, Hi, REDUNDANCY
        <4>2. Writes(g, c, m) = {<<place - 1, r0>>, <<place, r1>>}
          <5> HIDE DEF r0, r1, lo, hi
          <5> QED BY <1>0, <1>1, <4>1 DEF Writes, r0, r1
        <4> QED BY <2>3, <4>1, <4>2
      <3> QED BY <3>1, <3>2
    <2>5. /\ DOMAIN t = DOMAIN g
          /\ \A k \in DOMAIN g : t[k] = IF k = lo THEN l.table[lo]
                                        ELSE IF k = hi THEN l.table[hi] ELSE g[k]
      <3> HIDE DEF lo, hi
      <3>1. lo # hi
        BY <1>2
      <3> DEFINE p == l.table[lo]
                 q == l.table[hi]
      <3> HIDE DEF p, q
      <3>2. /\ DOMAIN Written(g, Two(lo, p, hi, q)) = DOMAIN g
            /\ \A k \in DOMAIN g : Written(g, Two(lo, p, hi, q))[k]
                                     = IF k = lo THEN p ELSE IF k = hi THEN q ELSE g[k]
        BY <3>1, WrittenTwo
      <3> QED BY <2>4, <3>2 DEF p, q, Two
    <2> HIDE DEF t, lo, hi
    <2>6. \A k \in 0 .. 2 * N - 1 :
             /\ t[k] \in {l.table[k], NullPtr}
             /\ Whole(l) /\ l.table[k].node_id \in H \cup {m} => t[k] = l.table[k]
      BY <1>2, <1>3, <2>5
    <2> QED BY <1>1, <1>3, <2>5, <2>6 DEF Relisted, t
  <1>6. CASE ~(hi < l.served)
    <2>1. On(l, m) = {lo} /\ lo < l.served
      <3> HIDE DEF lo, hi
      <3> QED BY <1>0, <1>2, <1>6
    <2>2. c.slots[0] = Piece(l, lo) /\ c.slots[1] = NoSlot
      <3>1. PICK a \in Nat : On(l, m) = {a} /\ c.slots[0] = Piece(l, a) /\ c.slots[1] = NoSlot
        <4> HIDE DEF lo
        <4> QED BY <1>0, <2>1 DEF Filled
      <3>2. a = lo
        BY <2>1, <3>1
      <3> QED BY <3>1, <3>2
    <2>3. r0 = l.table[lo] /\ r0.fragment = (lo \div 2) + 1
      <3>1. lo \in 0 .. 2 * l.total - 1 /\ l.table[lo].node_id = m
        BY <1>1, <1>2
      <3> HIDE DEF lo
      <3>2. Reported(c, m, 0) = l.table[lo] /\ l.table[lo].fragment = (lo \div 2) + 1
        BY <1>0, <2>2, <3>1, ReportedIs
      <3> QED BY <3>2
    <2>4. r1 = NullPtr /\ r1.fragment = 0
      BY <2>2 DEF Reported, NoSlot, NullPtr
    <2>5. Writes(g, c, m) = {<<0 - 3, r0>>, <<0 - 2, r1>>}
      <3>1. ~(r1.fragment - r0.fragment > 1) /\ place = 0 - 2 /\ place - 1 = 0 - 3
        <4>1. lo \div 2 \in Nat
          BY <1>2
        <4> HIDE DEF r0, r1, lo
        <4> QED BY <2>3, <2>4, <4>1 DEF REDUNDANCY
      <3>2. Writes(g, c, m) = {<<place - 1, r0>>, <<place, r1>>}
        <4> HIDE DEF r0, r1, lo, hi
        <4> QED BY <1>0, <1>1, <3>1 DEF Writes, r0, r1
      <3> QED BY <3>1, <3>2
    <2>6. /\ DOMAIN t = DOMAIN g
          /\ \A k \in DOMAIN g : t[k] = IF k = 0 - 3 THEN r0 ELSE IF k = 0 - 2 THEN r1 ELSE g[k]
      <3> HIDE DEF r0, r1
      <3> DEFINE x == 0 - 3
                 y == 0 - 2
      <3>1. x # y
        OBVIOUS
      <3> HIDE DEF x, y
      <3>2. /\ DOMAIN Written(g, Two(x, r0, y, r1)) = DOMAIN g
            /\ \A k \in DOMAIN g : Written(g, Two(x, r0, y, r1))[k]
                                     = IF k = x THEN r0 ELSE IF k = y THEN r1 ELSE g[k]
        BY <3>1, WrittenTwo
      <3> QED BY <2>5, <3>2 DEF x, y, Two
    <2> HIDE DEF t, r0, r1, lo, hi
    <2>7. DOMAIN t = 0 .. 2 * N - 1 /\ \A k \in 0 .. 2 * N - 1 : t[k] = g[k]
      BY <1>1, <1>3, <2>6
    <2>8. ~Whole(l)
      BY <1>1, <1>2, <1>4, <1>6 DEF Whole
    <2> QED BY <1>1, <1>3, <2>7, <2>8 DEF Relisted, t
  <1> QED BY <1>5, <1>6

\* A file of one fragment: nodes 1 and 2 report it, in either order.
LEMMA FileOne ==
    ASSUME N >= 5, NEW l, NEW c, NEW m, Reporter(l, c, m), l.total = 1,
           NEW H, m \notin H, NEW g, Relisted(l, g, H)
    PROVE  Relisted(l, Written(g, Writes(g, c, m)), H \cup {m})
  <1>0. /\ l \in Layout /\ Shape(l) /\ FullPattern(l)
        /\ m \in Node /\ c.total = l.total /\ Filled(l, m, c.slots) /\ On(l, m) # {}
    BY DEF Reporter
  <1> DEFINE a == 1 \in H /\ l.served > 0
             b == 2 \in H /\ l.served > 1
             r0 == Reported(c, m, 0)
             t == Written(g, Writes(g, c, m))
  <1>1. /\ DOMAIN g = 0 .. 1 /\ 0 .. 2 * l.total - 1 = 0 .. 1
        /\ g[0] = IF a THEN l.table[0] ELSE IF b THEN l.table[1] ELSE NullPtr
        /\ g[1] = IF a /\ b THEN l.table[1] ELSE NullPtr
    BY DEF Relisted
  <1>2. l.served \in 0 .. 2 /\ l.table[0].node_id = 1 /\ l.table[1].node_id = 2
    BY <1>0, NodeFinite DEF Shape, FullPattern, NodeAt
  <1>3. /\ m = 1 \/ m = 2
        /\ On(l, m) = {m - 1} /\ m - 1 < l.served
    BY <1>0, <1>1, <1>2, NodeFinite DEF On, Shape, Regular, GoodPtr, Node
  <1>4. c.slots[0] = Piece(l, m - 1)
    <2>1. PICK x \in Nat : On(l, m) = {x} /\ c.slots[0] = Piece(l, x)
      BY <1>0, <1>3 DEF Filled
    <2> QED BY <1>3, <2>1
  <1>5. r0 = l.table[m - 1]
    <2> DEFINE k == m - 1
    <2>1. k \in 0 .. 2 * l.total - 1 /\ l.table[k].node_id = m /\ c.slots[0] = Piece(l, k)
      BY <1>1, <1>2, <1>3, <1>4
    <2> HIDE DEF k
    <2>2. Reported(c, m, 0) = l.table[k]
      BY <1>0, <2>1, ReportedIs
    <2> QED BY <2>2 DEF k
  <1>6. \A k \in 0 .. 1 : l.table[k].fragment # 0
    <2>1. \A k \in 0 .. 1 : /\ Piece(l, k).id # 0
                             /\ l.table[k] = [fragment |-> Piece(l, k).id, size |-> Piece(l, k).size,
                                              node_id |-> l.table[k].node_id]
      BY <1>0, <1>1, PieceFacts
    <2> QED BY <2>1
  <1>7. NullPtr.fragment = 0 /\ c.total = 1
    BY <1>0 DEF NullPtr
  <1> HIDE DEF r0
  <1>8. CASE g[0].fragment = 0
    <2>1. Writes(g, c, m) = {<<0, r0>>}
      BY <1>7, <1>8 DEF Writes, r0
    <2>2. DOMAIN t = DOMAIN g /\ \A k \in DOMAIN g : t[k] = IF k = 0 THEN r0 ELSE g[k]
      <3> DEFINE x == 0
      <3> HIDE DEF x
      <3>1. /\ DOMAIN Written(g, One(x, r0)) = DOMAIN g
            /\ \A k \in DOMAIN g : Written(g, One(x, r0))[k] = IF k = x THEN r0 ELSE g[k]
        BY WrittenOne
      <3> QED BY <2>1, <3>1 DEF x, One
    <2>3. ~a /\ ~b
      BY <1>1, <1>6, <1>8
    <2>4. DOMAIN t = 0 .. 1 /\ t[0] = l.table[m - 1] /\ t[1] = NullPtr
      BY <1>1, <1>5, <2>2, <2>3
    <2> HIDE DEF t
    <2>5. CASE m = 1
      BY <1>1, <1>3, <2>3, <2>4, <2>5 DEF Relisted, t
    <2>6. CASE m = 2
      BY <1>1, <1>3, <2>3, <2>4, <2>6 DEF Relisted, t
    <2> QED BY <1>3, <2>5, <2>6
  <1>9. CASE g[0].fragment # 0 /\ m = 1
    <2>1. ~a /\ b /\ g[0] = l.table[1]
      BY <1>1, <1>7, <1>9
    <2>2. g[0].node_id >= m
      BY <1>2, <1>9, <2>1
    <2>3. Writes(g, c, m) = {<<1, g[0]>>, <<0, r0>>}
      BY <1>2, <1>7, <1>9, <2>1, <2>2 DEF Writes, r0
    <2>4. /\ DOMAIN t = DOMAIN g
          /\ \A k \in DOMAIN g : t[k] = IF k = 1 THEN g[0] ELSE IF k = 0 THEN r0 ELSE g[k]
      <3> DEFINE p == g[0]
                 x == 1
                 y == 0
      <3>1. x # y
        OBVIOUS
      <3> HIDE DEF p, x, y
      <3>2. /\ DOMAIN Written(g, Two(x, p, y, r0)) = DOMAIN g
            /\ \A k \in DOMAIN g : Written(g, Two(x, p, y, r0))[k]
                                     = IF k = x THEN p ELSE IF k = y THEN r0 ELSE g[k]
        BY <3>1, WrittenTwo
      <3> QED BY <2>3, <3>2 DEF p, x, y, Two
    <2>5. DOMAIN t = 0 .. 1 /\ t[0] = l.table[0] /\ t[1] = l.table[1]
      BY <1>1, <1>5, <1>9, <2>1, <2>4
    <2> HIDE DEF t
    <2> QED BY <1>1, <1>3, <1>9, <2>1, <2>5 DEF Relisted, t
  <1>10. CASE g[0].fragment # 0 /\ m = 2
    <2>1. a /\ ~b /\ g[0] = l.table[0]
      BY <1>1, <1>7, <1>10
    <2>2. g[0].node_id < m
      BY <1>2, <1>10, <2>1
    <2>3. Writes(g, c, m) = {<<1, r0>>}
      BY <1>2, <1>7, <1>10, <2>1, <2>2 DEF Writes, r0
    <2>4. DOMAIN t = DOMAIN g /\ \A k \in DOMAIN g : t[k] = IF k = 1 THEN r0 ELSE g[k]
      <3> DEFINE x == 1
      <3> HIDE DEF x
      <3>1. /\ DOMAIN Written(g, One(x, r0)) = DOMAIN g
            /\ \A k \in DOMAIN g : Written(g, One(x, r0))[k] = IF k = x THEN r0 ELSE g[k]
        BY WrittenOne
      <3> QED BY <2>3, <3>1 DEF x, One
    <2>5. DOMAIN t = 0 .. 1 /\ t[0] = l.table[0] /\ t[1] = l.table[1]
      BY <1>1, <1>5, <1>10, <2>1, <2>4
    <2> HIDE DEF t
    <2> QED BY <1>1, <1>3, <1>10, <2>1, <2>5 DEF Relisted, t
  <1> QED BY <1>3, <1>8, <1>9, <1>10

\* Only the nodes that hold something of the file matter.
LEMMA RelistedSame ==
    ASSUME N >= 5, NEW l \in Layout, Shape(l), FullPattern(l), NEW t, NEW H, NEW G,
           \A m \in Node : On(l, m) # {} => (m \in H <=> m \in G), Relisted(l, t, H)
    PROVE  Relisted(l, t, G)
  <1>1. N \in Nat /\ Node = 1 .. N
    BY NodeFinite DEF Node
  <1>2. CASE l.total # 1
    <2>1. ASSUME NEW k \in 0 .. 2 * l.total - 1, Whole(l), l.table[k].node_id \in G
          PROVE  l.table[k].node_id \in H
      <3>1. l.table[k].node_id \in Node /\ k \in On(l, l.table[k].node_id)
        BY <2>1, PieceFacts DEF On, Whole
      <3> QED BY <2>1, <3>1
    <2> QED BY <1>2, <2>1 DEF Relisted
  <1>3. CASE l.total = 1
    <2>1. l.served \in 0 .. 2 /\ l.table[0].node_id = 1 /\ l.table[1].node_id = 2
      BY <1>1, <1>3 DEF Shape, FullPattern, NodeAt
    <2>2. 1 \in Node /\ 2 \in Node
      BY <1>1
    <2>3. l.served > 0 => 0 \in On(l, 1)
      BY <2>1 DEF On
    <2>4. l.served > 1 => 1 \in On(l, 2)
      BY <2>1 DEF On
    <2> QED BY <1>3, <2>2, <2>3, <2>4 DEF Relisted
  <1> QED BY <1>2, <1>3

LEMMA RelistedEmpty ==
    ASSUME NEW l \in Layout
    PROVE  Relisted(l, EmptyTable(l.total), {})
  <1> DEFINE t == EmptyTable(l.total)
  <1>1. DOMAIN t = 0 .. 2 * l.total - 1 /\ l.total \in Nat \ {0}
    BY DEF EmptyTable, REDUNDANCY, Layout
  <1>2. \A k \in 0 .. 2 * l.total - 1 : t[k] = NullPtr
    BY <1>1 DEF EmptyTable
  <1> HIDE DEF t
  <1>3. 0 \in 0 .. 2 * l.total - 1 /\ 1 \in 0 .. 2 * l.total - 1
    BY <1>1
  <1> QED BY <1>1, <1>2, <1>3 DEF Relisted, t

\* When node 1 and every other survivor has told all it has, the table has what they hold.
LEMMA RelistedEnd ==
    ASSUME N >= 5, NEW l \in Layout, Shape(l), FullPattern(l), NEW t, NEW H, 1 \in H,
           Relisted(l, t, H)
    PROVE  /\ DOMAIN t = 0 .. 2 * l.total - 1
           /\ \A k \in DOMAIN t :
                /\ t[k] \in {l.table[k], NullPtr}
                /\ Whole(l) /\ l.table[k].node_id \in H => t[k] = l.table[k]
  <1>1. CASE l.total # 1
    BY <1>1 DEF Relisted
  <1>2. CASE l.total = 1
    <2>1. l.served \in 0 .. 2 /\ l.table[0].node_id = 1 /\ l.table[1].node_id = 2
      BY <1>2, NodeFinite DEF Shape, FullPattern, NodeAt
    <2>2. /\ DOMAIN t = 0 .. 1
          /\ t[0] = IF l.served > 0 THEN l.table[0] ELSE NullPtr
          /\ t[1] = IF l.served > 1 /\ 2 \in H THEN l.table[1] ELSE NullPtr
      BY <1>2, <2>1 DEF Relisted
    <2>3. Whole(l) => l.served = 2
      BY <1>2 DEF Whole
    <2>4. \A k \in DOMAIN t : k = 0 \/ k = 1
      BY <2>2
    <2> QED BY <1>2, <2>1, <2>2, <2>3, <2>4
  <1> QED BY <1>1, <1>2

\* xprocedure_save_file_to_index changes the entry of its file and no other, and adds
\* an empty container when the new index has none.
TableSaved(idx, new, c, n) ==
    \A f \in Box(new) :
        \/ f \in Box(idx) /\ f.file_id # c.file_id
        \/ /\ f.file_id = c.file_id
           /\ \E g : /\ f.fragments = Written(g, Writes(g, c, n))
                     /\ \/ c.file_id \notin Ids(idx) /\ g = EmptyTable(c.total)
                        \/ \E h \in Box(idx) : h.file_id = c.file_id /\ h.fragments = g
OwnSaved(own, new, c) ==
    \A x : x \in Box(new) <=>
        \/ x \in Box(own)
        \/ c.file_id \notin Ids(own) /\ x = Container(c.file_id, c.size, c.total)

LEMMA SaveFileBox ==
    ASSUME NEW idx \in Seq(FileInNetwork), Distinct(idx),
           NEW own \in Seq(FileContainer), NEW bad, NEW c \in FileContainer, NEW n \in Node
    PROVE  LET s == SaveFile([idx |-> idx, own |-> own, corrupt |-> bad], c, n) IN
           TableSaved(idx, s.idx, c, n) /\ OwnSaved(own, s.own, c)
  <1> DEFINE s == SaveFile([idx |-> idx, own |-> own, corrupt |-> bad], c, n)
             id == c.file_id
             newi == [file_id |-> id, fragments |-> EmptyTable(c.total)]
             newo == Container(id, c.size, c.total)
             i == IF PosOf(idx, id) # 0 THEN idx ELSE Append(idx, newi)
             p == PosOf(i, id)
             g == i[p].fragments
             w == Writes(g, c, n)
             e == [i[p] EXCEPT !.fragments = Written(@, w)]
  <1>1. id \in Nat /\ c.size \in Nat /\ c.total \in Nat \ {0}
    BY DEF FileContainer
  <1>2. newi \in FileInNetwork /\ newi.file_id = id /\ newi.fragments = EmptyTable(c.total)
    BY <1>1, EmptyTableType DEF FileInNetwork
  <1>4. /\ s.own = IF PosOf(own, id) # 0 THEN own ELSE Append(own, newo)
        /\ s.idx = [i EXCEPT ![p].fragments = Written(@, w)]
    BY DEF SaveFile
  <1> HIDE DEF newi, newo, s
  <1>5. \A x : x \in Box(s.own) <=> x \in Box(own) \/ (id \notin Ids(own) /\ x = newo)
    <2>1. CASE id \in Ids(own)
      <3>1. s.own = own
        BY <1>4, <2>1, PosFound
      <3> QED BY <2>1, <3>1
    <2>2. CASE id \notin Ids(own)
      <3>1. s.own = Append(own, newo)
        BY <1>4, <2>2, PosFound
      <3>2. Box(Append(own, newo)) = Box(own) \cup {newo}
        BY BoxAppend
      <3> QED BY <2>2, <3>1, <3>2
    <2> QED BY <2>1, <2>2
  <1>6. /\ i \in Seq(FileInNetwork) /\ id \in Ids(i) /\ Distinct(i)
        /\ id \in Ids(idx) => i = idx
        /\ id \notin Ids(idx) => Box(i) = Box(idx) \cup {newi}
    <2>1. CASE id \in Ids(idx)
      <3>1. i = idx
        BY <2>1, PosFound
      <3> QED BY <2>1, <3>1
    <2>2. CASE id \notin Ids(idx)
      <3>1. i = Append(idx, newi)
        BY <2>2, PosFound
      <3>2. /\ Append(idx, newi) \in Seq(FileInNetwork)
            /\ Ids(Append(idx, newi)) = Ids(idx) \cup {newi.file_id}
            /\ Distinct(idx) /\ newi.file_id \notin Ids(idx) => Distinct(Append(idx, newi))
        BY <1>2, AppendFile
      <3>3. Box(Append(idx, newi)) = Box(idx) \cup {newi}
        BY BoxAppend
      <3> QED BY <1>2, <2>2, <3>1, <3>2, <3>3
    <2> QED BY <2>1, <2>2
  <1> HIDE DEF i
  <1>7. p \in DOMAIN i /\ i[p].file_id = id
    BY <1>6, PosFound
  <1> HIDE DEF p
  <1>8. i[p] \in FileInNetwork /\ i[p] \in Box(i)
    BY <1>6, <1>7 DEF Box
  <1>9. e.file_id = id /\ e.fragments = Written(g, w) /\ s.idx = [i EXCEPT ![p] = e]
    <2> HIDE DEF w
    <2> QED BY <1>4, <1>6, <1>7, <1>8 DEF FileInNetwork
  <1> HIDE DEF e, w, id
  <1>10. \A x : x \in Box(s.idx) <=> x = e \/ (x \in Box(i) /\ x.file_id # id)
    <2>1. e.file_id = i[p].file_id
      BY <1>7, <1>9
    <2>2. \A x : x \in Box([i EXCEPT ![p] = e])
                   <=> x = e \/ (x \in Box(i) /\ x.file_id # e.file_id)
      BY <1>6, <1>7, <2>1, BoxUpdate
    <2> QED BY <1>9, <2>2
  <1>11. \/ id \notin Ids(idx) /\ g = EmptyTable(c.total)
         \/ \E h \in Box(idx) : h.file_id = id /\ h.fragments = g
    <2>1. CASE id \in Ids(idx)
      BY <1>6, <1>7, <1>8, <2>1
    <2>2. CASE id \notin Ids(idx)
      <3>1. i[p] = newi \/ i[p] \in Box(idx)
        BY <1>6, <1>8, <2>2
      <3>2. i[p] \notin Box(idx)
        BY <1>7, <2>2, BoxFacts
      <3> QED BY <1>2, <2>2, <3>1, <3>2
    <2> QED BY <2>1, <2>2
  <1>12. ASSUME NEW f \in Box(s.idx)
         PROVE  \/ f \in Box(idx) /\ f.file_id # id
                \/ /\ f.file_id = id
                   /\ \E gg : /\ f.fragments = Written(gg, Writes(gg, c, n))
                              /\ \/ id \notin Ids(idx) /\ gg = EmptyTable(c.total)
                                 \/ \E h \in Box(idx) : h.file_id = id /\ h.fragments = gg
    <2>1. CASE f = e
      <3>1. f.fragments = Written(g, Writes(g, c, n)) /\ f.file_id = id
        BY <1>9, <2>1 DEF w
      <3> HIDE DEF g
      <3> QED BY <1>11, <3>1
    <2>2. CASE f \in Box(i) /\ f.file_id # id
      BY <1>2, <1>6, <2>2
    <2> QED BY <1>10, <2>1, <2>2
  <1>13. TableSaved(idx, s.idx, c, n)
    BY <1>12 DEF TableSaved, id
  <1>14. OwnSaved(own, s.own, c)
    BY <1>5 DEF OwnSaved, id, newo
  <1> QED BY <1>13, <1>14 DEF s

-----------------------------------------------------------------------------
(* Who is index, and what it knows of the nodes *)

\* Node N has learned of no death.
Untold == \A d \in Node : N \notin aware[d]

\* Node N is the index as long as it lives, and N - 1 after it.  The index has the
\* addresses of the nodes it has not counted as dead; a new one, of those that have
\* reported.
Phase ==
    /\ N \in alive => /\ known_peers = N - 1
                      /\ peer_ips = {n \in Node : n # N /\ N \notin aware[n]}
    /\ N \notin alive => Untold
    /\ leader # N => /\ leader = N - 1 /\ N \notin alive /\ leader \in aware[N]
                     /\ peer_ips \cup reporters = 1 .. N - 2 /\ peer_ips \cap reporters = {}
                     /\ known_peers = Cardinality(peer_ips)

OneDeath == \A a, b \in Dead : a = b

Base == CInv /\ Numbering /\ OneDeath /\ Phase

LEMMA OneDeathAtMost ==
    ASSUME MaxCrashes <= 1
    PROVE  CInv => OneDeath
  <1> SUFFICES ASSUME CInv, NEW a \in Dead, NEW b \in Dead, a # b PROVE FALSE
    BY DEF OneDeath
  <1>1. IsFiniteSet(Dead)
    BY NodeFinite, FS_Subset DEF Dead
  <1>2. IsFiniteSet({a}) /\ Cardinality({a}) = 1
    BY FS_Singleton
  <1>3. Cardinality({a} \cup {b}) = 2
    BY <1>2, FS_AddElement
  <1>4. Cardinality({a} \cup {b}) <= Cardinality(Dead)
    <2>1. {a} \cup {b} \subseteq Dead
      OBVIOUS
    <2> QED BY <1>1, <2>1, FS_Subset
  <1>5. Cardinality(Dead) \in Nat /\ Cardinality(Dead) <= MaxCrashes
    BY <1>1, FS_CardinalityType DEF CInv, Counts
  <1> QED BY <1>3, <1>4, <1>5, CatalogConstants

LEMMA PredIs ==
    ASSUME NEW n \in Node
    PROVE  Pred(n) = IF n = 1 THEN N ELSE n - 1
  <1>1. N \in Nat \ {0} /\ n \in 1 .. N /\ n - 2 + N \in Nat
    BY NodeFinite DEF Node
  <1> DEFINE a == n - 2 + N
  <1>2. a \in Nat
    BY <1>1
  <1> HIDE DEF a
  <1>3. /\ a < N => a % N = a
        /\ N <= a /\ a < N + N => a % N = a - N
    BY <1>1, <1>2, Residue
  <1>4. a = n - 2 + N /\ Pred(n) = (a % N) + 1
    BY DEF Pred, a
  <1> QED BY <1>1, <1>3, <1>4

\* The counters of a node that has counted no death, and of one that has counted d.
LEMMA NetSizeIs ==
    ASSUME CInv, OneDeath, NEW n \in Node
    PROVE  /\ (\A d \in Node : n \notin aware[d]) => death_count[n] = 0 /\ net_size[n] = N
           /\ \A d \in Node : n \in aware[d] =>
                /\ d \in Dead /\ KnownDead(n) = {d} /\ death_count[n] = 1
                /\ net_size[n] = IF d = Pred(n) THEN N - 2 ELSE N - 1
  <1>1. /\ death_count[n] = Cardinality(KnownDead(n)) /\ net_size[n] \in Int
        /\ net_size[n] + death_count[n] <= N /\ N <= net_size[n] + 2 * death_count[n]
    BY DEF CInv, Counts, TypeInv
  <1>2. N \in Nat
    BY NodeFinite
  <1>3. ASSUME \A d \in Node : n \notin aware[d] PROVE death_count[n] = 0 /\ net_size[n] = N
    <2>1. KnownDead(n) = {}
      BY <1>3 DEF KnownDead
    <2>2. Cardinality({}) = 0
      BY FS_EmptySet
    <2> QED BY <1>1, <1>2, <2>1, <2>2
  <1>4. ASSUME NEW d \in Node, n \in aware[d]
        PROVE  /\ d \in Dead /\ KnownDead(n) = {d} /\ death_count[n] = 1
               /\ net_size[n] = IF d = Pred(n) THEN N - 2 ELSE N - 1
    <2>1. d \in Dead /\ \A x \in Node : n \in aware[x] => x \in Dead
      BY <1>4 DEF CInv, Counts
    <2>2. KnownDead(n) = {d}
      BY <1>4, <2>1 DEF KnownDead, OneDeath
    <2>3. Cardinality({d}) = 1
      BY FS_Singleton
    <2>4. Dead = {d}
      BY <2>1 DEF OneDeath
    <2>5. net_size[n] + death_count[n] = N - (IF d = Pred(n) THEN 1 ELSE 0)
      BY <1>4, <2>4 DEF CInv, Counts
    <2> QED BY <1>1, <1>2, <2>1, <2>2, <2>3, <2>5
  <1> QED BY <1>3, <1>4

LEMMA PhaseInit == N >= 5 /\ Init => Phase
  <1> SUFFICES ASSUME N >= 5, Init PROVE Phase
    OBVIOUS
  <1>1. /\ alive = Node /\ leader = N /\ known_peers = N - 1 /\ peer_ips = Node \ {N}
        /\ \A d \in Node : aware[d] = {}
    BY DEF Init
  <1>2. N \in alive
    BY <1>1, NodeFinite
  <1> QED BY <1>1, <1>2 DEF Phase

\* The new index is N - 1: it is the only node whose net_size is its own id.
LEMMA ElectPhase ==
    ASSUME N >= 5, Base, NEW i \in Node, Elect(i)
    PROVE  Phase' /\ i = N - 1 /\ leader = N /\ N \notin alive /\ alive = 1 .. N - 1
  <1>1. /\ leader \in Dead /\ i \in alive /\ aware[leader] = alive /\ net_size[i] = i
        /\ leader' = i /\ peer_ips' = {} /\ known_peers' = 0 /\ reporters' = alive \ {i}
        /\ UNCHANGED <<alive, aware>>
    BY DEF Elect
  <1>2. N \in Nat /\ Node = 1 .. N /\ N \in Node
    BY NodeFinite DEF Node
  <1>3. leader = N /\ N \notin alive
    <2>1. N \notin alive
      BY <1>1 DEF Base, Numbering, Dead
    <2>2. N \in Dead
      BY <1>2, <2>1 DEF Dead
    <2> QED BY <1>1, <2>1, <2>2 DEF Base, OneDeath
  <1>4. alive = 1 .. N - 1
    <2>1. alive \subseteq Node /\ Dead = {N}
      BY <1>1, <1>3 DEF Base, OneDeath, CInv, TypeInv
    <2>2. \A x : x \in alive <=> x \in Node /\ x # N
      BY <2>1 DEF Dead
    <2>3. \A x : x \in 1 .. N - 1 <=> x \in 1 .. N /\ x # N
      BY <1>2
    <2>4. \A x : x \in alive <=> x \in 1 .. N - 1
      BY <1>2, <2>2, <2>3
    <2> QED BY <2>4, Zenon
  <1>5. net_size[i] = IF N = Pred(i) THEN N - 2 ELSE N - 1
    BY <1>1, <1>2, <1>3, NetSizeIs DEF Base
  <1>6. Pred(i) = IF i = 1 THEN N ELSE i - 1
    BY PredIs
  <1>7. i = N - 1
    BY <1>1, <1>2, <1>5, <1>6
  <1>8. Cardinality({}) = 0
    BY FS_EmptySet
  <1>9. alive \ {i} = 1 .. N - 2
    BY <1>2, <1>4, <1>7
  <1>10. Untold
    BY <1>3 DEF Base, Phase
  <1>11. Untold'
    BY <1>1, <1>10 DEF Untold
  <1>12. i \in aware[N]
    BY <1>1, <1>3
  <1> QED BY <1>1, <1>2, <1>3, <1>4, <1>7, <1>8, <1>9, <1>11, <1>12 DEF Phase

\* A crash is the first one, and finds node N in office.
LEMMA CrashPhase ==
    ASSUME N >= 5, MaxCrashes <= 1, Base, NEW d \in Node, Crash(d)
    PROVE  /\ Phase' /\ alive = Node /\ leader = N
           /\ ~Rebuilding /\ Untold /\ \A x \in Node : aware[x] = {}
  <1>1. /\ d \in alive /\ Cardinality(Dead) < MaxCrashes /\ reporters = {} /\ reports = <<>>
        /\ alive' = alive \ {d}
        /\ UNCHANGED <<leader, aware, peer_ips, known_peers, reporters, reports>>
    BY DEF Crash
  <1>2. N \in Nat /\ N \in Node
    BY NodeFinite
  <1>3. Dead = {}
    <2>1. IsFiniteSet(Dead)
      BY NodeFinite, FS_Subset DEF Dead
    <2>2. Cardinality(Dead) = 0
      <3>1. Cardinality(Dead) \in Nat
        BY <2>1, FS_CardinalityType
      <3> QED BY <1>1, <3>1, CatalogConstants
    <2> QED BY <2>1, <2>2, FS_EmptySet
  <1>4. alive = Node
    BY <1>3 DEF Dead, Base, CInv, TypeInv
  <1>5. leader = N /\ \A x \in Node : aware[x] = {}
    BY <1>2, <1>3, <1>4 DEF Base, Numbering, CInv, Counts
  <1>6. Untold /\ Untold'
    BY <1>1, <1>5 DEF Untold
  <1>7. Phase'
    BY <1>1, <1>2, <1>4, <1>5, <1>6 DEF Base, Phase
  <1> QED BY <1>1, <1>4, <1>5, <1>6, <1>7 DEF Rebuilding

LEMMA LearnPhase ==
    ASSUME N >= 5, Base, NEW n \in Node, NEW d \in Node, Learn(n, d)
    PROVE  Phase'
  <1>1. /\ n \in alive /\ d \in Dead /\ n \notin aware[d]
        /\ aware' = [aware EXCEPT ![d] = @ \cup {n}]
        /\ peer_ips' = IF n = leader THEN peer_ips \ {d} ELSE peer_ips
        /\ UNCHANGED <<alive, leader, known_peers, reporters>>
    <2>1. Dead = {d}
      BY DEF Learn, Base, OneDeath
    <2> QED BY <2>1 DEF Learn, Named
  <1>2. N \in Nat /\ N \in Node
    BY NodeFinite
  <1>3. \A x \in Node : aware'[x] = IF x = d THEN aware[x] \cup {n} ELSE aware[x]
    BY <1>1 DEF Base, CInv, TypeInv
  <1>4. CASE N \in alive
    <2>1. leader = N
      BY <1>4 DEF Base, Numbering
    <2>2. /\ known_peers = N - 1
          /\ peer_ips = {x \in Node : x # N /\ N \notin aware[x]}
      BY <1>4 DEF Base, Phase
    <2>3. d # N
      BY <1>1, <1>4 DEF Dead
    <2>4. peer_ips' = {x \in Node : x # N /\ N \notin aware'[x]}
      BY <1>1, <1>3, <2>1, <2>2, <2>3
    <2> QED BY <1>1, <1>4, <2>1, <2>2, <2>4 DEF Phase
  <1>5. CASE N \notin alive
    <2>1. Untold /\ n # N
      BY <1>1, <1>5 DEF Base, Phase
    <2>2. Untold'
      BY <1>3, <2>1 DEF Untold
    <2>3. ASSUME leader # N PROVE n # leader
      <3>1. d = N
        BY <1>1, <1>2, <1>5 DEF Base, OneDeath, Dead
      <3> QED BY <1>1, <2>3, <3>1 DEF Base, Phase
    <2>4. ASSUME leader # N
          PROVE  /\ leader = N - 1 /\ leader \in aware'[N] /\ peer_ips' = peer_ips
                 /\ peer_ips \cup reporters = 1 .. N - 2 /\ peer_ips \cap reporters = {}
                 /\ known_peers = Cardinality(peer_ips)
      BY <1>1, <1>2, <1>3, <2>3, <2>4 DEF Base, Phase
    <2> QED BY <1>1, <1>5, <2>2, <2>4 DEF Phase
  <1> QED BY <1>4, <1>5

LEMMA ReportSelfPhase ==
    ASSUME N >= 5, Base, NEW n \in Node, ReportSelf(n)
    PROVE  Phase' /\ leader = N - 1 /\ N \notin alive
  <1>1. /\ leader \in alive /\ n \in reporters
        /\ reporters' = reporters \ {n} /\ peer_ips' = peer_ips \cup {n}
        /\ known_peers' = known_peers + 1
        /\ UNCHANGED <<alive, aware, leader>>
    BY DEF ReportSelf
  <1>2. N \notin alive /\ leader # N
    BY <1>1 DEF Base, Numbering, Rebuilding, Rebuild
  <1>3. /\ leader = N - 1 /\ leader \in aware[N] /\ Untold
        /\ peer_ips \cup reporters = 1 .. N - 2 /\ peer_ips \cap reporters = {}
        /\ known_peers = Cardinality(peer_ips)
    BY <1>2 DEF Base, Phase
  <1>4. Untold'
    BY <1>1, <1>3 DEF Untold
  <1>5. Cardinality(peer_ips \cup {n}) = known_peers + 1
    <2>1. IsFiniteSet(peer_ips)
      BY NodeFinite, FS_Subset DEF Base, CInv, TypeInv
    <2>2. n \notin peer_ips
      BY <1>1, <1>3
    <2> QED BY <1>3, <2>1, <2>2, FS_AddElement
  <1>6. (peer_ips \cup {n}) \cup (reporters \ {n}) = 1 .. N - 2
        /\ (peer_ips \cup {n}) \cap (reporters \ {n}) = {}
    BY <1>1, <1>3
  <1> QED BY <1>1, <1>2, <1>3, <1>4, <1>5, <1>6 DEF Phase

\* The steps that deal with files leave who is who alone.
LEMMA SamePhase ==
    ASSUME Phase, UNCHANGED <<alive, aware, leader, peer_ips, known_peers, reporters>>
    PROVE  Phase'
  <1>1. Untold' <=> Untold
    BY DEF Untold
  <1> QED BY <1>1 DEF Phase

-----------------------------------------------------------------------------
(* The inductive invariant: there are layouts, one per file number, that explain all
   containers and tables *)

Files   == 1 .. MaxFiles
Layouts == [Files -> Layout]

\* Node N as index that has counted no death, and its successor while it rebuilds,
\* deal with files that were placed when no death was known.
Patterned(L) ==
    Untold /\ (leader = N \/ Rebuilding) => \A id \in Files : FullPattern(L[id])

\* Container c of node n has what the layout of its file gives to n.
Fits(L, n, c) ==
    /\ c.file_id \in Files
    /\ c.size = L[c.file_id].size /\ c.total = L[c.file_id].total
    /\ Filled(L[c.file_id], n, c.slots)

\* What a live node holds.  Only the index has containers without fragments.
Holding(L) ==
    \A n \in alive :
        /\ \A c \in Box(fs[n]) : Fits(L, n, c) /\ (n # leader => On(L[c.file_id], n) # {})
        /\ \A id \in Files : On(L[id], n) # {} => id \in Ids(fs[n])

Ended(L) == complete \subseteq Files /\ \A id \in complete : Whole(L[id])

\* The rounds still to be made are the rest of the newest file's table.
Underway(L) ==
    fanout # <<>> =>
        LET id == Len(fs[leader]) IN
        /\ id \in Files /\ L[id].served + Len(fanout) = 2 * L[id].total
        /\ \A j \in DOMAIN fanout : fanout[j] = L[id].table[L[id].served + j - 1]

\* The table of an index in office: an entry is the layout's or empty, and it is the
\* layout's when the file is stored or being stored and the node lives.
Settled(L, id) == Whole(L[id]) \/ (fanout # <<>> /\ id = Len(fs[leader]))
Lists(l, t, sure) ==
    /\ DOMAIN t = 0 .. 2 * l.total - 1
    /\ \A k \in DOMAIN t :
         /\ t[k] \in {l.table[k], NullPtr}
         /\ sure /\ l.table[k].node_id \in alive => t[k] = l.table[k]
Listing(L) ==
    leader \in alive /\ ~Rebuilding =>
        \A f \in Box(fnetidx) :
            /\ f.file_id \in Files
            /\ Lists(L[f.file_id], f.fragments, Settled(L, f.file_id))

\* During a rebuild: the survivors that have told all they have of a file.
Tells(n, id) == \E i \in DOMAIN reports : reports[i].node_id = n /\ reports[i].file.file_id = id
HeardBy(id) == {m \in alive \ reporters : ~Tells(m, id)}

Reporting(L) ==
    /\ \A i \in DOMAIN reports :
         LET r == reports[i] IN
         /\ r.node_id \in alive \ reporters /\ r.file \in Box(fs[r.node_id])
         /\ On(L[r.file.file_id], r.node_id) # {}
    /\ \A i, j \in DOMAIN reports :
         /\ reports[i].node_id = reports[j].node_id
         /\ reports[i].file.file_id = reports[j].file.file_id => i = j
Filed(L) ==
    \A id \in Files : \A m \in HeardBy(id) : On(L[id], m) # {} => id \in Ids(fnetidx)
Relists(L) ==
    \A f \in Box(fnetidx) :
        f.file_id \in Files /\ Relisted(L[f.file_id], f.fragments, HeardBy(f.file_id))
Reports(L)   == Reporting(L) /\ Filed(L) /\ Relists(L)
Relisting(L) == Rebuilding => Reports(L)

Body(L) ==
    /\ \A id \in Files : Shape(L[id])
    /\ Patterned(L) /\ Holding(L) /\ Ended(L) /\ Underway(L) /\ Listing(L) /\ Relisting(L)

\* Before the first file: nothing is served.
Blank == [size |-> 0, total |-> 1, served |-> 0,
          table |-> [k \in 0 .. 1 |-> [fragment |-> 1, size |-> 0, node_id |-> k + 1]]]

LEMMA BlankFacts ==
    ASSUME N >= 5
    PROVE  Blank \in Layout /\ Shape(Blank) /\ FullPattern(Blank)
  <1> DEFINE t == [k \in 0 .. 1 |-> [fragment |-> 1, size |-> 0, node_id |-> k + 1]]
  <1>1. /\ Blank.size = 0 /\ Blank.total = 1 /\ Blank.served = 0 /\ Blank.table = t
        /\ DOMAIN t = 0 .. 1
        /\ \A k \in 0 .. 1 : t[k] = [fragment |-> 1, size |-> 0, node_id |-> k + 1]
    BY DEF Blank
  <1>2. N \in Nat /\ Node = 1 .. N
    BY NodeFinite DEF Node
  <1>3. \A k \in 0 .. 1 : k = 0 \/ k = 1
    OBVIOUS
  <1>4. 0 \div 2 = 0 /\ 1 \div 2 = 0 /\ 0 % 2 = 0 /\ 1 % 2 = 1
    OBVIOUS
  <1>5. Blank \in Layout
    <2>1. t \in [0 .. 1 -> Pointer]
      BY DEF Pointer
    <2>2. t \in Tables
      BY <2>1 DEF Tables
    <2> HIDE DEF t
    <2>3. Blank = [size |-> 0, total |-> 1, served |-> 0, table |-> t]
      BY DEF Blank, t
    <2> QED BY <2>2, <2>3 DEF Layout
  <1> HIDE DEF t
  <1>6. FragmentSize(0, 1, 0) = 0
    BY DEF FragmentSize
  <1>7. Regular(0, 1, t)
    <2>1. \A k \in 0 .. 1 : GoodPtr(0, 1, t[k], k)
      BY <1>1, <1>2, <1>3, <1>4, <1>6 DEF GoodPtr
    <2>2. Spread(t)
      BY <1>1, <1>3, <1>4 DEF Spread
    <2>3. Apart(t)
      BY <1>1, <1>3, <1>4 DEF Apart
    <2>4. 2 * 1 - 1 = 1
      OBVIOUS
    <2> QED BY <1>1, <2>1, <2>2, <2>3, <2>4 DEF Regular
  <1>8. Shape(Blank)
    BY <1>1, <1>7 DEF Shape
  <1>9. FullPattern(Blank)
    <2>1. \A k \in 0 .. 1 : t[k].node_id = NodeAt(k)
      BY <1>1, <1>2, <1>3, <1>4 DEF NodeAt
    <2> QED BY <1>1, <2>1 DEF FullPattern
  <1> QED BY <1>5, <1>8, <1>9

LEMMA BodyInit ==
    ASSUME N >= 5, Init
    PROVE  \E L \in Layouts : Body(L)
  <1> DEFINE L == [id \in Files |-> Blank]
  <1>1. Blank \in Layout /\ Shape(Blank) /\ FullPattern(Blank) /\ Blank.served = 0
    BY BlankFacts DEF Blank
  <1>2. \A n : On(Blank, n) = {}
    BY <1>1 DEF On
  <1>3. L \in Layouts /\ \A id \in Files : L[id] = Blank
    BY <1>1 DEF Layouts
  <1> HIDE DEF L
  <1>4. /\ fnetidx = <<>> /\ \A n \in Node : fs[n] = <<>>
        /\ fanout = <<>> /\ reporters = {} /\ reports = <<>> /\ complete = {} /\ alive = Node
    BY DEF Init
  <1>5. Box(<<>>) = {}
    BY DEF Box
  <1>6. Patterned(L) /\ \A id \in Files : Shape(L[id])
    BY <1>1, <1>3 DEF Patterned
  <1>7. Holding(L)
    BY <1>2, <1>3, <1>4, <1>5 DEF Holding
  <1>8. Ended(L) /\ Underway(L)
    BY <1>4 DEF Ended, Underway
  <1>9. Listing(L)
    BY <1>4, <1>5 DEF Listing
  <1>10. Relisting(L)
    BY <1>4 DEF Relisting, Rebuilding
  <1> QED BY <1>3, <1>6, <1>7, <1>8, <1>9, <1>10 DEF Body

\* The steps that leave all files and tables alone: learning of a death, or nothing.
LEMMA SameBody ==
    ASSUME NEW L \in Layouts, Body(L), Untold' => Untold,
           UNCHANGED <<alive, leader, fs, fnetidx, fanout, reporters, reports, complete>>
    PROVE  Body(L)'
  <1>1. Rebuilding' <=> Rebuilding
    BY DEF Rebuilding
  <1>2. Patterned(L)' /\ \A id \in Files : Shape(L[id])
    BY <1>1 DEF Body, Patterned
  <1>3. Holding(L)' /\ Ended(L)' /\ Underway(L)'
    BY DEF Body, Holding, Ended, Underway
  <1>4. Listing(L)'
    BY <1>1 DEF Body, Listing, Lists, Settled
  <1>5. \A id : HeardBy(id)' = HeardBy(id)
    BY DEF HeardBy, Tells
  <1>6. Relisting(L)'
    BY <1>1, <1>5 DEF Body, Relisting, Reports, Reporting, Filed, Relists
  <1> QED BY <1>2, <1>3, <1>4, <1>6 DEF Body

LEMMA LearnBody ==
    ASSUME Base, NEW L \in Layouts, Body(L), NEW n \in Node, NEW d \in Node, Learn(n, d)
    PROVE  Body(L)'
  <1>1. /\ aware' = [aware EXCEPT ![d] = @ \cup {n}]
        /\ UNCHANGED <<alive, leader, fs, fnetidx, fanout, reporters, reports, complete>>
    BY DEF Learn
  <1>2. \A x \in Node : aware[x] \subseteq aware'[x]
    BY <1>1 DEF Base, CInv, TypeInv
  <1>3. Untold' => Untold
    BY <1>2 DEF Untold
  <1> QED BY <1>1, <1>3, SameBody

LEMMA CrashBody ==
    ASSUME N >= 5, MaxCrashes <= 1, Base, NEW L \in Layouts, Body(L), NEW d \in Node, Crash(d)
    PROVE  Body(L)'
  <1>1. /\ alive' = alive \ {d} /\ fanout' = IF d = leader THEN <<>> ELSE fanout
        /\ UNCHANGED <<aware, leader, fs, fnetidx, reporters, reports, complete>>
    BY DEF Crash
  <1>2. ~Rebuilding
    BY CrashPhase
  <1>3. ~Rebuilding' /\ (Untold' <=> Untold)
    BY <1>1, <1>2 DEF Rebuilding, Untold
  <1>4. Patterned(L)' /\ \A id \in Files : Shape(L[id])
    BY <1>1, <1>2, <1>3 DEF Body, Patterned
  <1>5. Holding(L)'
    BY <1>1 DEF Body, Holding
  <1>6. Ended(L)' /\ Underway(L)'
    BY <1>1 DEF Body, Ended, Underway
  <1>7. Listing(L)'
    <2> SUFFICES ASSUME leader' \in alive', NEW f \in Box(fnetidx')
                 PROVE  f.file_id \in Files
                        /\ Lists(L[f.file_id], f.fragments, Settled(L, f.file_id))'
      BY DEF Listing
    <2>1. leader \in alive /\ fanout' = fanout
      BY <1>1
    <2>2. f.file_id \in Files /\ Lists(L[f.file_id], f.fragments, Settled(L, f.file_id))
      BY <1>1, <1>2, <2>1 DEF Body, Listing
    <2>3. Settled(L, f.file_id)' <=> Settled(L, f.file_id)
      BY <1>1, <2>1 DEF Settled
    <2> QED BY <1>1, <2>2, <2>3 DEF Lists
  <1>8. Relisting(L)'
    BY <1>3 DEF Relisting
  <1> QED BY <1>4, <1>5, <1>6, <1>7, <1>8 DEF Body

\* The reports of a node that opens its session.
LEMMA OpensSession ==
    ASSUME Base, NEW n \in Node
    PROVE  LET r == ReportsOf(n) IN
           /\ \A i \in DOMAIN r : r[i].node_id = n /\ r[i].file \in Box(fs[n])
           /\ \A i, j \in DOMAIN r : r[i].file.file_id = r[j].file.file_id => i = j
           /\ \A id : (\E i \in DOMAIN r : r[i].file.file_id = id) <=> id \in Ids(fs[n])
  <1> DEFINE r == ReportsOf(n)
  <1>1. /\ DOMAIN r = DOMAIN fs[n]
        /\ \A k \in DOMAIN r : r[k].node_id = n /\ r[k].file = fs[n][k]
    BY ReportsOfFacts DEF Base, CInv
  <1>2. Distinct(fs[n])
    BY DEF Base, Numbering
  <1> HIDE DEF r
  <1>3. \A i \in DOMAIN r : r[i].node_id = n /\ r[i].file \in Box(fs[n])
    BY <1>1 DEF Box
  <1>4. \A i, j \in DOMAIN r : r[i].file.file_id = r[j].file.file_id => i = j
    BY <1>1, <1>2 DEF Distinct
  <1>5. \A id : (\E i \in DOMAIN r : r[i].file.file_id = id) <=> id \in Ids(fs[n])
    BY <1>1 DEF Ids
  <1> QED BY <1>3, <1>4, <1>5 DEF r

LEMMA ElectBody ==
    ASSUME N >= 5, Base, NEW L \in Layouts, Body(L), NEW i \in Node, Elect(i)
    PROVE  Body(L)'
  <1>1. /\ leader' = i /\ fnetidx' = <<>> /\ reporters' = alive \ {i} /\ reports' = ReportsOf(i)
        /\ i \in alive
        /\ UNCHANGED <<alive, aware, fs, fanout, complete>>
    BY DEF Elect
  <1>2. i = N - 1 /\ leader = N /\ N \notin alive /\ Untold /\ alive = 1 .. N - 1
    BY ElectPhase DEF Base, Phase
  <1>3. fanout = <<>>
    BY <1>2 DEF Base, CInv, FanoutOK
  <1>4. Rebuilding'
    <2>1. 1 \in alive \ {i}
      BY <1>2, NodeFinite
    <2> QED BY <1>1, <2>1 DEF Rebuilding
  <1>5. Patterned(L)' /\ \A id \in Files : Shape(L[id])
    BY <1>2 DEF Body, Patterned
  <1>6. Holding(L)'
    <2>1. \A n \in alive : n # leader
      BY <1>2
    <2> QED BY <1>1, <2>1 DEF Body, Holding, Fits
  <1>7. Ended(L)' /\ Underway(L)'
    BY <1>1, <1>3 DEF Body, Ended, Underway
  <1>8. Listing(L)'
    BY <1>4 DEF Listing
  <1>9. Box(<<>>) = {}
    BY DEF Box
  <1>10. /\ \A j \in DOMAIN reports' : reports'[j].node_id = i /\ reports'[j].file \in Box(fs[i])
         /\ \A j, k \in DOMAIN reports' : reports'[j].file.file_id = reports'[k].file.file_id => j = k
         /\ \A id : (\E j \in DOMAIN reports' : reports'[j].file.file_id = id) <=> id \in Ids(fs[i])
    <2> DEFINE r == ReportsOf(i)
    <2>1. /\ \A j \in DOMAIN r : r[j].node_id = i /\ r[j].file \in Box(fs[i])
          /\ \A j, k \in DOMAIN r : r[j].file.file_id = r[k].file.file_id => j = k
          /\ \A id : (\E j \in DOMAIN r : r[j].file.file_id = id) <=> id \in Ids(fs[i])
      BY OpensSession
    <2>2. reports' = r
      BY <1>1
    <2> HIDE DEF r
    <2> QED BY <2>1, <2>2
  <1>11. Reporting(L)'
    <2>1. \A c \in Box(fs[i]) : On(L[c.file_id], i) # {}
      BY <1>1, <1>2 DEF Body, Holding
    <2> QED BY <1>1, <1>10, <2>1 DEF Reporting
  <1>12. Filed(L)'
    <2> SUFFICES ASSUME NEW id \in Files, NEW m \in HeardBy(id)', On(L[id], m) # {} PROVE FALSE
      BY DEF Filed
    <2>1. m = i /\ ~Tells(i, id)'
      BY <1>1 DEF HeardBy
    <2>2. id \in Ids(fs[i])
      BY <1>1, <2>1 DEF Body, Holding
    <2> QED BY <1>10, <2>1, <2>2 DEF Tells
  <1>13. Relisting(L)'
    BY <1>1, <1>9, <1>11, <1>12 DEF Relisting, Reports, Relists
  <1> QED BY <1>5, <1>6, <1>7, <1>8, <1>13 DEF Body

\* When all survivors have told all they have, the table is that of an index in office.
AllTold(L) ==
    /\ \A id \in Files : Shape(L[id]) /\ FullPattern(L[id])
    /\ Relists(L) /\ ~Rebuilding /\ 1 \in alive /\ fanout = <<>>

Conclusive == \A L \in Layouts : AllTold(L) => Listing(L)

LEMMA Concludes == N >= 5 => Conclusive
  <1> SUFFICES ASSUME N >= 5, NEW L \in Layouts, AllTold(L), NEW f \in Box(fnetidx)
               PROVE  f.file_id \in Files
                      /\ Lists(L[f.file_id], f.fragments, Settled(L, f.file_id))
    BY DEF Conclusive, Listing
  <1> DEFINE l == L[f.file_id]
             H == HeardBy(f.file_id)
  <1>1. f.file_id \in Files /\ Relisted(l, f.fragments, H)
    BY DEF AllTold, Relists
  <1>2. l \in Layout /\ Shape(l) /\ FullPattern(l)
    BY <1>1 DEF AllTold, Layouts
  <1>3. H = alive
    BY DEF AllTold, Rebuilding, HeardBy, Tells
  <1>4. Settled(L, f.file_id) <=> Whole(l)
    BY DEF Settled, AllTold
  <1>5. 1 \in H
    BY <1>3 DEF AllTold
  <1> HIDE DEF l, H
  <1>6. /\ DOMAIN f.fragments = 0 .. 2 * l.total - 1
        /\ \A k \in DOMAIN f.fragments :
             /\ f.fragments[k] \in {l.table[k], NullPtr}
             /\ Whole(l) /\ l.table[k].node_id \in H => f.fragments[k] = l.table[k]
    BY <1>1, <1>2, <1>5, RelistedEnd
  <1>7. Lists(l, f.fragments, Settled(L, f.file_id))
    BY <1>3, <1>4, <1>6 DEF Lists
  <1> QED BY <1>1, <1>7 DEF l

\* A rebuild takes place without node N, under node N - 1, with node 1 alive and
\* nothing being fanned out.
LEMMA RebuildFacts ==
    ASSUME N >= 5, Base, Rebuilding, NEW L \in Layouts, Body(L)
    PROVE  /\ leader # N /\ leader \in alive /\ 1 \in alive /\ fanout = <<>> /\ Untold
           /\ \A id \in Files : L[id] \in Layout /\ Shape(L[id]) /\ FullPattern(L[id])
           /\ Reports(L) /\ alive \subseteq Node
  <1>1. N \notin alive /\ leader \in alive
    BY DEF Base, Numbering, Rebuild
  <1>2. 1 \in alive
    <2>1. 1 \in Node /\ N \in Node /\ 1 # N
      BY NodeFinite
    <2> QED BY <1>1, <2>1 DEF Base, OneDeath, Dead
  <1>3. fanout = <<>>
    BY DEF Rebuilding, Base, CInv, FanoutOK
  <1>4. Untold
    BY <1>1 DEF Base, Phase
  <1>5. \A id \in Files : L[id] \in Layout /\ Shape(L[id]) /\ FullPattern(L[id])
    BY <1>4 DEF Body, Patterned, Layouts
  <1> QED BY <1>1, <1>2, <1>3, <1>4, <1>5 DEF Body, Relisting, Base, CInv, TypeInv

\* A step of a rebuild that keeps the account of reports: the account goes on, or the
\* table is complete.
LEMMA RebuildGoesOn ==
    ASSUME N >= 5, Base, Rebuilding, NEW L \in Layouts, Body(L), Reports(L)', Holding(L)',
           UNCHANGED <<alive, aware, leader, fanout, complete>>
    PROVE  Body(L)'
  <1>1. /\ leader # N /\ leader \in alive /\ 1 \in alive /\ fanout = <<>>
        /\ \A id \in Files : L[id] \in Layout /\ Shape(L[id]) /\ FullPattern(L[id])
    BY RebuildFacts
  <1>2. Patterned(L)'
    BY <1>1 DEF Patterned
  <1>3. Ended(L)' /\ Underway(L)'
    BY <1>1 DEF Body, Ended, Underway
  <1>4. Listing(L)'
    <2>1. CASE Rebuilding'
      BY <2>1 DEF Listing
    <2>2. CASE ~Rebuilding'
      <3>1. (N >= 5 => Conclusive)'
        BY Concludes, PTL
      <3>2. AllTold(L)'
        BY <1>1, <2>2 DEF AllTold, Reports
      <3> QED BY <3>1, <3>2 DEF Conclusive
    <2> QED BY <2>1, <2>2
  <1> QED BY <1>1, <1>2, <1>3, <1>4 DEF Body, Relisting

LEMMA ReportSelfBody ==
    ASSUME N >= 5, Base, NEW L \in Layouts, Body(L), NEW n \in Node, ReportSelf(n)
    PROVE  Body(L)'
  <1>1. /\ n \in reporters /\ reports = <<>> /\ reporters' = reporters \ {n}
        /\ reports' = ReportsOf(n)
        /\ UNCHANGED <<alive, aware, leader, fs, fnetidx, fanout, complete>>
    BY DEF ReportSelf
  <1>2. Rebuilding
    BY <1>1 DEF Rebuilding
  <1>3. /\ leader # N /\ leader \in alive /\ 1 \in alive /\ fanout = <<>>
        /\ \A id \in Files : L[id] \in Layout /\ Shape(L[id]) /\ FullPattern(L[id])
        /\ Reports(L) /\ alive \subseteq Node
    BY <1>2, RebuildFacts
  <1>4. n \in alive /\ n # leader
    <2>1. reporters \subseteq alive
      BY <1>2 DEF Base, Numbering, Rebuild
    <2>2. leader \notin reporters
      BY <1>3, NodeFinite DEF Base, Phase
    <2> QED BY <1>1, <2>1, <2>2
  <1>5. Holding(L)'
    BY <1>1 DEF Body, Holding, Fits
  <1>6. /\ \A i \in DOMAIN reports' : reports'[i].node_id = n /\ reports'[i].file \in Box(fs[n])
        /\ \A i, j \in DOMAIN reports' : reports'[i].file.file_id = reports'[j].file.file_id => i = j
        /\ \A id : (\E i \in DOMAIN reports' : reports'[i].file.file_id = id) <=> id \in Ids(fs[n])
    <2> DEFINE r == ReportsOf(n)
    <2>1. /\ \A i \in DOMAIN r : r[i].node_id = n /\ r[i].file \in Box(fs[n])
          /\ \A i, j \in DOMAIN r : r[i].file.file_id = r[j].file.file_id => i = j
          /\ \A id : (\E i \in DOMAIN r : r[i].file.file_id = id) <=> id \in Ids(fs[n])
      BY OpensSession
    <2>2. reports' = r
      BY <1>1
    <2> HIDE DEF r
    <2> QED BY <2>1, <2>2
  <1>7. Reporting(L)'
    <2>1. \A c \in Box(fs[n]) : On(L[c.file_id], n) # {}
      BY <1>4 DEF Body, Holding
    <2> QED BY <1>1, <1>4, <1>6, <2>1 DEF Reporting
  \* The node counts as heard for the files it has nothing of.
  <1>8. \A id : HeardBy(id)' = HeardBy(id) \cup (IF id \in Ids(fs[n]) THEN {} ELSE {n})
    <2> TAKE id
    <2>1. \A m : Tells(m, id)' <=> m = n /\ id \in Ids(fs[n])
      BY <1>6 DEF Tells
    <2>2. \A m : ~Tells(m, id)
      BY <1>1 DEF Tells
    <2> QED BY <1>1, <1>4, <2>1, <2>2 DEF HeardBy
  <1>9. \A id \in Files : On(L[id], n) # {} => id \in Ids(fs[n])
    BY <1>4 DEF Body, Holding
  <1>10. \A id \in Files : \A m \in Node : On(L[id], m) # {} => (m \in HeardBy(id) <=> m \in HeardBy(id)')
    BY <1>8, <1>9
  <1>11. Filed(L)'
    BY <1>1, <1>3, <1>8, <1>9 DEF Reports, Filed
  <1>12. Relists(L)'
    <2> SUFFICES ASSUME NEW f \in Box(fnetidx)
                 PROVE  f.file_id \in Files
                        /\ Relisted(L[f.file_id], f.fragments, HeardBy(f.file_id)')
      BY <1>1 DEF Relists
    <2>1. f.file_id \in Files /\ Relisted(L[f.file_id], f.fragments, HeardBy(f.file_id))
      BY <1>3 DEF Reports, Relists
    <2>2. \A m \in Node : On(L[f.file_id], m) # {}
                           => (m \in HeardBy(f.file_id) <=> m \in HeardBy(f.file_id)')
      BY <1>10, <2>1
    <2>3. L[f.file_id] \in Layout /\ Shape(L[f.file_id]) /\ FullPattern(L[f.file_id])
      BY <1>3, <2>1
    <2> DEFINE l == L[f.file_id]
               G == HeardBy(f.file_id)
               H == HeardBy(f.file_id)'
    <2> HIDE DEF l, G, H
    <2>4. Relisted(l, f.fragments, H)
      BY <2>1, <2>2, <2>3, RelistedSame DEF l, G, H
    <2> QED BY <2>1, <2>4 DEF l, H
  <1>13. Reports(L)'
    BY <1>7, <1>11, <1>12 DEF Reports
  <1> QED BY <1>1, <1>2, <1>5, <1>13, RebuildGoesOn

\* A report handled: its node has told all about its file.
LEMMA ReportHandled ==
    ASSUME Base, NEW L, Reporting(L), ReportFile,
           NEW r, r = reports[1], NEW id, id = r.file.file_id
    PROVE  /\ r \in FileReport /\ 1 \in DOMAIN reports
           /\ \A i \in DOMAIN reports' : i + 1 \in DOMAIN reports /\ reports'[i] = reports[i + 1]
           /\ r.node_id \notin HeardBy(id) /\ HeardBy(id)' = HeardBy(id) \cup {r.node_id}
           /\ \A x : x # id => HeardBy(x)' = HeardBy(x)
  <1> DEFINE m == r.node_id
             n == Len(reports)
  <1>1. /\ reports # <<>> /\ reports' = Tail(reports) /\ UNCHANGED <<alive, reporters>>
    BY DEF ReportFile
  <1>2. reports \in Seq(FileReport)
    BY DEF Base, CInv, TypeInv
  <1>3. /\ n \in Nat \ {0} /\ DOMAIN reports = 1 .. n /\ r \in FileReport
        /\ DOMAIN reports' = 1 .. n - 1
        /\ \A i \in 1 .. n - 1 : reports'[i] = reports[i + 1]
    BY <1>1, <1>2
  <1> HIDE DEF n
  <1>4. \A i \in 1 .. n : /\ reports[i].node_id = m /\ m \in alive \ reporters
                          /\ reports[i].file.file_id = id => i = 1
    BY <1>3 DEF Reporting
  <1>5. 1 \in 1 .. n /\ \A i \in 1 .. n - 1 : i + 1 \in 1 .. n /\ i + 1 # 1
    BY <1>3
  <1>6. \A y : ~Tells(y, id)'
    BY <1>3, <1>4, <1>5 DEF Tells
  <1>7. \A y : Tells(y, id) <=> y = m
    BY <1>3, <1>4, <1>5 DEF Tells
  <1>8. \A y, x : x # id => (Tells(y, x)' <=> Tells(y, x))
    <2> SUFFICES ASSUME NEW y, NEW x, x # id PROVE Tells(y, x)' <=> Tells(y, x)
      OBVIOUS
    <2>1. \A i \in 1 .. n : i = 1 \/ (i - 1 \in 1 .. n - 1 /\ (i - 1) + 1 = i)
      BY <1>3
    <2>2. ASSUME NEW i \in 1 .. n, reports[i].node_id = y, reports[i].file.file_id = x
          PROVE  Tells(y, x)'
      <3>1. i - 1 \in 1 .. n - 1 /\ reports'[i - 1] = reports[i]
        BY <1>3, <2>1, <2>2
      <3> QED BY <1>3, <2>2, <3>1 DEF Tells
    <2> QED BY <1>3, <1>5, <2>2 DEF Tells
  <1>9. m \notin HeardBy(id) /\ HeardBy(id)' = HeardBy(id) \cup {m}
    <2>1. m \in alive \ reporters
      BY <1>4, <1>5
    <2> HIDE DEF m
    <2> QED BY <1>1, <1>6, <1>7, <2>1 DEF HeardBy
  <1>10. \A x : x # id => HeardBy(x)' = HeardBy(x)
    BY <1>1, <1>8 DEF HeardBy
  <1> QED BY <1>3, <1>5, <1>9, <1>10 DEF n

LEMMA ReportFileBoxes ==
    ASSUME Base, ReportFile, NEW r, r = reports[1], r \in FileReport
    PROVE  /\ TableSaved(fnetidx, fnetidx', r.file, r.node_id)
           /\ OwnSaved(fs[leader], fs'[leader], r.file)
           /\ \A n \in Node \ {leader} : fs'[n] = fs[n]
           /\ Ids(fnetidx') = Ids(fnetidx) \cup {r.file.file_id}
           /\ Ids(fs'[leader]) = Ids(fs[leader]) \cup {r.file.file_id}
  <1> DEFINE c == r.file
             s == SaveFile([idx |-> fnetidx, own |-> fs[leader], corrupt |-> corrupt], c, r.node_id)
  <1>1. /\ Head(reports) = r /\ Ids(fnetidx') = Ids(fnetidx) \cup {c.file_id}
        /\ Ids(fs'[leader]) = Ids(fs[leader]) \cup {c.file_id}
        /\ \A n \in Node \ {leader} : fs'[n] = fs[n]
    BY ReportFileFacts DEF Base
  <1>2. fnetidx' = s.idx /\ fs' = [fs EXCEPT ![leader] = s.own]
    BY <1>1 DEF ReportFile
  <1>3. /\ fnetidx \in Seq(FileInNetwork) /\ Distinct(fnetidx)
        /\ fs[leader] \in Seq(FileContainer) /\ leader \in Node /\ DOMAIN fs = Node
    BY DEF Base, CInv, TypeInv, Numbering
  <1>4. c \in FileContainer /\ r.node_id \in Node
    BY DEF FileReport
  <1>5. fs'[leader] = s.own
    BY <1>2, <1>3
  <1>6. TableSaved(fnetidx, s.idx, c, r.node_id) /\ OwnSaved(fs[leader], s.own, c)
    BY <1>3, <1>4, SaveFileBox
  <1> HIDE DEF s
  <1> QED BY <1>1, <1>2, <1>5, <1>6

\* A node told of a file it has no fragment of gets an empty container.
LEMMA EmptyFits ==
    ASSUME NEW L \in Layouts, NEW n, NEW id \in Files, On(L[id], n) = {},
           NEW x, x = Container(id, L[id].size, L[id].total)
    PROVE  Fits(L, n, x) /\ x.file_id = id
  <1>1. /\ x.file_id = id /\ x.size = L[id].size /\ x.total = L[id].total
        /\ x.slots[0] = NoSlot /\ x.slots[1] = NoSlot
    BY DEF Container
  <1> QED BY <1>1 DEF Fits, Filled

LEMMA ReportFileBody ==
    ASSUME N >= 5, Base, NEW L \in Layouts, Body(L), ReportFile
    PROVE  Body(L)'
  <1> SUFFICES ASSUME NEW r, r = reports[1], NEW c, c = r.file, NEW id, id = c.file_id,
                      NEW m, m = r.node_id
               PROVE  Body(L)'
    OBVIOUS
  <1>1. /\ reports # <<>>
        /\ UNCHANGED <<alive, aware, leader, reporters, fanout, complete>>
    BY DEF ReportFile
  <1>2. Rebuilding
    BY <1>1 DEF Rebuilding
  <1>3. /\ leader # N /\ leader \in alive /\ 1 \in alive /\ fanout = <<>>
        /\ \A x \in Files : L[x] \in Layout /\ Shape(L[x]) /\ FullPattern(L[x])
        /\ Reports(L) /\ alive \subseteq Node
    BY <1>2, RebuildFacts
  <1>4. Reporting(L) /\ Filed(L) /\ Relists(L) /\ Holding(L)
    BY <1>3 DEF Reports, Body
  <1>5. /\ r \in FileReport /\ 1 \in DOMAIN reports
        /\ \A i \in DOMAIN reports' : i + 1 \in DOMAIN reports /\ reports'[i] = reports[i + 1]
        /\ m \notin HeardBy(id) /\ HeardBy(id)' = HeardBy(id) \cup {m}
        /\ \A x : x # id => HeardBy(x)' = HeardBy(x)
    BY <1>4, ReportHandled
  <1>6. /\ TableSaved(fnetidx, fnetidx', c, m)
        /\ OwnSaved(fs[leader], fs'[leader], c)
        /\ \A n \in Node \ {leader} : fs'[n] = fs[n]
        /\ Ids(fnetidx') = Ids(fnetidx) \cup {id}
        /\ Ids(fs'[leader]) = Ids(fs[leader]) \cup {id}
    BY <1>5, ReportFileBoxes
  <1>7. /\ m \in alive \ reporters /\ c \in Box(fs[m]) /\ On(L[id], m) # {}
    BY <1>4, <1>5 DEF Reporting
  <1>8. /\ id \in Files /\ c.size = L[id].size /\ c.total = L[id].total
        /\ Filled(L[id], m, c.slots)
    BY <1>4, <1>7 DEF Holding, Fits
  <1>9. Reporter(L[id], c, m)
    BY <1>3, <1>7, <1>8 DEF Reporter
  <1>10. \A n \in alive : \A x \in Box(fs'[n]) :
            \/ x \in Box(fs[n])
            \/ n = leader /\ id \notin Ids(fs[n]) /\ x = Container(id, L[id].size, L[id].total)
    BY <1>3, <1>6, <1>8 DEF OwnSaved
  <1>11. \A n \in alive : Ids(fs[n]) \subseteq Ids(fs'[n]) /\ Box(fs[n]) \subseteq Box(fs'[n])
    BY <1>3, <1>6 DEF OwnSaved
  <1>12. Holding(L)'
    <2>1. ASSUME NEW n \in alive, NEW x \in Box(fs'[n])
          PROVE  Fits(L, n, x) /\ (n # leader => On(L[x.file_id], n) # {})
      <3>1. CASE x \in Box(fs[n])
        BY <1>4, <3>1 DEF Holding
      <3>2. CASE n = leader /\ id \notin Ids(fs[n]) /\ x = Container(id, L[id].size, L[id].total)
        <4>1. On(L[id], n) = {}
          BY <1>4, <1>8, <3>2 DEF Holding
        <4> QED BY <1>8, <3>2, <4>1, EmptyFits
      <3> QED BY <1>10, <2>1, <3>1, <3>2
    <2>2. ASSUME NEW n \in alive, NEW x \in Files, On(L[x], n) # {} PROVE x \in Ids(fs'[n])
      BY <1>4, <1>11, <2>2 DEF Holding
    <2> QED BY <1>1, <2>1, <2>2 DEF Holding, Fits
  <1>13. Reporting(L)'
    <2>1. \A i \in DOMAIN reports : LET q == reports[i] IN
             /\ q.node_id \in alive \ reporters /\ q.file \in Box(fs'[q.node_id])
             /\ On(L[q.file.file_id], q.node_id) # {}
      BY <1>4, <1>11 DEF Reporting
    <2>2. \A i, j \in DOMAIN reports' : reports'[i].file.file_id = reports'[j].file.file_id => i = j
      <3> SUFFICES ASSUME NEW i \in DOMAIN reports', NEW j \in DOMAIN reports',
                          reports'[i].file.file_id = reports'[j].file.file_id
                   PROVE  i = j
        OBVIOUS
      <3>1. i + 1 = j + 1
        BY <1>4, <1>5 DEF Reporting
      <3>2. i \in Int /\ j \in Int
        <4>1. reports' \in Seq(FileReport)
          BY ReportFileType DEF Base, CInv, TypeInv
        <4> QED BY <4>1
      <3> QED BY <3>1, <3>2
    <2>3. \A i, j \in DOMAIN reports' : reports'[i].node_id = reports'[j].node_id
      BY <1>4, <1>5 DEF Reporting
    <2> QED BY <1>1, <1>5, <2>1, <2>2, <2>3 DEF Reporting
  <1>14. Filed(L)'
    <2> SUFFICES ASSUME NEW x \in Files, NEW n \in HeardBy(x)', On(L[x], n) # {}
                 PROVE  x \in Ids(fnetidx')
      BY DEF Filed
    <2>1. CASE x = id
      BY <1>6, <2>1
    <2>2. CASE x # id
      BY <1>4, <1>5, <1>6, <2>2 DEF Filed
    <2> QED BY <2>1, <2>2
  <1>15. Relists(L)'
    <2> SUFFICES ASSUME NEW f \in Box(fnetidx')
                 PROVE  f.file_id \in Files
                        /\ Relisted(L[f.file_id], f.fragments, HeardBy(f.file_id)')
      BY DEF Relists
    <2>1. CASE f \in Box(fnetidx) /\ f.file_id # id
      BY <1>4, <1>5, <2>1 DEF Relists
    <2>2. ASSUME f.file_id = id,
                 NEW g, f.fragments = Written(g, Writes(g, c, m)),
                 \/ id \notin Ids(fnetidx) /\ g = EmptyTable(c.total)
                 \/ \E h \in Box(fnetidx) : h.file_id = id /\ h.fragments = g
          PROVE  Relisted(L[id], f.fragments, HeardBy(id)')
      <3> DEFINE l == L[id]
                 H == HeardBy(id)
                 G == HeardBy(id)'
      <3>1. l \in Layout /\ Shape(l) /\ FullPattern(l) /\ c.total = l.total
        BY <1>3, <1>8
      <3>2. Reporter(l, c, m) /\ m \notin H /\ G = H \cup {m}
        BY <1>5, <1>9
      <3>3. Relisted(l, g, H)
        <4>1. CASE id \notin Ids(fnetidx) /\ g = EmptyTable(c.total)
          <5>1. \A n \in H : On(l, n) = {}
            BY <1>4, <1>8, <4>1 DEF Filed
          <5> HIDE DEF l, H
          <5>2. Relisted(l, EmptyTable(l.total), {})
            BY <3>1, RelistedEmpty
          <5>3. Relisted(l, g, {})
            BY <3>1, <4>1, <5>2
          <5>4. \A n \in Node : On(l, n) # {} => (n \in {} <=> n \in H)
            BY <5>1
          <5> QED BY <3>1, <5>3, <5>4, RelistedSame
        <4>2. CASE \E h \in Box(fnetidx) : h.file_id = id /\ h.fragments = g
          BY <1>4, <4>2 DEF Relists
        <4> QED BY <2>2, <4>1, <4>2
      <3> HIDE DEF l, H, G
      <3>4. CASE l.total # 1
        <4>1. Relisted(l, Written(g, Writes(g, c, m)), H \cup {m})
          BY <3>2, <3>3, <3>4, FileMany
        <4> QED BY <2>2, <3>2, <4>1 DEF l, G
      <3>5. CASE l.total = 1
        <4>1. Relisted(l, Written(g, Writes(g, c, m)), H \cup {m})
          BY <3>2, <3>3, <3>5, FileOne
        <4> QED BY <2>2, <3>2, <4>1 DEF l, G
      <3> QED BY <3>4, <3>5
    <2>3. \/ f \in Box(fnetidx) /\ f.file_id # id
          \/ /\ f.file_id = id
             /\ \E g : /\ f.fragments = Written(g, Writes(g, c, m))
                       /\ \/ id \notin Ids(fnetidx) /\ g = EmptyTable(c.total)
                          \/ \E h \in Box(fnetidx) : h.file_id = id /\ h.fragments = g
      BY <1>6 DEF TableSaved
    <2>4. CASE f.file_id = id
      BY <1>8, <2>2, <2>3, <2>4
    <2> QED BY <2>1, <2>3, <2>4
  <1>16. Reports(L)'
    BY <1>13, <1>14, <1>15 DEF Reports
  <1> QED BY <1>1, <1>2, <1>12, <1>16, RebuildGoesOn

\* What the index knows when it creates a file.
LEMMA ViewIs ==
    ASSUME N >= 5, Base, leader \in alive, reporters = {}
    PROVE  \/ leader = N /\ Untold /\ FullView(View)
           \/ leader = N /\ ~Untold /\ \E d : LossView(View, d)
           \/ leader # N /\ HeirView(View)
  <1>1. /\ View.me = leader /\ View.peer_ips = peer_ips /\ View.known_peers = known_peers
        /\ View.net_size = net_size[leader] /\ View.death_count = death_count[leader]
    BY DEF View
  <1>2. N \in Nat /\ Node = 1 .. N /\ N \in Node
    BY NodeFinite DEF Node
  <1>3. CASE leader = N /\ Untold
    <2>1. known_peers = N - 1 /\ peer_ips = {n \in Node : n # N /\ N \notin aware[n]}
      BY <1>3 DEF Base, Phase
    <2>2. peer_ips = Node \ {N}
      BY <1>3, <2>1 DEF Untold
    <2>3. death_count[N] = 0 /\ net_size[N] = N
      BY <1>2, <1>3, NetSizeIs DEF Base, Untold
    <2> QED BY <1>1, <1>3, <2>1, <2>2, <2>3 DEF FullView
  <1>4. CASE leader = N /\ ~Untold
    <2>1. known_peers = N - 1 /\ peer_ips = {n \in Node : n # N /\ N \notin aware[n]}
      BY <1>4 DEF Base, Phase
    <2>2. PICK d \in Node : N \in aware[d]
      BY <1>4 DEF Untold
    <2>3. /\ d \in Dead /\ KnownDead(N) = {d} /\ death_count[N] = 1
          /\ net_size[N] = IF d = Pred(N) THEN N - 2 ELSE N - 1
      BY <1>2, <2>2, NetSizeIs DEF Base
    <2>4. d # N
      BY <1>4, <2>3 DEF Dead
    <2>5. peer_ips = Node \ {N, d}
      <3>1. \A n \in Node : N \in aware[n] <=> n = d
        BY <2>3 DEF KnownDead
      <3> QED BY <2>1, <3>1
    <2>6. Pred(N) = N - 1
      BY <1>2, PredIs
    <2>7. d \in 1 .. N - 1
      BY <1>2, <2>4
    <2>8. LossView(View, d)
      BY <1>1, <1>4, <2>1, <2>3, <2>5, <2>6, <2>7 DEF LossView
    <2> QED BY <1>4, <2>8
  <1>5. CASE leader # N
    <2>1. /\ leader = N - 1 /\ leader \in aware[N] /\ peer_ips = 1 .. N - 2
          /\ known_peers = Cardinality(peer_ips)
      BY <1>5 DEF Base, Phase
    <2>2. Cardinality(1 .. N - 2) = N - 2
      <3>1. N - 2 \in Nat
        BY <1>2
      <3> QED BY <3>1, FS_Interval
    <2>3. N - 1 \in Node
      BY <1>2
    <2>4. /\ death_count[N - 1] = 1
          /\ net_size[N - 1] = IF N = Pred(N - 1) THEN N - 2 ELSE N - 1
      BY <1>2, <2>1, <2>3, NetSizeIs DEF Base
    <2>5. Pred(N - 1) = N - 2
      BY <1>2, <2>3, PredIs
    <2>6. N # N - 2
      BY <1>2
    <2>7. death_count[leader] = 1 /\ net_size[leader] = N - 1
      BY <2>1, <2>4, <2>5, <2>6
    <2>8. known_peers = N - 2
      BY <2>1, <2>2
    <2> QED BY <1>1, <1>5, <2>1, <2>7, <2>8 DEF HeirView
  <1> QED BY <1>3, <1>4, <1>5

\* Every table the index makes is regular: all copies placed, a node at most once among
\* the first copies and once among the second, the two copies of a fragment apart.
LEMMA NewTable ==
    ASSUME N >= 5, Base, leader \in alive, reporters = {}, NEW sz \in Nat
    PROVE  LET cnt == FragCount(sz, net_size[leader])
               tab == Place(View, sz)
           IN /\ cnt \in {1, N - 2, N - 1, N} /\ Regular(sz, cnt, tab)
              /\ leader = N /\ Untold =>
                   cnt \in {1, N} /\ \A k \in 0 .. 2 * cnt - 1 : tab[k].node_id = NodeAt(k)
  <1> DEFINE cnt == FragCount(sz, net_size[leader])
             tab == Place(View, sz)
  <1>1. FragCount(sz, View.net_size) = cnt
    BY DEF View
  <1> HIDE DEF cnt
  <1>2. CASE leader = N /\ Untold /\ FullView(View)
    <2>1. /\ cnt \in {1, N} /\ Regular(sz, cnt, tab)
          /\ \A k \in 0 .. 2 * cnt - 1 : tab[k].node_id = NodeAt(k)
      BY <1>1, <1>2, PlaceFull
    <2> QED BY <2>1 DEF cnt
  <1>3. CASE leader = N /\ ~Untold /\ \E d : LossView(View, d)
    <2>1. PICK d : LossView(View, d)
      BY <1>3
    <2>2. cnt \in {1, N - 2, N - 1} /\ Regular(sz, cnt, tab)
      BY <1>1, <2>1, PlaceLoss
    <2> QED BY <1>3, <2>2 DEF cnt
  <1>4. CASE leader # N /\ HeirView(View)
    <2>1. cnt \in {1, N - 1} /\ Regular(sz, cnt, tab)
      BY <1>1, <1>4, PlaceHeir
    <2> QED BY <1>4, <2>1 DEF cnt
  <1> QED BY <1>2, <1>3, <1>4, ViewIs

\* A file is created: its layout is the table, and nothing of it is served.
LEMMA NewFileBody ==
    ASSUME N >= 5, Base, CInv', NEW L \in Layouts, Body(L), NEW sz \in Sizes, NewFile(sz)
    PROVE  \E M \in Layouts : Body(M)'
  <1> SUFFICES ASSUME NEW id, id = Len(fs[leader]) + 1, NEW tab, tab = Place(View, sz),
                      NEW cnt, cnt = FragCount(sz, net_size[leader]),
                      NEW new, new = Container(id, sz, cnt),
                      NEW ent, ent = [file_id |-> id, fragments |-> tab]
               PROVE  \E M \in Layouts : Body(M)'
    OBVIOUS
  <1>1. /\ Serving /\ Len(fs[leader]) < MaxFiles
        /\ fs' = [fs EXCEPT ![leader] = Append(@, new)]
        /\ fnetidx' = Append(fnetidx, ent)
        /\ fanout' = [k \in 1 .. cnt * REDUNDANCY |-> tab[k - 1]]
        /\ UNCHANGED <<alive, aware, leader, reporters, reports, complete>>
    BY DEF NewFile, NextId
  <1>2. leader \in alive /\ reporters = {} /\ reports = <<>> /\ fanout = <<>>
    BY <1>1 DEF Serving
  <1>3. ~Rebuilding /\ ~Rebuilding' /\ (Untold' <=> Untold)
    BY <1>1, <1>2 DEF Rebuilding, Untold
  <1>4. /\ leader \in Node /\ fs[leader] \in Seq(FileContainer) /\ fnetidx \in Seq(FileInNetwork)
        /\ DOMAIN fs = Node /\ alive \subseteq Node /\ fnetidx' \in Seq(FileInNetwork)
    BY DEF Base, CInv, TypeInv
  <1>5. /\ id \in Nat \ {0} /\ id \in Files /\ id - 1 = Len(fs[leader])
        /\ \A x \in 1 .. Len(fs[leader]) : x # id
    BY <1>1, <1>4, CatalogConstants DEF Files
  <1>6. sz \in Nat
    BY CatalogConstants
  <1>7. /\ cnt \in {1, N - 2, N - 1, N} /\ Regular(sz, cnt, tab)
        /\ leader = N /\ Untold =>
             cnt \in {1, N} /\ \A k \in 0 .. 2 * cnt - 1 : tab[k].node_id = NodeAt(k)
    BY <1>2, <1>6, NewTable
  <1>8. cnt \in Nat \ {0} /\ cnt * REDUNDANCY = 2 * cnt
    BY <1>7, NodeFinite DEF REDUNDANCY
  <1>9. tab \in Tables
    <2>1. Append(fnetidx, ent)[Len(fnetidx) + 1] = ent /\ Len(fnetidx) + 1 \in DOMAIN fnetidx'
      BY <1>1, <1>4
    <2>2. ent \in FileInNetwork
      BY <1>1, <1>4, <2>1
    <2> QED BY <2>2 DEF FileInNetwork
  <1> DEFINE l == [size |-> sz, total |-> cnt, table |-> tab, served |-> 0]
             M == [L EXCEPT ![id] = l]
  <1>10. /\ l \in Layout /\ l.size = sz /\ l.total = cnt /\ l.table = tab /\ l.served = 0
    BY <1>6, <1>8, <1>9 DEF Layout
  <1> HIDE DEF l
  <1>11. /\ M \in Layouts /\ M[id] = l /\ \A x \in Files : x # id => M[x] = L[x]
    BY <1>5, <1>10 DEF Layouts
  <1> HIDE DEF M
  <1>12. \A n : On(l, n) = {}
    BY <1>10 DEF On
  <1>13. Shape(l) /\ (leader = N /\ Untold => FullPattern(l))
    BY <1>7, <1>8, <1>10 DEF Shape, FullPattern
  <1>14. \A x \in Files : Shape(M[x])
    BY <1>11, <1>13 DEF Body
  <1>15. Patterned(M)'
    BY <1>1, <1>3, <1>11, <1>13 DEF Body, Patterned
  <1>16. /\ Ids(fs[leader]) = 1 .. Len(fs[leader]) /\ Ids(fnetidx) = 1 .. Len(fs[leader])
         /\ complete \subseteq 1 .. Len(fs[leader])
         /\ \A n \in alive : Ids(fs[n]) \subseteq 1 .. Len(fs[leader])
    BY <1>3 DEF Base, Numbering, Steady
  <1>17. /\ Box(Append(fs[leader], new)) = Box(fs[leader]) \cup {new}
         /\ Box(fnetidx') = Box(fnetidx) \cup {ent}
    BY <1>1, <1>4, BoxAppend
  <1>18. new.file_id = id /\ new \in FileContainer
    <2>1. Container(id, sz, cnt) \in FileContainer /\ Container(id, sz, cnt).file_id = id
      <3>1. id \in Nat /\ sz \in Nat /\ cnt \in Nat \ {0}
        BY <1>5, <1>6, <1>8
      <3> QED BY <3>1 DEF Container, FileContainer, NoSlot, Slot
    <2> QED BY <2>1
  <1>19. /\ fs'[leader] = Append(fs[leader], new) /\ Len(fs'[leader]) = id
         /\ Ids(fs'[leader]) = Ids(fs[leader]) \cup {id}
         /\ \A n \in Node : n # leader => fs'[n] = fs[n]
    <2>1. fs'[leader] = Append(fs[leader], new) /\ \A n \in Node : n # leader => fs'[n] = fs[n]
      BY <1>1, <1>4
    <2>2. /\ Len(Append(fs[leader], new)) = Len(fs[leader]) + 1
          /\ Ids(Append(fs[leader], new)) = Ids(fs[leader]) \cup {new.file_id}
      BY <1>4, <1>18, AppendFile
    <2> QED BY <1>18, <2>1, <2>2
  <1>20. Holding(M)'
    <2>1. ASSUME NEW n \in alive, NEW c \in Box(fs[n])
          PROVE  Fits(M, n, c) /\ (n # leader => On(M[c.file_id], n) # {})
      <3>1. Fits(L, n, c) /\ (n # leader => On(L[c.file_id], n) # {})
        BY DEF Body, Holding
      <3>2. c.file_id \in Ids(fs[n])
        BY DEF Box, Ids
      <3>3. c.file_id \in Files /\ M[c.file_id] = L[c.file_id]
        BY <1>5, <1>11, <1>16, <3>1, <3>2 DEF Fits
      <3> QED BY <3>1, <3>3 DEF Fits
    <2>2. Fits(M, leader, new)
      <3>1. new = Container(id, M[id].size, M[id].total) /\ On(M[id], leader) = {}
        BY <1>10, <1>11, <1>12
      <3> QED BY <1>5, <1>11, <3>1, EmptyFits
    <2>3. ASSUME NEW n \in alive, NEW x \in Files, On(M[x], n) # {} PROVE x \in Ids(fs'[n])
      <3>1. x # id /\ M[x] = L[x]
        BY <1>11, <1>12, <2>3
      <3>2. x \in Ids(fs[n])
        BY <2>3, <3>1 DEF Body, Holding
      <3> QED BY <1>4, <1>19, <3>2
    <2>4. ASSUME NEW n \in alive, NEW c \in Box(fs'[n])
          PROVE  Fits(M, n, c) /\ (n # leader => On(M[c.file_id], n) # {})
      <3>1. CASE n = leader
        BY <1>17, <1>19, <2>1, <2>2, <3>1
      <3>2. CASE n # leader
        BY <1>4, <1>19, <2>1, <3>2
      <3> QED BY <3>1, <3>2
    <2> QED BY <1>1, <2>3, <2>4 DEF Holding, Fits
  <1>21. Ended(M)'
    BY <1>1, <1>5, <1>11, <1>16 DEF Body, Ended
  <1>22. Len(fanout') = 2 * cnt /\ DOMAIN fanout' = 1 .. 2 * cnt
         /\ \A j \in 1 .. 2 * cnt : fanout'[j] = tab[j - 1]
    <2>1. 2 * cnt \in Nat
      BY <1>8
    <2> QED BY <1>1, <1>8, <2>1
  <1>23. Underway(M)'
    <2>1. M[id].served + Len(fanout') = 2 * M[id].total
      BY <1>8, <1>10, <1>11, <1>22
    <2>2. \A j \in DOMAIN fanout' : fanout'[j] = M[id].table[M[id].served + j - 1]
      BY <1>8, <1>10, <1>11, <1>22
    <2>3. Len(fs[leader])' = id
      BY <1>1, <1>19
    <2> QED BY <1>5, <2>1, <2>2, <2>3 DEF Underway
  <1>24. Listing(M)'
    <2> SUFFICES ASSUME NEW f \in Box(fnetidx')
                 PROVE  f.file_id \in Files
                        /\ Lists(M[f.file_id], f.fragments, Settled(M, f.file_id))'
      BY DEF Listing
    <2>1. CASE f \in Box(fnetidx)
      <3>1. f.file_id \in Files /\ Lists(L[f.file_id], f.fragments, Settled(L, f.file_id))
        BY <1>2, <1>3, <2>1 DEF Body, Listing
      <3>2. f.file_id \in Ids(fnetidx)
        BY <2>1 DEF Box, Ids
      <3>3. f.file_id # id /\ M[f.file_id] = L[f.file_id]
        BY <1>5, <1>11, <1>16, <3>1, <3>2
      <3>4. Settled(M, f.file_id)' => Settled(L, f.file_id)
        BY <1>1, <1>19, <3>3 DEF Settled
      <3> QED BY <1>1, <3>1, <3>3, <3>4 DEF Lists
    <2>2. CASE f = ent
      <3>1. f.file_id = id /\ f.fragments = tab
        BY <2>2
      <3>2. DOMAIN tab = 0 .. 2 * cnt - 1
        BY <1>7 DEF Regular
      <3> QED BY <1>5, <1>10, <1>11, <3>1, <3>2 DEF Lists
    <2> QED BY <1>17, <2>1, <2>2
  <1>25. Relisting(M)'
    BY <1>3 DEF Relisting
  <1> QED BY <1>11, <1>14, <1>15, <1>20, <1>21, <1>23, <1>24, <1>25 DEF Body

\* A node that is served puts the fragment into its container.
LEMMA ServedContainer ==
    ASSUME NEW l \in Layout, Shape(l), l.served < 2 * l.total, NEW n,
           l.table[l.served].node_id = n, NEW y \in FileContainer, Filled(l, n, y.slots),
           NEW x, x = AddFragment(y, Piece(l, l.served))
    PROVE  LET u == [l EXCEPT !.served = @ + 1] IN
           /\ x.file_id = y.file_id /\ x.size = y.size /\ x.total = y.total
           /\ Filled(u, n, x.slots) /\ On(u, n) # {}
  <1> DEFINE u == [l EXCEPT !.served = @ + 1]
             k == l.served
             s == y.slots
             v == [s EXCEPT ![IF s[0].id = 0 THEN 0 ELSE 1] = Piece(l, k)]
  <1>1. s \in [0 .. 1 -> Slot]
    BY DEF FileContainer
  <1>2. x.file_id = y.file_id /\ x.size = y.size /\ x.total = y.total /\ x.slots = v
    BY DEF AddFragment, FileContainer
  <1>3. On(u, n) = On(l, n) \cup {k} /\ Filled(u, n, v)
    <2> HIDE DEF s
    <2>1. l.table[k].node_id = n =>
             /\ On(u, n) = On(l, n) \cup {k}
             /\ Filled(u, n, [s EXCEPT ![IF s[0].id = 0 THEN 0 ELSE 1] = Piece(l, k)])
      BY <1>1, FilledStep DEF s
    <2> QED BY <2>1
  <1> QED BY <1>2, <1>3

LEMMA FanoutBody ==
    ASSUME N >= 5, Base, NEW L \in Layouts, Body(L), FanoutStep
    PROVE  \E M \in Layouts : Body(M)'
  <1> SUFFICES ASSUME NEW id, id = Len(fs[leader]), NEW l, l = L[id], NEW k, k = l.served,
                      NEW c, c = Last(fs[leader]), NEW p, p = Head(fanout),
                      NEW to, to = p.node_id
               PROVE  \E M \in Layouts : Body(M)'
    OBVIOUS
  <1> DEFINE frag == [id |-> p.fragment, off |-> (c.size \div c.total) * (p.fragment - 1),
                      size |-> p.size]
             u == [l EXCEPT !.served = @ + 1]
             M == [L EXCEPT ![id] = u]
  <1>1. /\ leader \in alive /\ fanout # <<>> /\ fanout' = Tail(fanout)
        /\ complete' = IF Len(fanout) = 1 THEN complete \cup {c.file_id} ELSE complete
        /\ UNCHANGED <<alive, aware, leader, fnetidx, reporters, reports>>
    BY DEF FanoutStep
  <1>2. /\ id \in Nat \ {0} /\ c = fs[leader][id] /\ c \in FileContainer
        /\ p \in Pointer /\ p = fanout[1] /\ (to \in alive => frag \in Slot)
        /\ fs' = IF to \in alive THEN [fs EXCEPT ![to] = StoreFragment(@, c, frag)] ELSE fs
    BY FanoutFacts DEF Base
  <1>3. ~Rebuilding /\ ~Rebuilding' /\ (Untold' <=> Untold)
    BY <1>1 DEF Base, CInv, FanoutOK, Rebuilding, Untold
  <1>4. /\ leader \in Node /\ alive \subseteq Node /\ DOMAIN fs = Node
        /\ \A n \in Node : fs[n] \in Seq(FileContainer) /\ Distinct(fs[n])
        /\ fanout \in Seq(Pointer)
    BY DEF Base, CInv, TypeInv, Numbering
  <1>5. c.file_id = id
    BY <1>1, <1>2, <1>3 DEF Base, Numbering, Steady
  <1>6. c \in Box(fs[leader])
    <2>1. fs[leader] \in Seq(FileContainer)
      BY <1>4
    <2>2. id \in DOMAIN fs[leader]
      BY <1>2, <2>1
    <2> QED BY <1>2, <2>2 DEF Box
  <1>7. /\ id \in Files /\ k + Len(fanout) = 2 * l.total
        /\ \A j \in DOMAIN fanout : fanout[j] = l.table[k + j - 1]
    BY <1>1 DEF Body, Underway
  <1>8. l \in Layout /\ Shape(l)
    BY <1>7 DEF Body, Layouts
  <1>9. /\ Len(fanout) \in Nat \ {0} /\ DOMAIN fanout = 1 .. Len(fanout)
        /\ Len(fanout') = Len(fanout) - 1 /\ DOMAIN fanout' = 1 .. Len(fanout) - 1
        /\ \A j \in 1 .. Len(fanout) - 1 : fanout'[j] = fanout[j + 1]
        /\ fanout' # <<>> => Len(fanout) # 1
    BY <1>1, <1>4
  <1>10. k \in Nat /\ l.total \in Nat \ {0} /\ k < 2 * l.total /\ k \in 0 .. 2 * l.total - 1
    BY <1>7, <1>8, <1>9, SMTT(30) DEF Layout
  <1>11. p = l.table[k] /\ to = l.table[k].node_id
    <2>1. 1 \in DOMAIN fanout /\ k + 1 - 1 = k
      BY <1>9, <1>10
    <2> QED BY <1>2, <1>7, <2>1
  <1>12. c.size = l.size /\ c.total = l.total
    BY <1>1, <1>5, <1>6 DEF Body, Holding, Fits
  <1>13. frag = Piece(l, k)
    <2>1. /\ Piece(l, k).id = (k \div 2) + 1 /\ k \div 2 \in 0 .. l.total - 1
          /\ l.table[k] = [fragment |-> Piece(l, k).id, size |-> Piece(l, k).size,
                           node_id |-> l.table[k].node_id]
      BY <1>8, <1>10, PieceFacts, ZenonT(40)
    <2>2. p.fragment = (k \div 2) + 1 /\ p.size = Piece(l, k).size
      BY <1>11, <2>1
    <2>3. p.fragment - 1 = k \div 2
      BY <2>1, <2>2
    <2> QED BY <1>12, <2>2, <2>3 DEF Piece, FragmentOffset
  <1> HIDE DEF frag
  <1>14. /\ u \in Layout /\ u.size = l.size /\ u.total = l.total /\ u.table = l.table
         /\ u.served = k + 1
    <2>1. k + 1 \in Nat
      BY <1>10
    <2>2. u \in Layout
      BY <1>8, <2>1 DEF Layout
    <2>3. /\ u.size = l.size /\ u.total = l.total /\ u.table = l.table /\ u.served = k + 1
      BY <1>8 DEF Layout
    <2> QED BY <2>2, <2>3
  <1>15. Shape(u) /\ (FullPattern(l) => FullPattern(u))
    BY <1>8, <1>10, <1>14, SMTT(30) DEF Shape, FullPattern
  <1>16. M \in Layouts /\ M[id] = u /\ \A x \in Files : x # id => M[x] = L[x]
    <2> HIDE DEF u
    <2> QED BY <1>7, <1>14 DEF Layouts
  <1> HIDE DEF M
  <1>17. \A x \in Files : Shape(M[x])
    BY <1>15, <1>16 DEF Body
  <1>18. Patterned(M)'
    <2> HIDE DEF u
    <2> QED BY <1>1, <1>3, <1>7, <1>15, <1>16 DEF Body, Patterned
  <1>19. /\ \A n \in Node :
              Ids(fs'[n]) = IF n = to /\ n \in alive THEN Ids(fs[n]) \cup {id} ELSE Ids(fs[n])
         /\ Len(fs'[leader]) = id
    BY <1>5, FanoutIds DEF Base
  <1>20. ASSUME NEW n \in alive
         PROVE  /\ On(u, n) = IF n = to THEN On(l, n) \cup {k} ELSE On(l, n)
                /\ \A s \in [0 .. 1 -> Slot] : n # to /\ Filled(l, n, s) => Filled(u, n, s)
    <2>1. On(u, n) = IF n = to THEN On(l, n) \cup {k} ELSE On(l, n)
      <3>1. \A a : a \in 0 .. k <=> a \in 0 .. k - 1 \/ a = k
        BY <1>10
      <3>2. u.served - 1 = k
        BY <1>10, <1>14
      <3> HIDE DEF u
      <3> QED BY <1>11, <1>14, <3>1, <3>2 DEF On
    <2>2. ASSUME NEW s \in [0 .. 1 -> Slot], n # to, Filled(l, n, s) PROVE Filled(u, n, s)
      BY <1>8, <1>10, <1>11, <2>2, FilledStep
    <2> QED BY <2>1, <2>2
  <1>21. ASSUME NEW n \in alive, NEW x \in Box(fs[n]), x.file_id # id \/ n # to
         PROVE  Fits(M, n, x) /\ (n # leader => On(M[x.file_id], n) # {})
    <2>1. Fits(L, n, x) /\ (n # leader => On(L[x.file_id], n) # {})
      BY DEF Body, Holding
    <2>2. CASE x.file_id # id
      BY <1>16, <2>1, <2>2 DEF Fits
    <2>3. CASE x.file_id = id
      <3>1. n # to /\ x.slots \in [0 .. 1 -> Slot]
        <4>1. fs[n] \in Seq(FileContainer)
          BY <1>4
        <4>2. x \in FileContainer
          BY <4>1 DEF Box
        <4> QED BY <1>21, <2>3, <4>2 DEF FileContainer
      <3>2. Filled(u, n, x.slots) /\ On(u, n) = On(l, n)
        BY <1>20, <2>1, <2>3, <3>1 DEF Fits
      <3> HIDE DEF u
      <3> QED BY <1>14, <1>16, <2>1, <2>3, <3>2 DEF Fits
    <2> QED BY <2>2, <2>3
  <1>22. ASSUME to \in alive, NEW y \in FileContainer, y.file_id = id, Fits(L, to, y),
                NEW x, x = AddFragment(y, frag)
         PROVE  Fits(M, to, x) /\ On(M[x.file_id], to) # {}
    <2>1. /\ x.file_id = y.file_id /\ x.size = y.size /\ x.total = y.total
          /\ Filled(u, to, x.slots) /\ On(u, to) # {}
      <3>1. x = AddFragment(y, Piece(l, l.served)) /\ Filled(l, to, y.slots)
            /\ l.served < 2 * l.total /\ l.table[l.served].node_id = to
        BY <1>10, <1>11, <1>13, <1>22 DEF Fits
      <3> QED BY <1>8, <3>1, ServedContainer
    <2> HIDE DEF u
    <2> QED BY <1>7, <1>14, <1>16, <1>22, <2>1 DEF Fits
  <1>23. ASSUME NEW n \in alive, NEW x \in Box(fs'[n])
         PROVE  Fits(M, n, x) /\ (n # leader => On(M[x.file_id], n) # {})
    <2>1. CASE n # to
      BY <1>2, <1>4, <1>21, <2>1
    <2>2. CASE n = to
      <3>1. fs'[n] = StoreFragment(fs[n], c, frag)
        BY <1>2, <1>4, <2>2
      <3>2. \/ x \in Box(fs[n]) /\ x.file_id # c.file_id
            \/ \E y \in Box(fs[n]) : y.file_id = c.file_id /\ x = AddFragment(y, frag)
            \/ /\ c.file_id \notin Ids(fs[n])
               /\ x = AddFragment(Container(c.file_id, c.size, c.total), frag)
        <4> DEFINE list == fs[n]
        <4>1. list \in Seq(FileContainer) /\ Distinct(list) /\ frag \in Slot /\ c \in FileContainer
          BY <1>2, <1>4, <2>2
        <4>2. x \in Box(StoreFragment(list, c, frag))
          BY <3>1
        <4> HIDE DEF list
        <4>3. \/ x \in Box(list) /\ x.file_id # c.file_id
              \/ \E y \in Box(list) : y.file_id = c.file_id /\ x = AddFragment(y, frag)
              \/ /\ c.file_id \notin Ids(list)
                 /\ x = AddFragment(Container(c.file_id, c.size, c.total), frag)
          BY <4>1, <4>2, StoreFragmentBox
        <4> QED BY <4>3 DEF list
      <3>3. CASE x \in Box(fs[n]) /\ x.file_id # c.file_id
        BY <1>5, <1>21, <3>3
      <3>4. CASE \E y \in Box(fs[n]) : y.file_id = c.file_id /\ x = AddFragment(y, frag)
        <4>1. PICK y \in Box(fs[n]) : y.file_id = c.file_id /\ x = AddFragment(y, frag)
          BY <3>4
        <4>2. Fits(L, n, y)
          BY <4>1 DEF Body, Holding
        <4>3. y \in FileContainer
          BY <1>4, <4>1 DEF Box
        <4> QED BY <1>5, <1>22, <2>2, <4>1, <4>2, <4>3
      <3>5. CASE /\ c.file_id \notin Ids(fs[n])
                 /\ x = AddFragment(Container(c.file_id, c.size, c.total), frag)
        <4> DEFINE y == Container(id, l.size, l.total)
        <4>1. On(l, n) = {}
          BY <1>5, <1>7, <3>5 DEF Body, Holding
        <4>2. Fits(L, n, y) /\ y.file_id = id
          <5>1. y = Container(id, L[id].size, L[id].total) /\ On(L[id], n) = {}
            BY <4>1
          <5> HIDE DEF y
          <5>2. /\ y.file_id = id /\ y.size = L[id].size /\ y.total = L[id].total
                /\ y.slots[0] = NoSlot /\ y.slots[1] = NoSlot
            BY <5>1 DEF Container
          <5> QED BY <1>7, <5>1, <5>2 DEF Fits, Filled
        <4>3. y \in FileContainer
          BY <1>2, <1>5, <1>12 DEF Container, FileContainer, NoSlot, Slot
        <4>4. x = AddFragment(y, frag)
          BY <1>5, <1>12, <3>5
        <4> HIDE DEF y
        <4> QED BY <1>22, <2>2, <4>2, <4>3, <4>4
      <3> QED BY <3>2, <3>3, <3>4, <3>5
    <2> QED BY <2>1, <2>2
  <1>24. ASSUME NEW n \in alive, NEW x \in Files, On(M[x], n) # {} PROVE x \in Ids(fs'[n])
    <2>1. CASE x # id
      <3>1. x \in Ids(fs[n])
        BY <1>16, <1>24, <2>1 DEF Body, Holding
      <3> QED BY <1>4, <1>19, <3>1
    <2>2. CASE x = id /\ n = to
      BY <1>4, <1>19, <2>2
    <2>3. CASE x = id /\ n # to
      <3>1. On(L[x], n) # {}
        BY <1>16, <1>20, <1>24, <2>3
      <3>2. x \in Ids(fs[n])
        BY <3>1 DEF Body, Holding
      <3> QED BY <1>4, <1>19, <3>2
    <2> QED BY <2>1, <2>2, <2>3
  <1>25. Holding(M)'
    BY <1>1, <1>23, <1>24 DEF Holding, Fits
  <1>26. Ended(M)'
    <2>1. id \notin complete
      <3>1. ~Whole(l)
        BY <1>10 DEF Whole
      <3> QED BY <3>1 DEF Body, Ended
    <2>2. \A x \in complete : x \in Files /\ Whole(M[x])
      BY <1>16, <2>1 DEF Body, Ended
    <2>3. Len(fanout) = 1 => Whole(M[id])
      <3> HIDE DEF u
      <3> QED BY <1>7, <1>10, <1>14, <1>16 DEF Whole
    <2> QED BY <1>1, <1>5, <1>7, <2>2, <2>3 DEF Ended
  <1>27. Underway(M)'
    <2> HIDE DEF u
    <2>1. Len(fs[leader])' = id
      BY <1>1, <1>19
    <2>2. M[id].served + Len(fanout') = 2 * M[id].total
      <3>1. M[id].served = k + 1 /\ M[id].total = l.total
        BY <1>14, <1>16
      <3> DEFINE m == Len(fanout)
                 T == l.total
      <3>2. m \in Nat /\ Len(fanout') = m - 1 /\ k + m = 2 * T /\ k \in Nat /\ T \in Nat
        BY <1>7, <1>9, <1>10
      <3> HIDE DEF m, T
      <3>3. (k + 1) + (m - 1) = 2 * T
        BY <3>2
      <3> QED BY <3>1, <3>2, <3>3 DEF T
    <2>3. \A j \in DOMAIN fanout' : fanout'[j] = M[id].table[M[id].served + j - 1]
      <3> SUFFICES ASSUME NEW j \in 1 .. Len(fanout) - 1
                   PROVE  fanout'[j] = M[id].table[M[id].served + j - 1]
        BY <1>9
      <3>1. j + 1 \in DOMAIN fanout /\ k + (j + 1) - 1 = k + 1 + j - 1
        BY <1>9, <1>10, SMTT(30)
      <3>2. fanout'[j] = l.table[k + (j + 1) - 1]
        BY <1>7, <1>9, <3>1
      <3> QED BY <1>14, <1>16, <3>1, <3>2
    <2> QED BY <1>7, <2>1, <2>2, <2>3 DEF Underway
  <1>28. Listing(M)'
    <2> HIDE DEF u
    <2> SUFFICES ASSUME NEW f \in Box(fnetidx)
                 PROVE  f.file_id \in Files
                        /\ Lists(M[f.file_id], f.fragments, Settled(M, f.file_id))'
      BY <1>1 DEF Listing
    <2>1. f.file_id \in Files /\ Lists(L[f.file_id], f.fragments, Settled(L, f.file_id))
      BY <1>1, <1>3 DEF Body, Listing
    <2>2. CASE f.file_id # id
      <3>1. M[f.file_id] = L[f.file_id]
        BY <1>16, <2>1, <2>2
      <3>2. Settled(M, f.file_id)' => Settled(L, f.file_id)
        BY <1>1, <1>19, <2>2, <3>1 DEF Settled
      <3> QED BY <1>1, <2>1, <3>1, <3>2 DEF Lists
    <2>3. CASE f.file_id = id
      <3>1. Settled(L, f.file_id)
        BY <1>1, <2>3 DEF Settled
      <3>2. M[f.file_id].table = L[f.file_id].table /\ M[f.file_id].total = L[f.file_id].total
        BY <1>14, <1>16, <2>3
      <3> QED BY <1>1, <2>1, <3>1, <3>2 DEF Lists
    <2> QED BY <2>2, <2>3
  <1>29. Relisting(M)'
    BY <1>3 DEF Relisting
  <1> QED BY <1>16, <1>17, <1>18, <1>25, <1>26, <1>27, <1>28, <1>29 DEF Body

StorageInv == NumberingInv /\ Phase /\ \E L \in Layouts : Body(L)

LEMMA StorageBase ==
    ASSUME MaxCrashes <= 1
    PROVE  StorageInv => Base
  BY OneOfTwoLives, OneDeathAtMost DEF StorageInv, NumberingInv, Base

LEMMA StorageInit == N >= 5 /\ Init => StorageInv
  <1>1. Init => NumberingInv
    BY TypeInit, NumberingInit DEF NumberingInv
  <1> QED BY <1>1, PhaseInit, BodyInit DEF StorageInv

LEMMA StorageStep ==
    ASSUME N >= 5, MaxCrashes <= 1
    PROVE  StorageInv /\ [Next]_vars => StorageInv'
  <1> SUFFICES ASSUME StorageInv, [Next]_vars PROVE StorageInv'
    OBVIOUS
  <1>1. Base
    BY StorageBase
  <1>2. NumberingInv'
    BY NumberingStep DEF StorageInv
  <1>3. CInv'
    BY <1>2 DEF NumberingInv
  <1>4. Phase
    BY DEF StorageInv
  <1>5. PICK L \in Layouts : Body(L)
    BY DEF StorageInv
  <1>6. ASSUME Phase', Body(L)' PROVE StorageInv'
    BY <1>2, <1>6 DEF StorageInv
  <1>7. ASSUME Phase', \E M \in Layouts : Body(M)' PROVE StorageInv'
    BY <1>2, <1>7 DEF StorageInv
  <1>8. ASSUME NEW sz \in Sizes, NewFile(sz) PROVE StorageInv'
    <2>1. UNCHANGED <<alive, aware, leader, peer_ips, known_peers, reporters>>
      BY <1>8 DEF NewFile
    <2> QED BY <1>1, <1>3, <1>4, <1>5, <1>7, <1>8, <2>1, NewFileBody, SamePhase
  <1>9. CASE FanoutStep
    <2>1. UNCHANGED <<alive, aware, leader, peer_ips, known_peers, reporters>>
      BY <1>9 DEF FanoutStep
    <2> QED BY <1>1, <1>4, <1>5, <1>7, <1>9, <2>1, FanoutBody, SamePhase
  <1>10. ASSUME NEW d \in Node, Crash(d) PROVE StorageInv'
    BY <1>1, <1>5, <1>6, <1>10, CrashPhase, CrashBody
  <1>11. ASSUME NEW n \in Node, NEW d \in Node, Learn(n, d) PROVE StorageInv'
    BY <1>1, <1>5, <1>6, <1>11, LearnPhase, LearnBody
  <1>12. ASSUME NEW i \in Node, Elect(i) PROVE StorageInv'
    BY <1>1, <1>5, <1>6, <1>12, ElectPhase, ElectBody
  <1>13. ASSUME NEW i \in Node, ReportSelf(i) PROVE StorageInv'
    BY <1>1, <1>5, <1>6, <1>13, ReportSelfPhase, ReportSelfBody
  <1>14. CASE ReportFile
    <2>1. UNCHANGED <<alive, aware, leader, peer_ips, known_peers, reporters>>
      BY <1>14 DEF ReportFile
    <2> QED BY <1>1, <1>4, <1>5, <1>6, <1>14, <2>1, ReportFileBody, SamePhase
  <1>15. CASE UNCHANGED vars
    <2>1. /\ UNCHANGED <<alive, aware, leader, peer_ips, known_peers, reporters>>
          /\ UNCHANGED <<alive, leader, fs, fnetidx, fanout, reporters, reports, complete>>
      BY <1>15 DEF vars
    <2>2. Untold' => Untold
      BY <2>1 DEF Untold
    <2> QED BY <1>4, <1>5, <1>6, <2>1, <2>2, SameBody, SamePhase
  <1> QED BY <1>8, <1>9, <1>10, <1>11, <1>12, <1>13, <1>14, <1>15 DEF Next

LEMMA StorageInvariance ==
    ASSUME N >= 5, MaxCrashes <= 1
    PROVE  Spec => []StorageInv
  <1>1. Init => StorageInv
    BY StorageInit
  <1>2. StorageInv /\ [Next]_vars => StorageInv'
    BY StorageStep
  <1> QED BY <1>1, <1>2, PTL DEF Spec

-----------------------------------------------------------------------------
(* What the invariant says of pointers *)

\* A live node keeps the fragments it was served, and no others.
LEMMA KeptIs ==
    ASSUME Base, NEW L \in Layouts, Body(L), NEW n \in alive, NEW id \in Files,
           On(L[id], n) # {}
    PROVE  Kept(n, id) = {Piece(L[id], k) : k \in On(L[id], n)}
  <1> DEFINE l == L[id]
             pos == PosOf(fs[n], id)
             c == fs[n][pos]
             s == c.slots
  <1>1. l \in Layout /\ Shape(l)
    BY DEF Layouts, Body
  <1>2. n \in Node /\ fs[n] \in Seq(FileContainer) /\ Distinct(fs[n])
    BY DEF Base, CInv, TypeInv, Numbering
  <1>3. id \in Ids(fs[n])
    BY DEF Body, Holding
  <1>4. pos # 0 /\ pos \in DOMAIN fs[n] /\ c.file_id = id
    BY <1>2, <1>3, PosFound
  <1>5. c \in Box(fs[n])
    BY <1>4 DEF Box
  <1>6. Filled(l, n, s)
    BY <1>4, <1>5 DEF Body, Holding, Fits
  <1>7. Kept(n, id) = {s[j] : j \in {k \in 0 .. 1 : s[k].id # 0}}
    BY <1>4 DEF Kept
  <1> HIDE DEF l, s
  <1>8. \A k \in On(l, n) : Piece(l, k).id # 0
    <2>1. On(l, n) \subseteq 0 .. 2 * l.total - 1
      BY <1>1, OnFew
    <2> QED BY <1>1, <2>1, PieceFacts
  <1>9. NoSlot.id = 0
    BY DEF NoSlot
  <1>10. On(l, n) # {}
    BY DEF l
  <1>11. 0 \in 0 .. 1 /\ 1 \in 0 .. 1 /\ \A j \in 0 .. 1 : j = 0 \/ j = 1
    OBVIOUS
  <1>12. {s[j] : j \in {k \in 0 .. 1 : s[k].id # 0}} = {Piece(l, k) : k \in On(l, n)}
    <2>1. CASE \E a \in Nat : On(l, n) = {a} /\ s[0] = Piece(l, a) /\ s[1] = NoSlot
      BY <1>8, <1>9, <1>11, <2>1
    <2>2. CASE \E a, b \in Nat : /\ a < b /\ On(l, n) = {a, b}
                                 /\ s[0] = Piece(l, a) /\ s[1] = Piece(l, b)
      BY <1>8, <1>9, <1>11, <2>2
    <2> QED BY <1>6, <1>10, <2>1, <2>2 DEF Filled
  <1> QED BY <1>7, <1>12 DEF l

\* So an entry of a stored file's layout that names a live node is backed.
LEMMA EntryHeld ==
    ASSUME Base, NEW L \in Layouts, Body(L), NEW id \in Files, Whole(L[id]),
           NEW k \in 0 .. 2 * L[id].total - 1, NEW p, p = L[id].table[k], p.node_id \in alive
    PROVE  Holds(p.node_id, id, L[id].size, L[id].total, p)
  <1> DEFINE l == L[id]
             n == p.node_id
  <1>1. l \in Layout /\ Shape(l)
    BY DEF Layouts, Body
  <1>2. k \in On(l, n)
    BY DEF On, Whole
  <1>3. Piece(l, k) \in Kept(n, id)
    <2>1. n \in alive /\ On(L[id], n) # {}
      BY <1>2
    <2> HIDE DEF n
    <2>2. Kept(n, id) = {Piece(L[id], j) : j \in On(L[id], n)}
      BY <2>1, KeptIs
    <2> QED BY <1>2, <2>2
  <1> HIDE DEF l
  <1>4. k \in 0 .. 2 * l.total - 1
    BY DEF l
  <1>5. /\ Piece(l, k).id = (k \div 2) + 1 /\ k \div 2 \in 0 .. l.total - 1
        /\ l.table[k] = [fragment |-> Piece(l, k).id, size |-> Piece(l, k).size,
                         node_id |-> l.table[k].node_id]
    BY <1>1, <1>4, PieceFacts
  <1>6. p.fragment = (k \div 2) + 1
    BY <1>5 DEF l
  <1>7. p.fragment - 1 = k \div 2
    BY <1>5, <1>6
  <1>8. Piece(l, k) = [id |-> p.fragment, off |-> FragmentOffset(l.size, l.total, p.fragment - 1),
                       size |-> FragmentSize(l.size, l.total, p.fragment - 1)]
    BY <1>6, <1>7 DEF Piece
  <1> QED BY <1>3, <1>8 DEF Holds, l

\* The tables of the index, at any time: an entry is empty or one of the layout's, and
\* the two entries of a fragment name different nodes.
LEMMA TableEntries ==
    ASSUME N >= 5, Base, NEW L \in Layouts, Body(L), leader \in alive, NEW f \in Box(fnetidx)
    PROVE  LET l == L[f.file_id]
               t == f.fragments
           IN /\ f.file_id \in Files /\ DOMAIN t = 0 .. 2 * l.total - 1 /\ Apart(t)
              /\ \A k \in DOMAIN t :
                   t[k] = NullPtr \/ \E j \in 0 .. 2 * l.total - 1 : t[k] = l.table[j]
  <1> DEFINE l == L[f.file_id]
             t == f.fragments
             D == 0 .. 2 * l.total - 1
  <1>1. f.file_id \in Files
    BY DEF Body, Listing, Relisting, Reports, Relists
  <1>2. l \in Layout /\ Shape(l) /\ l.total \in Nat \ {0}
    BY <1>1 DEF Body, Layouts, Layout
  <1>3. /\ DOMAIN l.table = D /\ Apart(l.table)
        /\ \A k \in D : l.table[k].node_id \in Node
    BY <1>2 DEF Shape, Regular, GoodPtr
  <1>4. NullPtr.node_id = 0 /\ 0 \notin Node
    BY NodeFinite DEF NullPtr
  <1>5. \/ DOMAIN t = D /\ \A k \in D : t[k] \in {l.table[k], NullPtr}
        \/ /\ DOMAIN t = D /\ l.total = 1
           /\ t[0] \in {l.table[0], l.table[1], NullPtr} /\ t[1] \in {l.table[1], NullPtr}
           /\ t[1] # NullPtr => t[0] = l.table[0]
    <2>1. CASE Rebuilding
      <3>1. Relisted(l, t, HeardBy(f.file_id))
        BY <2>1 DEF Body, Relisting, Reports, Relists
      <3> HIDE DEF l, t
      <3>2. CASE l.total # 1
        BY <3>1, <3>2 DEF Relisted
      <3>3. CASE l.total = 1
        <4> DEFINE a == 1 \in HeardBy(f.file_id) /\ l.served > 0
                   b == 2 \in HeardBy(f.file_id) /\ l.served > 1
        <4>1. /\ DOMAIN t = D
              /\ t[0] = IF a THEN l.table[0] ELSE IF b THEN l.table[1] ELSE NullPtr
              /\ t[1] = IF a /\ b THEN l.table[1] ELSE NullPtr
          BY <3>1, <3>3 DEF Relisted
        <4> HIDE DEF a, b, D
        <4> QED BY <3>3, <4>1
      <3> QED BY <3>2, <3>3
    <2>2. CASE ~Rebuilding
      <3>1. Lists(l, t, Settled(L, f.file_id))
        BY <2>2 DEF Body, Listing
      <3> HIDE DEF l, t
      <3> QED BY <3>1 DEF Lists
    <2> QED BY <2>1, <2>2
  <1> HIDE DEF l, t
  <1>6. CASE DOMAIN t = D /\ \A k \in D : t[k] \in {l.table[k], NullPtr}
    <2>1. Apart(t)
      <3> SUFFICES ASSUME NEW k \in D, k % 2 = 0, t[k].node_id # 0
                   PROVE  t[k].node_id # t[k + 1].node_id
        BY <1>6 DEF Apart
      <3>1. k + 1 \in D
        BY <1>2
      <3>2. t[k] = l.table[k]
        BY <1>4, <1>6
      <3>3. l.table[k].node_id # l.table[k + 1].node_id
        BY <1>3, <3>2 DEF Apart
      <3>4. t[k + 1] = l.table[k + 1] \/ t[k + 1] = NullPtr
        BY <1>6, <3>1
      <3> QED BY <1>4, <3>2, <3>3, <3>4
    <2> QED BY <1>1, <1>6, <2>1 DEF l, t
  <1>7. CASE /\ DOMAIN t = D /\ l.total = 1
             /\ t[0] \in {l.table[0], l.table[1], NullPtr} /\ t[1] \in {l.table[1], NullPtr}
             /\ t[1] # NullPtr => t[0] = l.table[0]
    <2>1. \A k : k \in D <=> k = 0 \/ k = 1
      BY <1>7
    <2>2. Apart(t)
      <3> SUFFICES ASSUME NEW k \in D, k % 2 = 0, t[k].node_id # 0
                   PROVE  t[k].node_id # t[k + 1].node_id
        BY <1>7 DEF Apart
      <3>1. k = 0
        BY <2>1
      <3>2. CASE t[1] = NullPtr
        BY <1>4, <3>1, <3>2
      <3>3. CASE t[1] = l.table[1] /\ t[1] # NullPtr
        <4>1. l.table[0].node_id # l.table[1].node_id
          <5>1. 0 \in D /\ 0 % 2 = 0 /\ 0 + 1 = 1 /\ l.table[0].node_id # 0
            BY <1>3, <1>4, <2>1
          <5>2. l.table[0].node_id # l.table[0 + 1].node_id
            BY <1>3, <5>1 DEF Apart
          <5> QED BY <5>1, <5>2
        <4> QED BY <1>7, <3>1, <3>3, <4>1
      <3> QED BY <1>7, <3>2, <3>3
    <2>3. \A k \in D : t[k] = NullPtr \/ \E j \in D : t[k] = l.table[j]
      BY <1>7, <2>1
    <2> QED BY <1>1, <1>7, <2>2, <2>3 DEF l, t
  <1> QED BY <1>5, <1>6, <1>7

\* Count and size of a file, as the index finds them in its table and its container.
LEMMA CountIs ==
    ASSUME NEW f, NEW m \in Nat, DOMAIN f.fragments = 0 .. 2 * m - 1
    PROVE  Count(f) = m
  <1>1. 0 \in Int /\ 2 * m - 1 \in Int
    OBVIOUS
  <1>2. Cardinality(0 .. 2 * m - 1) = IF 0 > 2 * m - 1 THEN 0 ELSE 2 * m - 1 - 0 + 1
    BY <1>1, FS_Interval
  <1>3. Cardinality(0 .. 2 * m - 1) = 2 * m
    BY <1>2
  <1> QED BY <1>3 DEF Count, REDUNDANCY

LEMMA SizeIs ==
    ASSUME Base, NEW L \in Layouts, Body(L), leader \in alive, NEW f \in Box(fnetidx)
    PROVE  KnownSize(f) = {L[f.file_id].size}
  <1> DEFINE pos == PosOf(fs[leader], f.file_id)
             c == fs[leader][pos]
  <1>1. f.file_id \in Ids(fnetidx)
    BY DEF Box, Ids
  <1>2. f.file_id \in Ids(fs[leader])
    BY <1>1 DEF Base, Numbering, Rebuild, Steady
  <1>3. fs[leader] \in Seq(FileContainer)
    BY DEF Base, CInv, TypeInv
  <1>4. pos # 0 /\ pos \in DOMAIN fs[leader] /\ c.file_id = f.file_id
    BY <1>2, <1>3, PosFound
  <1>5. c \in Box(fs[leader])
    BY <1>4 DEF Box
  <1>6. c.size = L[f.file_id].size
    BY <1>4, <1>5 DEF Body, Holding, Fits
  <1> QED BY <1>4, <1>6 DEF KnownSize

LEMMA PointersImplied ==
    ASSUME N >= 5, MaxCrashes <= 1
    PROVE  StorageInv => PointersAreBacked /\ CopiesApart
  <1> SUFFICES ASSUME StorageInv, leader \in alive, NEW i \in DOMAIN fnetidx
               PROVE  LET f == fnetidx[i] IN
                      /\ f.file_id \in complete => \A k \in DOMAIN f.fragments :
                           f.fragments[k].node_id \in alive
                             => \E sz \in KnownSize(f) :
                                  Holds(f.fragments[k].node_id, f.file_id, sz, Count(f), f.fragments[k])
                      /\ Apart(f.fragments)
    BY DEF PointersAreBacked, CopiesApart, Apart
  <1>1. Base
    BY StorageBase
  <1>2. PICK L \in Layouts : Body(L)
    BY DEF StorageInv
  <1> DEFINE f == fnetidx[i]
             l == L[f.file_id]
  <1>3. f \in Box(fnetidx)
    BY DEF Box
  <1> HIDE DEF f
  <1>4. /\ f.file_id \in Files /\ DOMAIN f.fragments = 0 .. 2 * l.total - 1 /\ Apart(f.fragments)
        /\ \A k \in DOMAIN f.fragments : \/ f.fragments[k] = NullPtr
                                         \/ \E j \in 0 .. 2 * l.total - 1 : f.fragments[k] = l.table[j]
    BY <1>1, <1>2, <1>3, TableEntries
  <1>5. l.total \in Nat
    BY <1>4 DEF Layouts, Layout
  <1>6. Count(f) = l.total /\ KnownSize(f) = {l.size}
    BY <1>1, <1>2, <1>3, <1>4, <1>5, CountIs, SizeIs
  <1>7. ASSUME f.file_id \in complete, NEW k \in DOMAIN f.fragments,
               f.fragments[k].node_id \in alive
        PROVE  Holds(f.fragments[k].node_id, f.file_id, l.size, l.total, f.fragments[k])
    <2>1. f.fragments[k] # NullPtr
      BY <1>1, <1>7, NodeFinite DEF NullPtr, Base, CInv, TypeInv
    <2>2. PICK j \in 0 .. 2 * l.total - 1 : f.fragments[k] = l.table[j]
      BY <1>4, <1>7, <2>1
    <2>3. Whole(l)
      BY <1>2, <1>7 DEF Body, Ended
    <2> QED BY <1>1, <1>2, <1>4, <1>7, <2>2, <2>3, EntryHeld
  <1> HIDE DEF l
  <1> QED BY <1>4, <1>6, <1>7 DEF f

-----------------------------------------------------------------------------
(* Reading *)

\* An index that has counted the deaths takes exactly the live nodes for valid ones.
LEMMA ValidIs ==
    ASSUME N >= 5, Base, InService
    PROVE  /\ \A n \in Node : ValidNode(View, n) <=> n \in alive
           /\ ~ValidNode(View, 0)
           /\ View.death_count = 0 => alive = Node
           /\ View.death_count # 0 => View.net_size \in {N - 2, N - 1}
  <1>1. /\ View.me = leader /\ View.peer_ips = peer_ips
        /\ View.net_size = net_size[leader] /\ View.death_count = death_count[leader]
    BY DEF View
  <1>2. N \in Nat /\ Node = 1 .. N /\ N \in Node
    BY NodeFinite DEF Node
  <1>3. /\ leader \in alive /\ reporters = {} /\ leader \in Node /\ alive \subseteq Node
        /\ \A d \in Dead : leader \in aware[d]
    BY DEF InService, Serving, Base, CInv, TypeInv
  <1>4. \A n \in Node : ValidNode(View, n) <=> n = leader \/ n \in peer_ips
    BY <1>1, <1>2 DEF ValidNode
  <1>5. \A n \in Node : ValidNode(View, n) <=> n \in alive
    <2>1. CASE leader = N
      <3>1. peer_ips = {n \in Node : n # N /\ N \notin aware[n]}
        BY <1>3, <2>1 DEF Base, Phase
      <3>2. \A n \in Node : N \in aware[n] <=> n \in Dead
        BY <1>3, <2>1 DEF Base, CInv, Counts
      <3> QED BY <1>3, <1>4, <2>1, <3>1, <3>2 DEF Dead
    <2>2. CASE leader # N
      <3>1. leader = N - 1 /\ N \notin alive /\ peer_ips = 1 .. N - 2
        BY <1>3, <2>2 DEF Base, Phase
      <3>2. \A n \in Node : n \in alive <=> n # N
        <4>1. N \in Dead
          BY <1>2, <3>1 DEF Dead
        <4> QED BY <3>1, <4>1 DEF Base, OneDeath, Dead
      <3>3. \A n \in Node : n = N - 1 \/ n \in 1 .. N - 2 <=> n # N
        BY <1>2
      <3> QED BY <1>4, <3>1, <3>2, <3>3
    <2> QED BY <2>1, <2>2
  <1>6. ~ValidNode(View, 0)
    BY DEF ValidNode
  <1>7. \/ death_count[leader] = 0 /\ \A d \in Node : leader \notin aware[d]
        \/ death_count[leader] = 1 /\ net_size[leader] \in {N - 2, N - 1}
    <2>1. CASE \A d \in Node : leader \notin aware[d]
      BY <1>3, <2>1, NetSizeIs DEF Base
    <2>2. CASE \E d \in Node : leader \in aware[d]
      <3>1. PICK d \in Node : leader \in aware[d]
        BY <2>2
      <3>2. /\ death_count[leader] = 1
            /\ net_size[leader] = IF d = Pred(leader) THEN N - 2 ELSE N - 1
        BY <1>3, <3>1, NetSizeIs DEF Base
      <3> QED BY <3>2
    <2> QED BY <2>1, <2>2
  <1>8. ASSUME View.death_count = 0 PROVE alive = Node
    <2>1. \A d \in Node : leader \notin aware[d]
      BY <1>1, <1>7, <1>8
    <2> QED BY <1>3, <2>1 DEF Dead
  <1> QED BY <1>1, <1>5, <1>6, <1>7, <1>8

\* The copy selected of a fragment is an entry of the layout and on a live node: of the
\* two nodes of a fragment at most one is dead.
LEMMA PickIs ==
    ASSUME N >= 5, Base, NEW L \in Layouts, Body(L), InService, NEW f \in Box(fnetidx),
           f.file_id \in complete, NEW i \in 0 .. L[f.file_id].total - 1
    PROVE  LET l == L[f.file_id] IN
           \E j \in {2 * i, 2 * i + 1} :
              /\ Selected(View, l.total, f.fragments)[i] = l.table[j]
              /\ l.table[j].node_id \in alive
  <1> DEFINE l == L[f.file_id]
             t == f.fragments
             D == 0 .. 2 * l.total - 1
             pick == Selected(View, l.total, t)[i]
  <1>1. f.file_id \in Files /\ Whole(l)
    BY DEF Body, Ended
  <1>2. l \in Layout /\ Shape(l) /\ l.total \in Nat \ {0} /\ l.total \in {1, N - 2, N - 1, N}
    BY <1>1 DEF Body, Layouts, Layout, Shape
  <1>3. leader \in alive /\ ~Rebuilding
    BY DEF InService, Serving, Rebuilding
  <1>4. Lists(l, t, Settled(L, f.file_id)) /\ Settled(L, f.file_id)
    BY <1>1, <1>3 DEF Body, Listing, Settled
  <1> HIDE DEF l, t
  <1>5. \A k \in D : /\ t[k] \in {l.table[k], NullPtr}
                     /\ l.table[k].node_id \in alive => t[k] = l.table[k]
    BY <1>4 DEF Lists
  <1> DEFINE a == 2 * i
             b == 2 * i + 1
  <1>6. a \in D /\ b \in D /\ a % 2 = 0 /\ b = a + 1 /\ a = i * REDUNDANCY /\ b = i * REDUNDANCY + 1
    <2>1. i \in 0 .. l.total - 1
      BY DEF l
    <2> QED BY <1>2, <2>1 DEF REDUNDANCY
  <1>7. pick = IF \/ View.death_count = 0
                  \/ l.total = View.net_size * REDUNDANCY
                  \/ ValidNode(View, t[a].node_id)
                 THEN t[a] ELSE t[b]
    <2>1. i \in 0 .. l.total - 1
      BY DEF l
    <2> QED BY <1>6, <2>1 DEF Selected
  <1> HIDE DEF a, b, D, pick
  <1>8. /\ l.table[a].node_id \in Node /\ l.table[b].node_id \in Node
        /\ l.table[a].node_id # l.table[b].node_id
    <2>1. DOMAIN l.table = D /\ Apart(l.table) /\ \A k \in D : l.table[k].node_id \in Node
      BY <1>2 DEF Shape, Regular, GoodPtr, D
    <2>2. l.table[a].node_id # 0
      BY <1>6, <2>1, NodeFinite
    <2> QED BY <1>6, <2>1, <2>2 DEF Apart
  <1>9. /\ \A n \in Node : ValidNode(View, n) <=> n \in alive
        /\ ~ValidNode(View, 0)
        /\ View.death_count = 0 => alive = Node
        /\ View.death_count # 0 => View.net_size \in {N - 2, N - 1}
    BY ValidIs
  <1>10. View.death_count # 0 => l.total # View.net_size * REDUNDANCY
    <2> SUFFICES ASSUME View.death_count # 0 PROVE l.total # View.net_size * REDUNDANCY
      OBVIOUS
    <2>1. View.net_size = N - 2 \/ View.net_size = N - 1
      BY <1>9
    <2>2. N \in Nat
      BY NodeFinite
    <2>3. (N - 2) * 2 > N /\ (N - 1) * 2 > N
      BY <2>2
    <2>4. l.total <= N
      BY <1>2, <2>2
    <2> QED BY <1>2, <2>1, <2>2, <2>3, <2>4 DEF REDUNDANCY
  <1>11. CASE l.table[a].node_id \in alive
    <2>1. t[a] = l.table[a] /\ ValidNode(View, t[a].node_id)
      BY <1>5, <1>6, <1>8, <1>9, <1>11
    <2>2. pick = l.table[a]
      BY <1>7, <2>1
    <2> QED BY <1>11, <2>2 DEF l, t, a, pick
  <1>12. CASE l.table[a].node_id \notin alive
    <2>1. View.death_count # 0
      BY <1>8, <1>9, <1>12
    <2>2. ~ValidNode(View, t[a].node_id)
      <3>1. t[a] = l.table[a] \/ t[a] = NullPtr
        BY <1>5, <1>6
      <3>2. NullPtr.node_id = 0
        BY DEF NullPtr
      <3> QED BY <1>8, <1>9, <1>12, <3>1, <3>2
    <2>3. l.table[b].node_id \in alive
      BY <1>8, <1>12 DEF Base, OneDeath, Dead
    <2>4. pick = l.table[b]
      BY <1>5, <1>6, <1>7, <1>10, <2>1, <2>2, <2>3
    <2> QED BY <2>3, <2>4 DEF l, t, b, pick
  <1> QED BY <1>11, <1>12

\* The bytes of all fragments are the bytes of the file.
LEMMA FragmentsCover ==
    ASSUME NEW sz \in Nat, NEW cnt \in Nat \ {0}
    PROVE  \A b : b \in 0 .. sz - 1 <=>
              \E i \in 0 .. cnt - 1 :
                 b \in FragmentOffset(sz, cnt, i)
                         .. FragmentOffset(sz, cnt, i) + FragmentSize(sz, cnt, i) - 1
  <1> DEFINE off(i) == FragmentOffset(sz, cnt, i)
             len(i) == FragmentSize(sz, cnt, i)
             q == sz \div cnt
  <1>1. \A i \in 0 .. cnt - 1 : /\ off(i) \in Nat
                                /\ off(i) + len(i) = IF i + 1 = cnt THEN sz ELSE q * (i + 1)
    BY FragmentEnds, ZenonT(40)
  <1>2. \A i \in 0 .. cnt - 1 : len(i) \in Nat
    BY FragmentSizeType
  <1>3. q \in Nat /\ q * cnt <= sz
    BY DivisionSplit
  <1>4. ASSUME NEW b \in 0 .. sz - 1
        PROVE  \E i \in 0 .. cnt - 1 : b \in off(i) .. off(i) + len(i) - 1
    <2>1. PICK i \in 0 .. cnt - 1 : InFragment(sz, cnt, i, b)
      BY FragmentsTile
    <2>2. off(i) <= b /\ b < off(i) + len(i)
      BY <2>1 DEF InFragment
    <2> HIDE DEF off, len
    <2>3. b \in off(i) .. off(i) + len(i) - 1
      BY <1>1, <1>2, <2>2
    <2> QED BY <2>3
  <1>5. ASSUME NEW i \in 0 .. cnt - 1, NEW b \in off(i) .. off(i) + len(i) - 1
        PROVE  b \in 0 .. sz - 1
    <2> HIDE DEF off, len, q
    <2>1. off(i) + len(i) <= sz
      <3>1. CASE i + 1 = cnt
        BY <1>1, <3>1
      <3>2. CASE i + 1 # cnt
        <4>1. i + 1 \in Nat /\ cnt \in Nat /\ i + 1 <= cnt
          BY <3>2
        <4>2. q * (i + 1) <= q * cnt
          BY <1>3, <4>1, Monotone
        <4>3. q * (i + 1) \in Nat /\ q * cnt \in Nat
          BY <1>3, <4>1, ProductNat
        <4>4. off(i) + len(i) = q * (i + 1)
          BY <1>1, <3>2
        <4> QED BY <1>3, <4>2, <4>3, <4>4
      <3> QED BY <3>1, <3>2
    <2>2. off(i) \in Nat /\ len(i) \in Nat
      BY <1>1, <1>2
    <2> QED BY <2>1, <2>2
  <1> HIDE DEF off, len
  <1>6. \A b : b \in 0 .. sz - 1 <=> \E i \in 0 .. cnt - 1 : b \in off(i) .. off(i) + len(i) - 1
    BY <1>4, <1>5
  <1> QED BY <1>6 DEF off, len

LEMMA ReadableImplied ==
    ASSUME N >= 5, Base, NEW L \in Layouts, Body(L), InService, NEW f \in Box(fnetidx),
           f.file_id \in complete
    PROVE  Readable(f)
  <1> DEFINE id == f.file_id
             l == L[id]
             m == l.total
             sz == l.size
             pick == Selected(View, m, f.fragments)
             Frag(i) == [id |-> i + 1, off |-> FragmentOffset(sz, m, i),
                         size |-> FragmentSize(sz, m, i)]
             Found(i) == {s \in Kept(pick[i].node_id, id) : s.id = i + 1}
  <1>1. leader \in alive
    BY DEF InService, Serving
  <1>2. id \in Files /\ Whole(l) /\ id \in complete
    BY DEF Body, Ended
  <1>3. l \in Layout /\ Shape(l) /\ m \in Nat \ {0} /\ sz \in Nat
    BY <1>2 DEF Body, Layouts, Layout
  <1>4. DOMAIN f.fragments = 0 .. 2 * m - 1
    BY <1>1, TableEntries
  <1>5. Count(f) = m /\ KnownSize(f) = {sz}
    BY <1>1, <1>3, <1>4, CountIs, SizeIs
  <1>6. DOMAIN pick = 0 .. m - 1
    BY DEF Selected
  <1>7. ASSUME NEW i \in 0 .. m - 1
        PROVE  /\ pick[i].fragment = i + 1
               /\ pick[i].node_id \in alive
               /\ Holds(pick[i].node_id, id, sz, m, pick[i])
               /\ Found(i) = {Frag(i)}
    <2>1. PICK j \in {2 * i, 2 * i + 1} : pick[i] = l.table[j] /\ l.table[j].node_id \in alive
      BY PickIs
    <2> DEFINE n == pick[i].node_id
    <2>2. j \in 0 .. 2 * m - 1 /\ j \div 2 = i
      <3> HIDE DEF m, pick
      <3> QED BY <1>3
    <2>3. l.table[j].fragment = (j \div 2) + 1
      <3>1. /\ Piece(l, j).id = (j \div 2) + 1
            /\ l.table[j] = [fragment |-> Piece(l, j).id, size |-> Piece(l, j).size,
                             node_id |-> l.table[j].node_id]
        <4> HIDE DEF l
        <4> QED BY <1>3, <2>2, PieceFacts
      <3> HIDE DEF l
      <3> QED BY <3>1
    <2>4. pick[i].fragment = i + 1 /\ n \in alive
      <3> HIDE DEF l, pick
      <3> QED BY <2>1, <2>2, <2>3
    <2>5. Holds(n, id, sz, m, pick[i])
      <3> HIDE DEF pick
      <3> QED BY <1>2, <2>1, <2>2, EntryHeld
    <2>6. j \in On(l, n)
      <3> HIDE DEF pick
      <3> QED BY <1>2, <2>1, <2>2 DEF On, Whole
    <2>7. Kept(n, id) = {Piece(l, k) : k \in On(l, n)}
      <3> HIDE DEF pick, n
      <3> QED BY <1>2, <2>4, <2>6, KeptIs
    <2>8. \A k \in On(l, n) : Piece(l, k).id = (k \div 2) + 1 /\ k \div 2 \in 0 .. m - 1
      <3> HIDE DEF l, n
      <3>1. On(l, n) \subseteq 0 .. 2 * l.total - 1
        BY <1>3, OnFew
      <3> QED BY <1>3, <3>1, PieceFacts
    <2>9. \A k \in On(l, n) : Piece(l, k).id = i + 1 => Piece(l, k) = Frag(i)
      <3> SUFFICES ASSUME NEW k \in On(l, n), Piece(l, k).id = i + 1 PROVE Piece(l, k) = Frag(i)
        OBVIOUS
      <3>1. k \div 2 = i
        <4> DEFINE h == k \div 2
        <4>1. h \in Int /\ h + 1 = i + 1
          BY <2>8
        <4> HIDE DEF h
        <4>2. h = i
          BY <4>1
        <4> QED BY <4>2 DEF h
      <3> QED BY <3>1 DEF Piece
    <2>10. Piece(l, j) = Frag(i) /\ Frag(i).id = i + 1
      BY <2>2 DEF Piece
    <2> HIDE DEF l, n, Frag
    <2>11. \A s : s \in Kept(n, id) /\ s.id = i + 1 <=> s = Frag(i)
      BY <2>6, <2>7, <2>9, <2>10
    <2>12. Found(i) = {Frag(i)}
      BY <2>11 DEF n
    <2> QED BY <2>4, <2>5, <2>12 DEF n
  <1> HIDE DEF pick
  <1>8. UNION {s.off .. s.off + s.size - 1 : s \in UNION {Found(i) : i \in DOMAIN pick}} = 0 .. sz - 1
    <2>1. \A s : s \in UNION {Found(i) : i \in DOMAIN pick} <=> \E i \in 0 .. m - 1 : s = Frag(i)
      <3> HIDE DEF Found, Frag, m
      <3> QED BY <1>6, <1>7
    <2>2. \A i : Frag(i).off = FragmentOffset(sz, m, i) /\ Frag(i).size = FragmentSize(sz, m, i)
      OBVIOUS
    <2> HIDE DEF Found, Frag, m, sz
    <2>3. \A b : b \in 0 .. sz - 1 <=>
            \E i \in 0 .. m - 1 :
               b \in FragmentOffset(sz, m, i) .. FragmentOffset(sz, m, i) + FragmentSize(sz, m, i) - 1
      BY <1>3, FragmentsCover, ZenonT(40)
    <2>4. \A b : b \in 0 .. sz - 1 <=>
            \E i \in 0 .. m - 1 : b \in Frag(i).off .. Frag(i).off + Frag(i).size - 1
      BY <2>2, <2>3, ZenonT(40)
    <2> DEFINE Bytes(s) == s.off .. s.off + s.size - 1
               All == UNION {Found(i) : i \in DOMAIN pick}
    <2>5. /\ \A s : s \in All <=> \E i \in 0 .. m - 1 : s = Frag(i)
          /\ \A b : b \in 0 .. sz - 1 <=> \E i \in 0 .. m - 1 : b \in Bytes(Frag(i))
      BY <2>1, <2>4
    <2> HIDE DEF Bytes, All
    <2>6. UNION {Bytes(s) : s \in All} = 0 .. sz - 1
      BY <2>5
    <2> QED BY <2>6 DEF Bytes, All
  <1> HIDE DEF m, sz
  <1>9. \E p \in {Selected(View, Count(f), f.fragments)}, z \in KnownSize(f) :
           /\ \A i \in DOMAIN p :
                /\ p[i].fragment = i + 1
                /\ p[i].node_id \in alive
                /\ Holds(p[i].node_id, f.file_id, z, Count(f), p[i])
           /\ UNION {s.off .. s.off + s.size - 1 :
                       s \in UNION {{t \in Kept(p[i].node_id, f.file_id) : t.id = i + 1} :
                                      i \in DOMAIN p}} = 0 .. z - 1
    <2>1. pick \in {Selected(View, Count(f), f.fragments)} /\ sz \in KnownSize(f)
      BY <1>5 DEF pick
    <2>2. \A i \in DOMAIN pick :
             /\ pick[i].fragment = i + 1
             /\ pick[i].node_id \in alive
             /\ Holds(pick[i].node_id, f.file_id, sz, Count(f), pick[i])
      BY <1>5, <1>6, <1>7
    <2> USE <2>1
    <2> WITNESS pick \in {Selected(View, Count(f), f.fragments)}, sz \in KnownSize(f)
    <2> QED BY <1>8, <2>2
  <1> QED BY <1>9 DEF Readable

LEMMA ReadsImplied ==
    ASSUME N >= 5, MaxCrashes <= 1
    PROVE  StorageInv => StoredFilesReadable
  <1> SUFFICES ASSUME StorageInv, InService, NEW i \in DOMAIN fnetidx,
                      fnetidx[i].file_id \in complete
               PROVE  Readable(fnetidx[i])
    BY DEF StoredFilesReadable
  <1>1. Base
    BY StorageBase
  <1>2. PICK L \in Layouts : Body(L)
    BY DEF StorageInv
  <1>3. fnetidx[i] \in Box(fnetidx)
    BY DEF Box
  <1> QED BY <1>1, <1>2, <1>3, ReadableImplied

-----------------------------------------------------------------------------
(* The theorems.  REDUNDANCY is 2, so one node may die.  In a ring of four an index that
   has detected a death has net_size 2, takes a file of four fragments for one created
   after the death and asks the dead node (src/main.c:1071). *)

\* Storage: with at most one death among five nodes or more, every pointer of the
\* index's table to a live node names bytes that the node's container has, while files
\* are fanned out, after the death and during and after the rebuild of the table.
THEOREM PointersBacked ==
    ASSUME N >= 5, MaxCrashes <= 1
    PROVE  Spec => []PointersAreBacked
  <1>1. StorageInv => PointersAreBacked
    BY PointersImplied
  <1> QED BY <1>1, StorageInvariance, PTL

\* Redundancy: in no table, as placed or as put together again from reports, are both
\* copies of a fragment on one node.
THEOREM CopiesStayApart ==
    ASSUME N >= 5, MaxCrashes <= 1
    PROVE  Spec => []CopiesApart
  <1>1. StorageInv => CopiesApart
    BY PointersImplied
  <1> QED BY <1>1, StorageInvariance, PTL

\* Reading: whenever the index is in service, before and after one death and also when
\* it was the index that died, the copies it selects of a stored file are on live
\* nodes and are together every byte of the file.
THEOREM FilesStayReadable ==
    ASSUME N >= 5, MaxCrashes <= 1
    PROVE  Spec => []StoredFilesReadable
  <1>1. StorageInv => StoredFilesReadable
    BY ReadsImplied
  <1> QED BY <1>1, StorageInvariance, PTL

LEMMA ServedImplied ==
    ASSUME N >= 5, MaxCrashes <= 1
    PROVE  StorageInv => Promise!Served
  <1> SUFFICES ASSUME StorageInv, InService
               PROVE  complete \subseteq ReadableFiles /\ ReadableFiles \subseteq Files
    BY DEF Promise!Served, ReadableFiles, Files
  <1>1. Base
    BY StorageBase
  <1>2. PICK L \in Layouts : Body(L)
    BY DEF StorageInv
  <1>3. leader \in alive /\ ~Rebuilding
    BY DEF InService, Serving, Rebuilding
  <1>4. ReadableFiles = {fnetidx[i].file_id : i \in {j \in DOMAIN fnetidx : Readable(fnetidx[j])}}
    BY DEF ReadableFiles
  <1>5. complete \subseteq Ids(fnetidx)
    BY <1>1, <1>3 DEF Base, Numbering, Steady
  <1>6. StoredFilesReadable
    BY ReadsImplied
  <1>7. complete \subseteq ReadableFiles
    BY <1>4, <1>5, <1>6 DEF StoredFilesReadable, Ids
  <1>8. ReadableFiles \subseteq Files
    BY <1>2, <1>3, <1>4 DEF Body, Listing, Box
  <1> QED BY <1>7, <1>8

\* While nothing is distributed and nothing ends, a step may only open or close.
LEMMA OpensOrCloses ==
    ASSUME Unfinished = {}, Unfinished' = {}, complete' = complete, Promise!Served,
           Promise!Served', InService /\ InService' => ReadableFiles' = ReadableFiles
    PROVE  [Promise!Next]_(Promise!vars)
  <1>1. InService \in BOOLEAN /\ InService' \in BOOLEAN
    BY DEF InService
  <1>2. CASE InService' = ~InService
    BY <1>2 DEF Promise!Next, Promise!Toggle
  <1>3. CASE InService' = InService
    <2>1. ReadableFiles' = ReadableFiles
      BY <1>3 DEF Promise!Served
    <2> QED BY <1>3, <2>1 DEF Promise!vars
  <1> QED BY <1>1, <1>2, <1>3

LEMMA NewFileBegins ==
    ASSUME Base, NEW sz \in Sizes, NewFile(sz), Promise!Served'
    PROVE  Promise!Next
  <1> DEFINE cnt == FragCount(sz, net_size[leader])
             id  == Len(fs[leader]) + 1
             new == Container(id, sz, cnt)
  <1>1. /\ Serving /\ cnt # 0 /\ Len(fs[leader]) < MaxFiles
        /\ fs' = [fs EXCEPT ![leader] = Append(@, new)]
        /\ fanout' = [k \in 1 .. cnt * REDUNDANCY |-> Place(View, sz)[k - 1]]
        /\ leader' = leader /\ complete' = complete
    BY DEF NewFile, NextId
  <1>2. /\ net_size[leader] \in Int /\ leader \in Node /\ sz \in Nat /\ MaxFiles \in Nat
        /\ fs \in [Node -> Seq(FileContainer)] /\ Len(fs[leader]) \in Nat
    BY CatalogConstants DEF Base, CInv, TypeInv
  <1>3. cnt \in Nat \ {0}
    BY <1>1, <1>2 DEF FragCount
  <1>4. fanout' # <<>>
    <2>1. 1 \in DOMAIN fanout'
      BY <1>1, <1>3 DEF REDUNDANCY
    <2> QED BY <2>1
  <1>5. Unfinished = {} /\ ~InService'
    BY <1>1, <1>4 DEF Unfinished, InService, Serving
  <1>6. new.file_id = id
    BY DEF Container
  <1> HIDE DEF new, cnt
  <1>7. Last(fs'[leader]) = new
    BY <1>1, <1>2 DEF Last
  <1>8. Unfinished' = {id}
    BY <1>1, <1>4, <1>6, <1>7 DEF Unfinished
  <1>9. complete \subseteq 1 .. Len(fs[leader])
    BY <1>1 DEF Base, Numbering, Rebuilding, Steady, Serving
  <1>10. id \in 1 .. MaxFiles /\ id \notin complete
    BY <1>1, <1>2, <1>9
  <1>11. Promise!Begin(id)
    BY <1>1, <1>5, <1>8, <1>10 DEF Promise!Begin, InService
  <1> QED BY <1>10, <1>11 DEF Promise!Next

LEMMA FanoutEnds ==
    ASSUME Base, FanoutStep, Promise!Served'
    PROVE  [Promise!Next]_(Promise!vars)
  <1> DEFINE id == Last(fs[leader]).file_id
  <1>1. /\ fanout # <<>> /\ fanout' = Tail(fanout) /\ leader' = leader
        /\ complete' = IF Len(fanout) = 1 THEN complete \cup {id} ELSE complete
    BY DEF FanoutStep
  <1>2. fanout \in Seq(Pointer) /\ leader \in Node
    BY DEF Base, CInv, TypeInv
  <1>3. Unfinished = {id} /\ ~InService
    BY <1>1 DEF Unfinished, InService, Serving
  <1>4. CASE Len(fanout) = 1
    <2>1. fanout' = <<>>
      BY <1>1, <1>2, <1>4
    <2>2. Unfinished' = {} /\ complete' = complete \cup Unfinished
      BY <1>1, <1>3, <1>4, <2>1 DEF Unfinished
    <2>3. InService' \in BOOLEAN
      BY DEF InService
    <2>4. Promise!End
      BY <1>3, <2>2, <2>3 DEF Promise!End
    <2> QED BY <2>4 DEF Promise!Next
  <1>5. CASE Len(fanout) # 1
    <2>1. fanout' # <<>>
      <3>1. Len(fanout) \in Nat /\ Len(fanout) # 0
        BY <1>1, <1>2
      <3>2. Len(fanout') = Len(fanout) - 1
        BY <1>1, <1>2, <3>1
      <3> QED BY <1>5, <3>1, <3>2
    <2>2. /\ Len(fs[leader]) \in DOMAIN fs[leader]
          /\ Len(fs'[leader]) = Len(fs[leader])
          /\ \A i \in DOMAIN fs[leader] : fs'[leader][i].file_id = fs[leader][i].file_id
      BY FanoutIds DEF Base
    <2>3. Unfinished' = Unfinished
      BY <1>1, <1>3, <2>1, <2>2 DEF Unfinished, Last
    <2>4. ~InService' /\ complete' = complete
      BY <1>1, <1>5, <2>1 DEF InService, Serving
    <2>5. ReadableFiles = {} /\ ReadableFiles' = {}
      BY <1>3, <2>4 DEF ReadableFiles
    <2>6. InService' = InService
      BY <1>3, <2>4 DEF InService
    <2> QED BY <2>3, <2>4, <2>5, <2>6 DEF Promise!vars
  <1> QED BY <1>4, <1>5

LEMMA CrashCloses ==
    ASSUME Base, NEW d \in Node, Crash(d), Promise!Served, Promise!Served'
    PROVE  [Promise!Next]_(Promise!vars)
  <1>1. /\ d \in alive /\ alive' = alive \ {d}
        /\ fanout' = IF d = leader THEN <<>> ELSE fanout
        /\ UNCHANGED <<aware, leader, fs, complete>>
    BY DEF Crash
  <1>2. ~InService'
    <2>1. d \in Dead' /\ d \notin Dead
      BY <1>1 DEF Dead
    <2>2. aware'[d] = {}
      BY <1>1, <2>1 DEF Base, CInv, Counts
    <2> QED BY <2>1, <2>2 DEF InService
  <1>3. CASE fanout = <<>>
    <2>1. Unfinished = {} /\ Unfinished' = {}
      BY <1>1, <1>3 DEF Unfinished
    <2> QED BY <1>1, <1>2, <2>1, OpensOrCloses
  <1>4. CASE fanout # <<>> /\ d = leader
    <2>1. Unfinished # {} /\ Unfinished' = {}
      BY <1>1, <1>4 DEF Unfinished
    <2>2. InService' = FALSE
      BY <1>2 DEF InService
    <2>3. Promise!Abort
      BY <1>1, <2>1, <2>2 DEF Promise!Abort
    <2> QED BY <2>3 DEF Promise!Next
  <1>5. CASE fanout # <<>> /\ d # leader
    <2>1. Unfinished' = Unfinished
      BY <1>1, <1>5 DEF Unfinished
    <2>2. ~InService
      BY <1>5 DEF InService, Serving
    <2>3. ReadableFiles = {} /\ ReadableFiles' = {}
      BY <1>2, <2>2 DEF ReadableFiles
    <2>4. InService' = InService
      BY <1>2, <2>2 DEF InService
    <2> QED BY <1>1, <2>1, <2>3, <2>4 DEF Promise!vars
  <1> QED BY <1>3, <1>4, <1>5

\* A follower that hears of a death changes nothing the index reads from.
LEMMA LearnKeeps ==
    ASSUME Base, NEW n \in Node, NEW d \in Node, Learn(n, d), Promise!Served, Promise!Served'
    PROVE  [Promise!Next]_(Promise!vars)
  <1>1. /\ d \in Dead /\ n \notin aware[d]
        /\ death_count' = [death_count EXCEPT ![n] = @ + 1]
        /\ \E loss \in Losses(n, d) : net_size' = [net_size EXCEPT ![n] = @ - loss]
        /\ n # leader => peer_ips' = peer_ips
        /\ UNCHANGED <<alive, leader, known_peers, fnetidx, fs, fanout, reporters,
                       reports, complete>>
    BY DEF Learn
  <1>2. Unfinished' = Unfinished
    BY <1>1 DEF Unfinished
  <1>3. CASE InService /\ InService'
    <2>1. n # leader
      BY <1>1, <1>3 DEF InService
    <2>2. leader \in Node /\ net_size \in [Node -> Int] /\ death_count \in [Node -> Nat]
      BY DEF Base, CInv, TypeInv
    <2>3. net_size'[leader] = net_size[leader] /\ death_count'[leader] = death_count[leader]
      BY <1>1, <2>1, <2>2
    <2>4. View' = View
      BY <1>1, <2>1, <2>3 DEF View
    <2>5. ASSUME NEW j \in DOMAIN fnetidx
          PROVE  Readable(fnetidx[j])' <=> Readable(fnetidx[j])
      BY <1>1, <2>4 DEF Readable, KnownSize, Kept, Holds
    <2>6. ReadableFiles' = ReadableFiles
      <3>1. {j \in DOMAIN fnetidx : Readable(fnetidx[j])'} = {j \in DOMAIN fnetidx : Readable(fnetidx[j])}
        BY <2>5
      <3>2. ReadableFiles = {fnetidx[i].file_id : i \in {j \in DOMAIN fnetidx : Readable(fnetidx[j])}}
        BY <1>3 DEF ReadableFiles
      <3>3. ReadableFiles' = {fnetidx[i].file_id : i \in {j \in DOMAIN fnetidx : Readable(fnetidx[j])'}}
        BY <1>1, <1>3 DEF ReadableFiles
      <3> DEFINE now   == {j \in DOMAIN fnetidx : Readable(fnetidx[j])}
                 after == {j \in DOMAIN fnetidx : Readable(fnetidx[j])'}
      <3>4. ReadableFiles = {fnetidx[i].file_id : i \in now}
        BY <3>2
      <3>5. ReadableFiles' = {fnetidx[i].file_id : i \in after}
        BY <3>3
      <3>6. after = now
        BY <3>1
      <3> HIDE DEF now, after
      <3> QED BY <3>4, <3>5, <3>6
    <2>7. Unfinished = {}
      BY <1>3 DEF InService, Serving, Unfinished
    <2> QED BY <1>1, <1>2, <2>6, <2>7, OpensOrCloses
  <1>4. CASE ~(InService /\ InService') /\ Unfinished = {}
    BY <1>1, <1>2, <1>4, OpensOrCloses
  <1>5. CASE Unfinished # {}
    <2>1. fanout # <<>> /\ fanout' # <<>>
      BY <1>1, <1>5 DEF Unfinished
    <2>2. ~InService /\ ~InService'
      BY <2>1 DEF InService, Serving
    <2>3. ReadableFiles' = ReadableFiles /\ InService' = InService
      BY <2>2 DEF ReadableFiles, InService
    <2> QED BY <1>1, <1>2, <2>3 DEF Promise!vars
  <1> QED BY <1>3, <1>4, <1>5

LEMMA FailoverCloses ==
    ASSUME Base, Promise!Served, Promise!Served',
           (\E i \in Node : Elect(i) \/ ReportSelf(i)) \/ ReportFile
    PROVE  [Promise!Next]_(Promise!vars)
  <1>1. fanout' = fanout /\ complete' = complete
    BY DEF Elect, ReportSelf, ReportFile
  <1>2. ~InService
    BY DEF Elect, ReportSelf, ReportFile, InService, Serving, Dead
  <1>3. fanout = <<>>
    BY DEF Elect, ReportSelf, ReportFile, Base, CInv, FanoutOK, Dead
  <1>4. Unfinished = {} /\ Unfinished' = {}
    BY <1>1, <1>3 DEF Unfinished
  <1> QED BY <1>1, <1>2, <1>4, OpensOrCloses

\* The promise of module Store: the number a new file gets is that of no stored file,
\* no stored file is lost, and an index in service, before and after a failover,
\* returns every stored file.
THEOREM ClusterImplementsStore ==
    ASSUME N >= 5, MaxCrashes <= 1
    PROVE  Spec => ImplementsStore
  <1>1. Init => Promise!Init
    <2> SUFFICES ASSUME Init PROVE Promise!Init
      OBVIOUS
    <2>1. /\ complete = {} /\ fnetidx = <<>> /\ fanout = <<>> /\ alive = Node /\ leader = N
          /\ reporters = {} /\ reports = <<>>
      BY DEF Init
    <2>2. InService = TRUE
      BY <2>1, NodeFinite DEF InService, Serving, Dead
    <2>3. ReadableFiles = {} /\ Unfinished = {}
      BY <2>1 DEF ReadableFiles, Unfinished
    <2> QED BY <2>1, <2>2, <2>3 DEF Promise!Init
  <1>2. StorageInv => Promise!Served
    BY ServedImplied
  <1>3. StorageInv => Base
    BY StorageBase
  <1>4. StorageInv /\ Promise!Served /\ Promise!Served' /\ [Next]_vars
          => [Promise!Next]_(Promise!vars)
    <2> SUFFICES ASSUME Base, Promise!Served, Promise!Served', [Next]_vars
                 PROVE  [Promise!Next]_(Promise!vars)
      BY <1>3
    <2>1. ASSUME NEW sz \in Sizes, NewFile(sz) PROVE [Promise!Next]_(Promise!vars)
      BY <2>1, NewFileBegins
    <2>2. CASE FanoutStep
      BY <2>2, FanoutEnds
    <2>3. ASSUME NEW d \in Node, Crash(d) PROVE [Promise!Next]_(Promise!vars)
      BY <2>3, CrashCloses
    <2>4. ASSUME NEW n \in Node, NEW d \in Node, Learn(n, d)
          PROVE  [Promise!Next]_(Promise!vars)
      BY <2>4, LearnKeeps
    <2>5. CASE (\E i \in Node : Elect(i) \/ ReportSelf(i)) \/ ReportFile
      BY <2>5, FailoverCloses
    <2>6. CASE UNCHANGED vars
      <3>1. UNCHANGED <<alive, net_size, death_count, aware, leader, peer_ips, known_peers,
                        fnetidx, fs, fanout, reporters, reports, complete>>
        BY <2>6 DEF vars
      <3>2. View' = View
        BY <3>1 DEF View
      <3>3. \A f : Readable(f)' <=> Readable(f)
        BY <3>1, <3>2 DEF Readable, KnownSize, Kept, Holds
      <3>4. InService' = InService /\ Unfinished' = Unfinished
        BY <3>1 DEF InService, Serving, Dead, Unfinished
      <3>5. ReadableFiles' = ReadableFiles
        BY <3>1, <3>3, <3>4 DEF ReadableFiles
      <3> QED BY <3>1, <3>4, <3>5 DEF Promise!vars
    <2> QED BY <2>1, <2>2, <2>3, <2>4, <2>5, <2>6 DEF Next
  <1>5. Spec => []StorageInv
    BY StorageInvariance
  <1> QED BY <1>1, <1>2, <1>4, <1>5, PTL DEF Spec, ImplementsStore, Promise!Spec

=============================================================================
