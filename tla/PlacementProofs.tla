-------------------------- MODULE PlacementProofs --------------------------
(***************************************************************************)
(* What the index's arithmetic guarantees for every file size, every       *)
(* number of fragments and every network: fragments tile the file, and the *)
(* copies of a fragment go to different nodes as long as the index tries   *)
(* fewer nodes than the modulus of its placement loop.                     *)
(***************************************************************************)
EXTENDS Placement, WellFoundedInduction, TLAPS

\* Byte b of the file lies in fragment i.
InFragment(sz, cnt, i, b) ==
    /\ FragmentOffset(sz, cnt, i) <= b
    /\ b < FragmentOffset(sz, cnt, i) + FragmentSize(sz, cnt, i)

-----------------------------------------------------------------------------
(* Arithmetic *)

LEMMA DivisionSplit ==
    ASSUME NEW a \in Nat, NEW d \in Nat \ {0}
    PROVE  /\ a \div d \in Nat /\ a % d \in 0 .. d - 1
           /\ a = (a \div d) * d + (a % d)
  OBVIOUS

LEMMA Monotone ==
    ASSUME NEW q \in Nat, NEW i \in Nat, NEW j \in Nat, i <= j
    PROVE  q * i <= q * j
  OBVIOUS

LEMMA ProductNat ==
    ASSUME NEW q \in Nat, NEW i \in Nat
    PROVE  q * i \in Nat /\ q * (i + 1) = q * i + q /\ q * i = i * q
  OBVIOUS

\* Two tries less than m apart do not meet.
LEMMA ResiduesDiffer ==
    ASSUME NEW m \in Nat \ {0}, NEW x \in Nat, NEW y \in Nat, x < y, y - x < m
    PROVE  x % m # y % m
  <1> SUFFICES ASSUME x % m = y % m PROVE FALSE
    OBVIOUS
  <1> DEFINE p == x \div m
             q == y \div m
  <1>1. p \in Nat /\ q \in Nat /\ x = p * m + (x % m) /\ y = q * m + (y % m)
    BY DivisionSplit
  <1>2. x % m \in Nat /\ y % m \in Nat
    BY DivisionSplit
  <1> HIDE DEF p, q
  <1>3. p * m \in Nat /\ q * m \in Nat
    BY <1>1
  <1>4. y - x = q * m - p * m
    BY <1>1, <1>2, <1>3
  <1>5. CASE q <= p
    <2>1. m * q <= m * p
      BY <1>1, <1>5, Monotone
    <2> QED BY <1>1, <1>3, <1>4, <2>1, ProductNat
  <1>6. CASE q >= p + 1
    <2>1. m * (p + 1) <= m * q
      BY <1>1, <1>6, Monotone
    <2>2. m * (p + 1) = m * p + m
      BY <1>1, ProductNat
    <2> QED BY <1>1, <1>3, <1>4, <2>1, <2>2, ProductNat
  <1> QED BY <1>1, <1>5, <1>6

-----------------------------------------------------------------------------
(* Cutting *)

\* Every fragment but the last has sz / cnt bytes, and the last one ends the file.
LEMMA FragmentEnds ==
    ASSUME NEW sz \in Nat, NEW cnt \in Nat \ {0}
    PROVE  \A i \in 0 .. cnt - 1 :
             /\ FragmentOffset(sz, cnt, i) \in Nat
             /\ FragmentOffset(sz, cnt, i) + FragmentSize(sz, cnt, i)
                  = IF i + 1 = cnt THEN sz ELSE (sz \div cnt) * (i + 1)
  <1> DEFINE q == sz \div cnt
             r == sz % cnt
  <1>1. q \in Nat /\ r \in 0 .. cnt - 1 /\ sz = q * cnt + r
    BY DivisionSplit
  <1>2. \A i : /\ FragmentOffset(sz, cnt, i) = q * i
               /\ FragmentSize(sz, cnt, i) = IF i + 1 = cnt THEN q + r ELSE q
    BY DEF FragmentOffset, FragmentSize
  <1> HIDE DEF q, r
  <1> SUFFICES ASSUME NEW i \in 0 .. cnt - 1
               PROVE  /\ q * i \in Nat
                      /\ q * i + (IF i + 1 = cnt THEN q + r ELSE q)
                           = IF i + 1 = cnt THEN sz ELSE q * (i + 1)
    BY <1>2 DEF q
  <1>3. q * i \in Nat /\ q * (i + 1) = q * i + q
    BY <1>1, ProductNat
  <1>4. CASE i + 1 = cnt
    <2>1. q * cnt = q * (i + 1)
      BY <1>4
    <2> QED BY <1>1, <1>3, <1>4, <2>1
  <1>5. CASE i + 1 # cnt
    BY <1>1, <1>3, <1>5
  <1> QED BY <1>4, <1>5

\* The fragments of a file (INDEX_HANDLE_NEW_FILE's sizes, INDEX_FANOUT_FRAGMENTS'
\* and the reader's offsets) tile it: each byte is in exactly one fragment, also
\* when the size is no multiple of the count or smaller than it.
THEOREM FragmentsTile ==
    ASSUME NEW sz \in Nat, NEW cnt \in Nat \ {0}, NEW b \in 0 .. sz - 1
    PROVE  /\ \E i \in 0 .. cnt - 1 : InFragment(sz, cnt, i, b)
           /\ \A i, j \in 0 .. cnt - 1 :
                InFragment(sz, cnt, i, b) /\ InFragment(sz, cnt, j, b) => i = j
  <1> DEFINE q == sz \div cnt
  <1>1. q \in Nat
    BY DivisionSplit
  <1>2. \A i \in 0 .. cnt - 1 : FragmentOffset(sz, cnt, i) = q * i
    BY DEF FragmentOffset
  <1>3. \A i \in 0 .. cnt - 1 :
          InFragment(sz, cnt, i, b) <=>
            q * i <= b /\ b < (IF i + 1 = cnt THEN sz ELSE q * (i + 1))
    <2> TAKE i \in 0 .. cnt - 1
    <2>1. FragmentOffset(sz, cnt, i) + FragmentSize(sz, cnt, i)
            = IF i + 1 = cnt THEN sz ELSE q * (i + 1)
      <3>1. \A k \in 0 .. cnt - 1 :
              /\ FragmentOffset(sz, cnt, k) \in Nat
              /\ FragmentOffset(sz, cnt, k) + FragmentSize(sz, cnt, k)
                   = IF k + 1 = cnt THEN sz ELSE (sz \div cnt) * (k + 1)
        BY FragmentEnds, ZenonT(40)
      <3> QED BY <3>1, Zenon
    <2> HIDE DEF q
    <2> QED BY <1>2, <2>1 DEF InFragment
  <1> HIDE DEF q
  <1>4. \E i \in 0 .. cnt - 1 : InFragment(sz, cnt, i, b)
    <2>1. CASE q * (cnt - 1) <= b
      <3>1. cnt - 1 \in 0 .. cnt - 1 /\ (cnt - 1) + 1 = cnt
        OBVIOUS
      <3>2. InFragment(sz, cnt, cnt - 1, b)
        BY <1>3, <2>1, <3>1
      <3> QED BY <3>1, <3>2
    <2>2. CASE ~(q * (cnt - 1) <= b)
      <3> DEFINE k == b \div q
      <3>1. q # 0
        BY <1>1, <2>2
      <3>2. b \in Nat /\ q \in Nat \ {0}
        BY <1>1, <3>1
      <3>3. k \in Nat /\ b % q \in 0 .. q - 1 /\ b = k * q + (b % q)
        BY <3>2, DivisionSplit
      <3> HIDE DEF k
      <3>4. k * q = q * k /\ q * (k + 1) = q * k + q /\ q * k \in Nat
        BY <1>1, <3>3, ProductNat
      <3>5. q * k <= b /\ b < q * (k + 1)
        BY <1>1, <3>2, <3>3, <3>4
      <3>6. k < cnt - 1
        <4> SUFFICES ASSUME cnt - 1 <= k PROVE FALSE
          BY <3>3
        <4>1. q * (cnt - 1) <= q * k
          BY <1>1, <3>3, Monotone
        <4>2. q * (cnt - 1) \in Nat
          BY <1>1
        <4> QED BY <2>2, <3>2, <3>4, <3>5, <4>1, <4>2
      <3>7. k \in 0 .. cnt - 1 /\ k + 1 # cnt
        BY <3>3, <3>6
      <3>8. InFragment(sz, cnt, k, b)
        BY <1>3, <3>5, <3>7
      <3> QED BY <3>7, <3>8
    <2> QED BY <2>1, <2>2
  <1>5. ASSUME NEW i \in 0 .. cnt - 1, NEW j \in 0 .. cnt - 1, i < j,
               InFragment(sz, cnt, i, b), InFragment(sz, cnt, j, b)
        PROVE  FALSE
    <2>1. i + 1 # cnt /\ i + 1 <= j
      BY <1>5
    <2>2. b < q * (i + 1) /\ q * j <= b
      BY <1>3, <1>5, <2>1
    <2>3. q * (i + 1) <= q * j
      BY <1>1, <2>1, Monotone
    <2>4. q * (i + 1) \in Nat /\ q * j \in Nat
      BY <1>1
    <2> QED BY <2>2, <2>3, <2>4
  <1> QED BY <1>4, <1>5

-----------------------------------------------------------------------------
(* Placing *)

LEMMA LeastOf ==
    ASSUME NEW S \in SUBSET Nat, S # {}
    PROVE  Least(S) \in S /\ \A y \in S : Least(S) <= y
  <1> DEFINE R == {ss \in Nat \X Nat : ss[1] < ss[2]}
  <1>1. IsWellFoundedOn(R, Nat)
    BY NatLessThanWellFounded DEF OpToRel
  <1>2. \E x \in S : \A y \in S : ~(<<y, x>> \in R)
    <2> HIDE DEF R
    <2> QED BY <1>1, WFMin
  <1>3. \E x \in S : \A y \in S : x <= y
    <2>1. PICK x \in S : \A y \in S : ~(<<y, x>> \in R)
      BY <1>2
    <2>2. ASSUME NEW y \in S PROVE x <= y
      <3>1. y \in Nat /\ x \in Nat /\ ~(y < x)
        BY <2>1
      <3> QED BY <3>1
    <2> QED BY <2>2
  <1> QED BY <1>3 DEF Least

\* One turn of the loop that moves internaloffset past the empty addresses.
OffsetStep(v, i, prev) ==
    Least({o \in prev .. prev + v.known_peers :
             i + o >= v.known_peers \/ (i + o + 1) \in v.peer_ips})
IsOffsets(v, k, f) ==
    /\ f \in [0 .. k -> Nat]
    /\ \A i \in 0 .. k : f[i] = OffsetStep(v, i, IF i = 0 THEN 0 ELSE f[i - 1])

LEMMA OffsetStepType ==
    ASSUME NEW v, v.known_peers \in Nat, NEW i \in Nat, NEW prev \in Nat
    PROVE  OffsetStep(v, i, prev) \in Nat
  <1> DEFINE S == {o \in prev .. prev + v.known_peers :
                     i + o >= v.known_peers \/ (i + o + 1) \in v.peer_ips}
  <1>1. S \in SUBSET Nat /\ prev + v.known_peers \in S
    OBVIOUS
  <1>2. Least(S) \in S
    <2> HIDE DEF S
    <2> QED BY <1>1, LeastOf
  <1> HIDE DEF S
  <1> QED BY <1>1, <1>2 DEF OffsetStep, S

LEMMA OffsetsExist ==
    ASSUME NEW v, v.known_peers \in Nat
    PROVE  \A k \in Nat : \E f : IsOffsets(v, k, f)
  <1> DEFINE Bad == {k \in Nat : ~\E f : IsOffsets(v, k, f)}
  <1> SUFFICES ASSUME Bad # {} PROVE FALSE
    OBVIOUS
  <1> DEFINE k == Least(Bad)
  <1>1. k \in Bad /\ \A y \in Bad : k <= y
    <2>1. Bad \in SUBSET Nat
      OBVIOUS
    <2> HIDE DEF Bad
    <2> QED BY <2>1, LeastOf
  <1>2. k \in Nat
    BY <1>1
  <1> HIDE DEF k
  <1>3. CASE k = 0
    <2> DEFINE g == [i \in 0 .. 0 |-> OffsetStep(v, 0, 0)]
    <2>1. OffsetStep(v, 0, 0) \in Nat
      BY OffsetStepType
    <2>2. IsOffsets(v, 0, g)
      BY <2>1 DEF IsOffsets
    <2> QED BY <1>1, <1>3, <2>2
  <1>4. CASE k # 0
    <2>1. k - 1 \in Nat /\ ~(k <= k - 1)
      BY <1>2, <1>4
    <2>2. PICK f : IsOffsets(v, k - 1, f)
      BY <1>1, <2>1
    <2> DEFINE top == OffsetStep(v, k, f[k - 1])
               g == [i \in 0 .. k |-> IF i = k THEN top ELSE f[i]]
    <2>3. f[k - 1] \in Nat
      BY <2>1, <2>2 DEF IsOffsets
    <2>4. top \in Nat
      BY <1>2, <2>3, OffsetStepType
    <2> HIDE DEF top
    <2>5. g \in [0 .. k -> Nat]
      BY <1>2, <2>1, <2>2, <2>4 DEF IsOffsets
    <2>6. ASSUME NEW i \in 0 .. k
          PROVE  g[i] = OffsetStep(v, i, IF i = 0 THEN 0 ELSE g[i - 1])
      <3>1. CASE i = k
        <4>1. g[i - 1] = f[k - 1] /\ g[i] = top
          BY <1>2, <1>4, <3>1
        <4> QED BY <1>4, <3>1, <4>1 DEF top
      <3>2. CASE i = 0
        <4>1. g[0] = f[0] /\ 0 \in 0 .. k - 1
          BY <1>2, <1>4, <3>2
        <4>2. f[0] = OffsetStep(v, 0, 0)
          BY <2>2, <4>1 DEF IsOffsets
        <4> QED BY <3>2, <4>1, <4>2
      <3>3. CASE i # 0 /\ i # k
        <4>1. i \in 0 .. k - 1 /\ g[i] = f[i] /\ g[i - 1] = f[i - 1]
          BY <1>2, <3>3
        <4>2. f[i] = OffsetStep(v, i, f[i - 1])
          BY <2>2, <3>3, <4>1 DEF IsOffsets
        <4> QED BY <3>3, <4>1, <4>2
      <3> QED BY <3>1, <3>2, <3>3
    <2> HIDE DEF g
    <2>7. IsOffsets(v, k, g)
      BY <2>5, <2>6 DEF IsOffsets
    <2> QED BY <1>1, <2>7
  <1> QED BY <1>3, <1>4

\* internaloffset as the loop computes it: natural, and fragment i's offset is one
\* turn of the loop from that of fragment i - 1.
LEMMA InternalOffsetIs ==
    ASSUME NEW v, v.known_peers \in Nat, NEW cnt \in Nat \ {0}
    PROVE  IsOffsets(v, cnt - 1, InternalOffset(v, cnt))
  <1>1. cnt - 1 \in Nat
    OBVIOUS
  <1>2. PICK f : IsOffsets(v, cnt - 1, f)
    BY <1>1, OffsetsExist
  <1>3. f = [i \in 0 .. cnt - 1 |-> OffsetStep(v, i, IF i = 0 THEN 0 ELSE f[i - 1])]
    BY <1>2 DEF IsOffsets
  <1>4. InternalOffset(v, cnt) = CHOOSE g : g =
          [i \in 0 .. cnt - 1 |-> OffsetStep(v, i, IF i = 0 THEN 0 ELSE g[i - 1])]
    BY DEF InternalOffset, OffsetStep
  <1> DEFINE g == InternalOffset(v, cnt)
  <1>5. g = [i \in 0 .. cnt - 1 |-> OffsetStep(v, i, IF i = 0 THEN 0 ELSE g[i - 1])]
    <2> HIDE DEF g
    <2> QED BY <1>3, <1>4 DEF g
  <1> HIDE DEF g
  <1>6. \A i \in 0 .. cnt - 1 : g[i] = OffsetStep(v, i, IF i = 0 THEN 0 ELSE g[i - 1])
    BY <1>5, Zenon
  <1>7. DOMAIN g = 0 .. cnt - 1 /\ g = [i \in 0 .. cnt - 1 |-> g[i]]
    <2>1. DOMAIN g = 0 .. cnt - 1
      BY <1>5, Zenon
    <2> QED BY <1>5, <1>6, <2>1, Zenon
  <1>8. \A i \in 0 .. cnt - 1 : g[i] \in Nat
    <2> DEFINE Bad == {i \in 0 .. cnt - 1 : g[i] \notin Nat}
    <2> SUFFICES ASSUME Bad # {} PROVE FALSE
      OBVIOUS
    <2> DEFINE k == Least(Bad)
    <2>1. k \in Bad /\ \A y \in Bad : k <= y
      <3>1. Bad \in SUBSET Nat
        OBVIOUS
      <3> HIDE DEF Bad
      <3> QED BY <3>1, LeastOf
    <2>2. k \in 0 .. cnt - 1 /\ g[k] \notin Nat
      BY <2>1
    <2> HIDE DEF k
    <2>3. CASE k = 0
      <3>1. g[k] = OffsetStep(v, 0, 0)
        BY <1>6, <2>2, <2>3
      <3>2. OffsetStep(v, 0, 0) \in Nat
        BY OffsetStepType
      <3> QED BY <2>2, <3>1, <3>2
    <2>4. CASE k # 0
      <3>1. k - 1 \in 0 .. cnt - 1 /\ ~(k <= k - 1) /\ k \in Nat
        BY <2>2, <2>4
      <3>2. g[k - 1] \in Nat
        BY <2>1, <3>1
      <3>3. g[k] = OffsetStep(v, k, g[k - 1])
        BY <1>6, <2>2, <2>4
      <3> QED BY <2>2, <3>1, <3>2, <3>3, OffsetStepType
    <2> QED BY <2>3, <2>4
  <1> QED BY <1>6, <1>7, <1>8 DEF IsOffsets, g

\* A copy goes to a node that is valid and whose id is at most the modulus of the
\* placement loop, or nowhere.
LEMMA CopyNodeType ==
    ASSUME NEW v, v.known_peers \in Nat, v.net_size + v.death_count \in Nat \ {0},
           NEW node \in Nat, NEW j \in {0, 1}
    PROVE  LET n == CopyNode(v, node, j) IN
           n = 0 \/ (n \in 1 .. v.net_size + v.death_count /\ ValidNode(v, n))
  <1> DEFINE good == GoodTries(v, node)
             a    == Least(good)
             rest == good \ {a}
             b    == Least(rest)
             m    == v.net_size + v.death_count
  <1>1. good \in SUBSET Nat
    BY DEF GoodTries
  <1>2. \A t \in good : TryNode(v, node, t) \in 1 .. m /\ ValidNode(v, TryNode(v, node, t))
    <2> SUFFICES ASSUME NEW t \in good PROVE TryNode(v, node, t) \in 1 .. m
      BY DEF GoodTries
    <2>1. node + t \in Nat /\ m \in Nat \ {0}
      BY <1>1
    <2>2. (node + t) % m \in 0 .. m - 1
      <3> HIDE DEF m
      <3> QED BY <2>1, DivisionSplit
    <2> HIDE DEF m
    <2> QED BY <2>1, <2>2 DEF TryNode, m
  <1> HIDE DEF good, m
  <1>3. CASE good = {}
    BY <1>3 DEF CopyNode, good
  <1>4. CASE good # {}
    <2>1. a \in good
      BY <1>1, <1>4, LeastOf
    <2>2. CASE j = 0
      BY <1>2, <1>4, <2>1, <2>2 DEF CopyNode, good, m
    <2>3. CASE j = 1 /\ rest = {}
      BY <1>4, <2>1, <2>3 DEF CopyNode, good
    <2>4. CASE j = 1 /\ rest # {}
      <3>1. b \in rest
        <4> HIDE DEF a
        <4> QED BY <1>1, <2>4, LeastOf
      <3>2. CopyNode(v, node, j) = TryNode(v, node, b)
        BY <1>4, <2>4 DEF CopyNode, good
      <3> HIDE DEF b
      <3> QED BY <1>2, <3>1, <3>2 DEF m
    <2> QED BY <2>2, <2>3, <2>4
  <1> QED BY <1>3, <1>4

LEMMA FragmentSizeType ==
    ASSUME NEW sz \in Nat, NEW cnt \in Nat \ {0}, NEW i
    PROVE  FragmentSize(sz, cnt, i) \in Nat
  <1>1. sz \div cnt \in Nat /\ sz % cnt \in Nat
    BY DivisionSplit
  <1> QED BY <1>1 DEF FragmentSize

\* The table of a new file: every entry is NullPtr, or one of the file's fragments on
\* a valid node.
LEMMA PlaceType ==
    ASSUME NEW v, v.known_peers \in Nat, v.net_size \in Int, v.death_count \in Nat,
           v.net_size + v.death_count > 0,
           NEW sz \in Nat, FragCount(sz, v.net_size) # 0
    PROVE  LET cnt == FragCount(sz, v.net_size) IN
           /\ cnt \in Nat \ {0}
           /\ DOMAIN Place(v, sz) = 0 .. cnt * REDUNDANCY - 1
           /\ \A k \in 0 .. cnt * REDUNDANCY - 1 :
                \/ Place(v, sz)[k] = NullPtr
                \/ LET p == Place(v, sz)[k] IN
                   /\ p = [fragment |-> (k \div REDUNDANCY) + 1,
                           size |-> FragmentSize(sz, cnt, k \div REDUNDANCY),
                           node_id |-> p.node_id]
                   /\ k \div REDUNDANCY \in 0 .. cnt - 1
                   /\ p.size \in Nat
                   /\ p.node_id \in 1 .. v.net_size + v.death_count
                   /\ ValidNode(v, p.node_id)
  <1> DEFINE cnt == FragCount(sz, v.net_size)
             off == InternalOffset(v, cnt)
  <1>1. cnt \in Nat \ {0}
    BY DEF FragCount
  <1> HIDE DEF cnt
  <1>2. off \in [0 .. cnt - 1 -> Nat]
    BY <1>1, InternalOffsetIs DEF IsOffsets
  <1>3. Place(v, sz) = [k \in 0 .. cnt * REDUNDANCY - 1 |->
          LET i == k \div REDUNDANCY
              n == CopyNode(v, i + off[i], k % REDUNDANCY)
          IN IF n = 0 THEN NullPtr
             ELSE [fragment |-> i + 1, size |-> FragmentSize(sz, cnt, i), node_id |-> n]]
    BY DEF Place, cnt
  <1> HIDE DEF off
  <1>4. ASSUME NEW k \in 0 .. cnt * REDUNDANCY - 1
        PROVE  \/ Place(v, sz)[k] = NullPtr
               \/ LET p == Place(v, sz)[k] IN
                  /\ p = [fragment |-> (k \div REDUNDANCY) + 1,
                          size |-> FragmentSize(sz, cnt, k \div REDUNDANCY),
                          node_id |-> p.node_id]
                  /\ k \div REDUNDANCY \in 0 .. cnt - 1
                  /\ p.size \in Nat
                  /\ p.node_id \in 1 .. v.net_size + v.death_count
                  /\ ValidNode(v, p.node_id)
    <2> DEFINE i == k \div REDUNDANCY
               n == CopyNode(v, i + off[i], k % REDUNDANCY)
    <2>1. i \in 0 .. cnt - 1 /\ k % REDUNDANCY \in {0, 1}
      BY <1>1 DEF REDUNDANCY
    <2>2. i + off[i] \in Nat
      BY <1>2, <2>1
    <2>3. n = 0 \/ (n \in 1 .. v.net_size + v.death_count /\ ValidNode(v, n))
      <3> HIDE DEF i
      <3> QED BY <2>1, <2>2, CopyNodeType
    <2>4. FragmentSize(sz, cnt, i) \in Nat
      BY <1>1, FragmentSizeType
    <2>5. Place(v, sz)[k] = IF n = 0 THEN NullPtr
            ELSE [fragment |-> i + 1, size |-> FragmentSize(sz, cnt, i), node_id |-> n]
      BY <1>3
    <2> HIDE DEF n, i
    <2> QED BY <2>1, <2>3, <2>4, <2>5 DEF i
  <1>5. DOMAIN Place(v, sz) = 0 .. cnt * REDUNDANCY - 1
    BY <1>3
  <1> QED BY <1>1, <1>4, <1>5 DEF cnt

\* While node 1 is present, the first copy of the first fragment of a file goes there.
LEMMA FirstCopyOnNodeOne ==
    ASSUME NEW v, v.known_peers \in Nat, v.net_size \in Int, v.death_count \in Nat,
           v.net_size + v.death_count > 0, 1 \in v.peer_ips,
           NEW sz \in Nat, FragCount(sz, v.net_size) # 0
    PROVE  Place(v, sz)[0].node_id = 1
  <1> DEFINE cnt == FragCount(sz, v.net_size)
             off == InternalOffset(v, cnt)
  <1>1. cnt \in Nat \ {0}
    BY DEF FragCount
  <1> HIDE DEF cnt
  <1>2. off[0] = OffsetStep(v, 0, 0)
    BY <1>1, InternalOffsetIs DEF IsOffsets
  <1>3. OffsetStep(v, 0, 0) = 0
    <2> DEFINE S == {o \in 0 .. 0 + v.known_peers :
                       0 + o >= v.known_peers \/ (0 + o + 1) \in v.peer_ips}
    <2>1. S \in SUBSET Nat /\ 0 \in S
      OBVIOUS
    <2> HIDE DEF S
    <2>2. Least(S) \in S /\ Least(S) <= 0
      BY <2>1, LeastOf
    <2>3. \A l \in S : l <= 0 => l = 0
      BY <2>1
    <2>4. Least(S) = 0
      BY <2>2, <2>3
    <2> QED BY <2>4 DEF OffsetStep, S
  <1>4. CopyNode(v, 0, 0) = 1
    <2> DEFINE good == GoodTries(v, 0)
    <2>1. TryNode(v, 0, 0) = 1
      BY DEF TryNode
    <2>2. good \in SUBSET Nat /\ 0 \in good
      BY <2>1 DEF GoodTries, ValidNode
    <2> HIDE DEF good
    <2>3. Least(good) \in good /\ Least(good) <= 0
      BY <2>2, LeastOf
    <2>4. \A l \in good : l <= 0 => l = 0
      BY <2>2
    <2>5. Least(good) = 0
      BY <2>3, <2>4
    <2> QED BY <2>1, <2>2, <2>5 DEF CopyNode, good
  <1>5. /\ 0 \in 0 .. cnt * REDUNDANCY - 1
        /\ 0 \div REDUNDANCY = 0 /\ 0 % REDUNDANCY = 0 /\ 0 + off[0] = 0
    BY <1>1, <1>2, <1>3 DEF REDUNDANCY
  <1> HIDE DEF off
  <1>6. Place(v, sz)[0] = [fragment |-> 0 + 1, size |-> FragmentSize(sz, cnt, 0), node_id |-> 1]
    BY <1>4, <1>5 DEF Place, cnt, off
  <1> QED BY <1>6

\* The placement loop never puts both copies of a fragment on one node when it
\* tries no more nodes (known_peers + 1) than its modulus (net_size + death_count).
\* After a death the double decrement of net_size can break that condition.
THEOREM CopiesOnDifferentNodes ==
    ASSUME NEW v, v.known_peers \in Nat, v.net_size + v.death_count \in Nat,
           v.known_peers < v.net_size + v.death_count,
           NEW node \in Nat,
           CopyNode(v, node, 0) # 0, CopyNode(v, node, 1) # 0
    PROVE  CopyNode(v, node, 0) # CopyNode(v, node, 1)
  <1> DEFINE good == GoodTries(v, node)
             a    == Least(good)
             rest == good \ {a}
             b    == Least(rest)
             m    == v.net_size + v.death_count
  <1>1. good \in SUBSET Nat /\ \A t \in good : t <= v.known_peers
    BY DEF GoodTries
  <1>2. good # {} /\ rest # {}
    BY DEF CopyNode
  <1> HIDE DEF good
  <1>3. a \in good /\ \A y \in good : a <= y
    BY <1>1, <1>2, LeastOf
  <1>4. b \in rest
    <2> HIDE DEF a
    <2> QED BY <1>1, <1>2, LeastOf
  <1>5. a \in Nat /\ b \in Nat /\ a < b /\ b - a < m /\ m \in Nat \ {0}
    <2> HIDE DEF b, a
    <2> QED BY <1>1, <1>3, <1>4 DEF rest
  <1>6. CopyNode(v, node, 0) = TryNode(v, node, a) /\ CopyNode(v, node, 1) = TryNode(v, node, b)
    BY <1>2 DEF CopyNode, good
  <1> HIDE DEF a, b, m
  <1>7. (node + a) % m # (node + b) % m
    <2>1. node + a \in Nat /\ node + b \in Nat /\ node + a < node + b
          /\ (node + b) - (node + a) < m
      BY <1>5
    <2> QED BY <1>5, <2>1, ResiduesDiffer
  <1>8. (node + a) % m \in Nat /\ (node + b) % m \in Nat
    BY <1>5
  <1> QED BY <1>6, <1>7, <1>8 DEF TryNode, m

-----------------------------------------------------------------------------
(* Where the placement loop puts the copies *)

LEMMA Residue ==
    ASSUME NEW m \in Nat \ {0}, NEW a \in Nat
    PROVE  /\ a < m => a % m = a
           /\ m <= a /\ a < m + m => a % m = a - m
  <1> DEFINE q == a \div m
             r == a % m
  <1>1. q \in Nat /\ r \in 0 .. m - 1 /\ a = q * m + r
    BY DivisionSplit
  <1> HIDE DEF q, r
  <1>2. q = 0 => q * m = 0
    BY <1>1
  <1>3. q = 1 => q * m = m
    BY <1>1
  <1>4. q >= 1 => q * m >= m
    BY <1>1
  <1>5. q >= 2 => q * m >= m + m
    BY <1>1
  <1>6. q = 0 \/ q = 1 \/ q >= 2
    BY <1>1
  <1> QED BY <1>1, <1>2, <1>3, <1>4, <1>5, <1>6 DEF r

\* The internal offsets are the ones the loop's recurrence gives.
LEMMA OffsetsAre ==
    ASSUME NEW v, v.known_peers \in Nat, NEW cnt \in Nat \ {0}, NEW w,
           IsOffsets(v, cnt - 1, w)
    PROVE  \A i \in 0 .. cnt - 1 : InternalOffset(v, cnt)[i] = w[i]
  <1> DEFINE g == InternalOffset(v, cnt)
             Bad == {i \in 0 .. cnt - 1 : g[i] # w[i]}
  <1>1. \A i \in 0 .. cnt - 1 : g[i] = OffsetStep(v, i, IF i = 0 THEN 0 ELSE g[i - 1])
    BY InternalOffsetIs DEF IsOffsets
  <1>6. \A i \in 0 .. cnt - 1 : w[i] = OffsetStep(v, i, IF i = 0 THEN 0 ELSE w[i - 1])
    BY DEF IsOffsets
  <1> HIDE DEF g
  <1> SUFFICES ASSUME Bad # {} PROVE FALSE
    BY DEF g
  <1> DEFINE k == Least(Bad)
  <1>2. k \in Bad /\ \A y \in Bad : k <= y
    <2>1. Bad \in SUBSET Nat
      OBVIOUS
    <2> HIDE DEF Bad
    <2> QED BY <2>1, LeastOf
  <1>3. k \in 0 .. cnt - 1 /\ g[k] # w[k]
    BY <1>2
  <1> HIDE DEF k
  <1>4. CASE k = 0
    BY <1>1, <1>3, <1>4, <1>6
  <1>5. CASE k # 0
    <2>1. k - 1 \in 0 .. cnt - 1 /\ ~(k <= k - 1)
      BY <1>3, <1>5
    <2>2. g[k - 1] = w[k - 1]
      BY <1>2, <2>1
    <2> QED BY <1>1, <1>3, <1>5, <1>6, <2>2
  <1> QED BY <1>4, <1>5

LEMMA OffsetStepIs ==
    ASSUME NEW v, v.known_peers \in Nat \ {0}, NEW i \in Nat, NEW prev \in Nat
    PROVE  LET Stop(o) == i + o >= v.known_peers \/ (i + o + 1) \in v.peer_ips IN
           /\ Stop(prev) => OffsetStep(v, i, prev) = prev
           /\ ~Stop(prev) /\ Stop(prev + 1) => OffsetStep(v, i, prev) = prev + 1
  <1> DEFINE Stop(o) == i + o >= v.known_peers \/ (i + o + 1) \in v.peer_ips
             S == {o \in prev .. prev + v.known_peers : Stop(o)}
             l == Least(S)
  <1>1. S \in SUBSET Nat /\ \A o \in S : o >= prev /\ Stop(o)
    OBVIOUS
  <1>2. Stop(prev) => prev \in S
    OBVIOUS
  <1>3. Stop(prev + 1) => prev + 1 \in S
    OBVIOUS
  <1>4. OffsetStep(v, i, prev) = l
    BY DEF OffsetStep
  <1> HIDE DEF S, Stop
  <1>5. S # {} => l \in S /\ \A y \in S : l <= y
    BY <1>1, LeastOf
  <1> HIDE DEF l
  <1>6. CASE Stop(prev)
    <2>1. l \in S /\ l <= prev
      BY <1>2, <1>5, <1>6
    <2>2. l \in Nat /\ l >= prev
      BY <1>1, <2>1
    <2> QED BY <1>4, <1>6, <2>1, <2>2 DEF Stop
  <1>7. CASE ~Stop(prev) /\ Stop(prev + 1)
    <2>1. l \in S /\ l <= prev + 1
      BY <1>3, <1>5, <1>7
    <2>2. l \in Nat /\ l >= prev /\ Stop(l)
      BY <1>1, <2>1
    <2>3. l # prev
      BY <1>7, <2>2
    <2> QED BY <1>4, <1>7, <2>1, <2>2, <2>3 DEF Stop
  <1> QED BY <1>4, <1>6, <1>7 DEF Stop

\* A fragment whose first try is good goes there, and its second copy to the next good
\* try.
LEMMA CopiesAt ==
    ASSUME NEW v, v.known_peers \in Nat, NEW node \in Nat,
           ValidNode(v, TryNode(v, node, 0)), NEW s \in {1, 2}, s <= v.known_peers,
           ValidNode(v, TryNode(v, node, s)),
           s = 2 => ~ValidNode(v, TryNode(v, node, 1))
    PROVE  /\ CopyNode(v, node, 0) = TryNode(v, node, 0)
           /\ CopyNode(v, node, 1) = TryNode(v, node, s)
  <1> DEFINE good == GoodTries(v, node)
             a == Least(good)
             rest == good \ {a}
             b == Least(rest)
  <1>1. good \in SUBSET Nat /\ 0 \in good /\ s \in good /\ (s = 2 => 1 \notin good)
    BY DEF GoodTries
  <1> HIDE DEF good
  <1>2. a \in good /\ a <= 0
    BY <1>1, LeastOf
  <1>3. a = 0
    <2>1. \A x \in good : x <= 0 => x = 0
      BY <1>1
    <2> HIDE DEF a
    <2> QED BY <1>2, <2>1
  <1> HIDE DEF a
  <1>4. rest \in SUBSET Nat /\ s \in rest /\ 0 \notin rest /\ (s = 2 => 1 \notin rest)
    BY <1>1, <1>3
  <1>5. good # {} /\ good # {a}
    BY <1>1, <1>3
  <1> HIDE DEF rest
  <1>6. b \in rest /\ b <= s
    BY <1>4, LeastOf
  <1>7. b = s
    <2>1. \A x \in rest : x <= s => x = s
      BY <1>4
    <2> HIDE DEF b
    <2> QED BY <1>6, <2>1
  <1>8. CopyNode(v, node, 0) = TryNode(v, node, a)
    BY <1>5 DEF CopyNode, a, good
  <1>9. CopyNode(v, node, 1) = TryNode(v, node, b)
    BY <1>5 DEF CopyNode, a, b, rest, good
  <1> QED BY <1>3, <1>7, <1>8, <1>9

LEMMA TryAt ==
    ASSUME NEW v, NEW m \in Nat \ {0}, v.net_size + v.death_count = m, NEW x \in Nat, NEW t \in Nat
    PROVE  /\ x + t < m => TryNode(v, x, t) = x + t + 1
           /\ m <= x + t /\ x + t < m + m => TryNode(v, x, t) = x + t - m + 1
  <1> DEFINE a == x + t
  <1>1. a \in Nat
    OBVIOUS
  <1>2. TryNode(v, x, t) = (a % m) + 1
    BY DEF TryNode
  <1> HIDE DEF a
  <1>3. /\ a < m => a % m = a
        /\ m <= a /\ a < m + m => a % m = a - m
    BY <1>1, Residue
  <1> QED BY <1>1, <1>2, <1>3 DEF a
=============================================================================
