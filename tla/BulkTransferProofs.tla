-------------------------- MODULE BulkTransferProofs --------------------------
(***************************************************************************)
(* Proofs about BulkTransfer for every bucket size, every set of sizes and *)
(* whatever follows the buffer.                                            *)
(*                                                                         *)
(* The argument: the bytes handed over so far are the whole buckets sent,  *)
(* clipped to the size (Cut); read or queued, they come before what        *)
(* follows them (Queued), and that follows only when all of them are sent  *)
(* (InOrder).  A recv brings at most a bucket (Bounded).  When no recv     *)
(* comes back short the reader is never behind its rounds by more than the *)
(* writer is (Aligned), and while the stream is only the buffer it makes   *)
(* no round before there is a bucket for it (Paced).                       *)
(***************************************************************************)
EXTENDS BulkTransfer, TLAPS

\* Integer division by the bucket size, in the form the provers use.
LEMMA DivisionFacts ==
    ASSUME NEW s \in Nat, NEW b \in Nat \ {0}
    PROVE  /\ s \div b \in Nat
           /\ s % b \in 0 .. b - 1
           /\ s = b * (s \div b) + (s % b)
  BY Z3

\* Multiplication by the bucket size is monotone.
LEMMA ProductMonotone ==
    ASSUME NEW m \in Nat, NEW n \in Nat, NEW b \in Nat, m <= n
    PROVE  m * b <= n * b
  BY Z3

LEMMA ProductNat ==
    ASSUME NEW m \in Nat, NEW b \in Nat
    PROVE  /\ m * b \in Nat
           /\ (m + 1) * b = m * b + b
  BY Z3

Cut     == curptr = Lesser(sent * BUCKET, size)
InOrder == followed > 0 => line = "client" /\ sent = Packets(size)
Queued  == /\ wire = curptr - Lesser(populated, curptr)
           /\ wire + behind + populated = curptr + followed
Bounded == populated <= rounds * BUCKET
Aligned == whole => populated >= Lesser(rounds * BUCKET, curptr)
Paced   == whole /\ ~closed /\ followed = 0 =>
              rounds <= sent /\ (rounds = 0 \/ (rounds - 1) * BUCKET < size)

\* The inductive invariant.
Inv ==
    /\ TypeOK
    /\ sent <= Packets(size) /\ rounds <= Packets(size)
    /\ Cut /\ InOrder /\ Queued /\ Bounded /\ Aligned /\ Paced

\* A bucket that is still to be sent starts inside the buffer or at its end.
LEMMA BucketStart ==
    ASSUME NEW s \in Nat, NEW i \in Nat, i < Packets(s)
    PROVE  /\ i * BUCKET \in Nat
           /\ i * BUCKET <= s
           /\ BucketLength(s, i) \in Nat
           /\ i * BUCKET + BucketLength(s, i) = Lesser((i + 1) * BUCKET, s)
  <1> DEFINE q == s \div BUCKET
  <1>1. BUCKET \in Nat \ {0}
    BY BulkConstants
  <1>2. q \in Nat /\ s % BUCKET \in Nat /\ s = BUCKET * q + (s % BUCKET)
    <2>1. q \in Nat /\ s % BUCKET \in 0 .. BUCKET - 1 /\ s = BUCKET * q + (s % BUCKET)
      BY <1>1, DivisionFacts
    <2> HIDE DEF q
    <2> QED BY <1>1, <2>1
  <1>3. i <= q
    BY <1>2 DEF Packets
  <1>4. i * BUCKET <= q * BUCKET
    BY <1>1, <1>2, <1>3, ProductMonotone
  <1>5. i * BUCKET \in Nat /\ (i + 1) * BUCKET = i * BUCKET + BUCKET
    BY <1>1, ProductNat
  <1>6. q * BUCKET = BUCKET * q /\ q * BUCKET \in Nat
    BY <1>1, <1>2
  <1>7. i * BUCKET <= s
    <2> HIDE DEF q
    <2> QED BY <1>2, <1>4, <1>5, <1>6
  <1> HIDE DEF q
  <1> QED BY <1>1, <1>5, <1>7 DEF BucketLength, Lesser

\* All buckets together are longer than the buffer.
LEMMA AllBuckets ==
    ASSUME NEW s \in Nat
    PROVE  /\ Packets(s) \in Nat
           /\ s < Packets(s) * BUCKET
           /\ s % BUCKET = 0 => (Packets(s) - 1) * BUCKET = s
  <1> DEFINE q == s \div BUCKET
  <1>1. BUCKET \in Nat \ {0}
    BY BulkConstants
  <1>2. q \in Nat /\ s % BUCKET \in 0 .. BUCKET - 1 /\ s = BUCKET * q + (s % BUCKET)
    BY <1>1, DivisionFacts
  <1>3. (q + 1) * BUCKET = q * BUCKET + BUCKET
    BY <1>1, <1>2, ProductNat
  <1>4. q * BUCKET = BUCKET * q /\ q * BUCKET \in Nat
    BY <1>1, <1>2
  <1>5. Packets(s) = q + 1 /\ Packets(s) - 1 = q
    BY <1>2 DEF Packets
  <1> HIDE DEF q
  <1> QED BY <1>1, <1>2, <1>3, <1>4, <1>5

LEMMA InitInv == Init => Inv
  <1> SUFFICES ASSUME Init PROVE Inv
    OBVIOUS
  <1>1. size \in Nat /\ BUCKET \in Nat
    BY BulkConstants DEF Init
  <1>2. Packets(size) \in Nat
    BY <1>1, AllBuckets
  <1>3. 0 * BUCKET = 0
    BY <1>1
  <1>4. /\ TypeOK
        /\ sent = 0 /\ curptr = 0 /\ followed = 0 /\ wire = 0 /\ behind = 0
        /\ rounds = 0 /\ populated = 0
    BY DEF Init, TypeOK
  <1>5. Cut
    BY <1>1, <1>3, <1>4 DEF Cut, Lesser
  <1>6. Queued /\ InOrder
    BY <1>4 DEF Queued, InOrder, Lesser
  <1>7. Bounded
    BY <1>3, <1>4 DEF Bounded
  <1>8. Aligned
    BY <1>3, <1>4 DEF Aligned, Lesser
  <1>9. Paced
    BY <1>4 DEF Paced
  <1>10. sent <= Packets(size) /\ rounds <= Packets(size)
    BY <1>2, <1>4
  <1> QED BY <1>4, <1>5, <1>6, <1>7, <1>8, <1>9, <1>10 DEF Inv

LEMMA Types ==
    ASSUME Inv
    PROVE  /\ size \in Nat /\ BUCKET \in Nat \ {0} /\ Packets(size) \in Nat
           /\ sent \in Nat /\ curptr \in Nat /\ wire \in Nat /\ behind \in Nat
           /\ rounds \in Nat /\ populated \in Nat /\ followed \in Nat
           /\ whole \in BOOLEAN /\ closed \in BOOLEAN
           /\ sent * BUCKET \in Nat /\ rounds * BUCKET \in Nat
           /\ (sent + 1) * BUCKET = sent * BUCKET + BUCKET
           /\ (rounds + 1) * BUCKET = rounds * BUCKET + BUCKET
           /\ curptr <= size
  <1>1. /\ size \in Nat /\ BUCKET \in Nat \ {0} /\ sent \in Nat /\ curptr \in Nat
        /\ wire \in Nat /\ behind \in Nat /\ rounds \in Nat /\ populated \in Nat
        /\ followed \in Nat /\ whole \in BOOLEAN /\ closed \in BOOLEAN
    BY BulkConstants DEF Inv, TypeOK
  <1>2. Packets(size) \in Nat
    BY <1>1, AllBuckets
  <1>3. /\ sent * BUCKET \in Nat /\ rounds * BUCKET \in Nat
        /\ (sent + 1) * BUCKET = sent * BUCKET + BUCKET
        /\ (rounds + 1) * BUCKET = rounds * BUCKET + BUCKET
    BY <1>1, ProductNat
  <1>4. curptr <= size
    BY <1>1, <1>3 DEF Inv, Cut, Lesser
  <1> QED BY <1>1, <1>2, <1>3, <1>4

LEMMA SendBucketInv == Inv /\ SendBucket => Inv'
  <1> SUFFICES ASSUME Inv, SendBucket PROVE Inv'
    OBVIOUS
  <1> DEFINE len == BucketLength(size, sent)
  <1>1. /\ sent < Packets(size) /\ ~closed /\ sent' = sent + 1
        /\ curptr' = curptr + len /\ wire' = wire + len
        /\ UNCHANGED <<line, size, followed, closed, behind, rounds, populated, whole>>
    BY DEF SendBucket
  <1>2. /\ sent * BUCKET <= size /\ len \in Nat
        /\ sent * BUCKET + len = Lesser((sent + 1) * BUCKET, size)
    BY <1>1, Types, BucketStart
  <1> HIDE DEF len
  <1>3. curptr = sent * BUCKET
    BY <1>2, Types DEF Inv, Cut, Lesser
  <1>4. followed = 0
    BY <1>1, Types DEF Inv, InOrder
  <1>5. populated <= curptr /\ wire = curptr - populated
    BY <1>4, Types DEF Inv, Queued, Lesser
  <1>6. TypeOK' /\ sent' <= Packets(size') /\ rounds' <= Packets(size')
    BY <1>1, <1>2, Types DEF Inv, TypeOK
  <1>7. Cut'
    BY <1>1, <1>2, <1>3 DEF Cut
  <1>8. Queued' /\ InOrder'
    BY <1>1, <1>2, <1>4, <1>5, Types DEF Inv, Queued, InOrder, Lesser
  <1>9. ASSUME whole' PROVE Aligned' /\ Paced'
    <2>1. populated >= Lesser(rounds * BUCKET, curptr) /\ rounds <= sent
      BY <1>1, <1>4, <1>9 DEF Inv, Aligned, Paced
    <2>2. rounds * BUCKET <= sent * BUCKET
      BY <2>1, Types, ProductMonotone
    <2>3. populated >= rounds * BUCKET
      BY <1>3, <2>1, <2>2, Types DEF Lesser
    <2>4. Aligned'
      BY <1>1, <1>2, <2>3, Types DEF Aligned, Lesser
    <2>5. Paced'
      BY <1>1, <1>4, <1>9, <2>1, Types DEF Inv, Paced
    <2> QED BY <2>4, <2>5
  <1> QED BY <1>1, <1>6, <1>7, <1>8, <1>9 DEF Inv, Bounded, Aligned, Paced

LEMMA RecvBucketInv == Inv /\ RecvBucket => Inv'
  <1> SUFFICES ASSUME Inv, RecvBucket PROVE Inv'
    OBVIOUS
  <1>1. PICK k \in RecvLengths :
          /\ whole' = (whole /\ k = Lesser(BUCKET, wire + behind))
          /\ populated' = populated + k
          /\ wire' = wire - Lesser(k, wire)
          /\ behind' = behind - (k - Lesser(k, wire))
    BY DEF RecvBucket
  <1>2. /\ rounds < Packets(size) /\ rounds' = rounds + 1
        /\ UNCHANGED <<line, size, sent, curptr, followed, closed>>
    BY DEF RecvBucket
  <1>3. k \in Nat /\ k <= BUCKET /\ k <= wire + behind
    BY <1>1, Types DEF RecvLengths, Lesser
  <1>4. ~closed => wire + behind > 0
    BY <1>1, Types DEF RecvLengths
  <1>5. /\ wire = curptr - Lesser(populated, curptr)
        /\ wire + behind + populated = curptr + followed
    BY DEF Inv, Queued
  <1>6. wire' \in Nat /\ behind' \in Nat /\ populated' \in Nat /\ Queued'
    BY <1>1, <1>2, <1>3, <1>5, Types DEF Queued, Lesser
  <1>7. TypeOK' /\ sent' <= Packets(size') /\ rounds' <= Packets(size')
    BY <1>1, <1>2, <1>6, Types DEF Inv, TypeOK
  <1>8. Cut' /\ InOrder'
    BY <1>2 DEF Inv, Cut, InOrder
  <1>9. Bounded'
    BY <1>1, <1>2, <1>3, Types DEF Inv, Bounded
  <1>10. ASSUME whole' PROVE Aligned' /\ Paced'
    <2>1. whole /\ k = Lesser(BUCKET, wire + behind)
      BY <1>1, <1>10
    <2>2. populated >= Lesser(rounds * BUCKET, curptr)
      BY <2>1 DEF Inv, Aligned
    <2>3. populated + k >= Lesser((rounds + 1) * BUCKET, curptr)
      BY <1>5, <2>1, <2>2, Types DEF Lesser
    <2>4. Aligned'
      BY <1>1, <1>2, <2>3, Types DEF Aligned
    <2>5. ASSUME ~closed, followed = 0
          PROVE  rounds + 1 <= sent /\ rounds * BUCKET < size
      <3>1. populated < curptr
        BY <1>4, <1>5, <2>5, Types DEF Lesser
      <3>2. rounds * BUCKET < curptr
        BY <2>2, <3>1, Types DEF Lesser
      <3>3. rounds * BUCKET < size /\ rounds * BUCKET < sent * BUCKET
        BY <3>2, Types DEF Inv, Cut, Lesser
      <3>4. rounds < sent
        <4>1. SUFFICES ASSUME sent <= rounds PROVE FALSE
          BY Types
        <4>2. sent * BUCKET <= rounds * BUCKET
          BY <4>1, Types, ProductMonotone
        <4> QED BY <3>3, <4>2, Types
      <3> QED BY <3>3, <3>4, Types
    <2>6. rounds' - 1 = rounds
      BY <1>2, Types
    <2>7. Paced'
      BY <1>2, <2>5, <2>6 DEF Paced
    <2> QED BY <2>4, <2>7
  <1> QED BY <1>6, <1>7, <1>8, <1>9, <1>10 DEF Inv, Aligned, Paced

LEMMA NextInv == Inv /\ [Next]_vars => Inv'
  <1> SUFFICES ASSUME Inv, [Next]_vars PROVE Inv'
    OBVIOUS
  <1>1. CASE SendBucket
    BY <1>1, SendBucketInv
  <1>2. CASE SendNext
    <2>1. PICK m \in 1 .. MaxFollowed - followed : followed' = followed + m /\ behind' = behind + m
      BY <1>2 DEF SendNext
    <2>2. /\ line = "client" /\ sent = Packets(size) /\ ~closed
          /\ UNCHANGED <<line, size, sent, curptr, closed, wire, rounds, populated, whole>>
      BY <1>2 DEF SendNext
    <2>3. m \in Nat /\ m > 0
      BY <2>1, Types, BulkConstants
    <2>4. followed' \in Nat /\ behind' \in Nat /\ followed' > 0
      BY <2>1, <2>3, Types
    <2>5. TypeOK' /\ Queued'
      <3>1. TypeOK'
        BY <2>2, <2>4, Types DEF Inv, TypeOK
      <3>2. followed' = followed + m /\ behind' = behind + m /\ Queued
        BY <2>1 DEF Inv
      <3>3. Queued'
        <4>1. wire' = curptr' - Lesser(populated', curptr')
          BY <2>2, <3>2 DEF Queued
        <4>2. wire' + behind' + populated' = curptr' + followed'
          <5>1. wire + behind + populated = curptr + followed
            BY <3>2 DEF Queued
          <5>2. /\ wire' = wire /\ populated' = populated /\ curptr' = curptr
                /\ behind' = behind + m /\ followed' = followed + m
            BY <2>2, <3>2
          <5> QED BY <2>3, <5>1, <5>2, Types
        <4> QED BY <4>1, <4>2 DEF Queued
      <3> QED BY <3>1, <3>3
    <2>6. Cut' /\ InOrder' /\ Bounded' /\ Aligned'
      BY <2>2 DEF Inv, Cut, InOrder, Bounded, Aligned
    <2>7. Paced'
      BY <2>4 DEF Paced
    <2>8. sent' <= Packets(size') /\ rounds' <= Packets(size')
      BY <2>2 DEF Inv
    <2> QED BY <2>5, <2>6, <2>7, <2>8 DEF Inv
  <1>3. CASE Close
    BY <1>3 DEF Close, Inv, TypeOK, Cut, InOrder, Queued, Bounded, Aligned, Paced
  <1>4. CASE RecvBucket
    BY <1>4, RecvBucketInv
  <1>5. CASE UNCHANGED vars
    BY <1>5 DEF vars, Inv, TypeOK, Cut, InOrder, Queued, Bounded, Aligned, Paced
  <1> QED BY <1>1, <1>2, <1>3, <1>4, <1>5 DEF Next

\* Type correctness: every counter of the two loops stays a natural number; in
\* particular no bucket length is ever negative.
THEOREM TypeCorrect == Spec => []TypeOK
  <1>1. Inv => TypeOK
    BY DEF Inv
  <1> QED BY InitInv, NextInv, <1>1, PTL DEF Spec

\* The reader copies past the end of its buffer only bytes of a client's next command,
\* and at most as many as are missing to the last bucket: between nodes it never does,
\* for every size, every bucket size and every way recv cuts the stream.
THEOREM OverrunBound == Spec => []OverrunIsNextCommand
  <1>1. Inv => OverrunIsNextCommand
    <2> SUFFICES ASSUME Inv, populated > size
                 PROVE  /\ line = "client" /\ populated <= curptr + followed
                        /\ populated <= Packets(size) * BUCKET
      BY DEF OverrunIsNextCommand
    <2>1. populated <= curptr + followed /\ followed > 0
      BY Types DEF Inv, Queued
    <2>2. line = "client"
      BY <2>1 DEF Inv, InOrder
    <2>3. rounds * BUCKET <= Packets(size) * BUCKET
      BY Types, ProductMonotone DEF Inv
    <2>4. Packets(size) * BUCKET \in Nat
      BY Types, ProductNat
    <2> QED BY <2>1, <2>2, <2>3, <2>4, Types DEF Inv, Bounded
  <1> QED BY InitInv, NextInv, <1>1, PTL DEF Spec

\* When every send is received whole, the reader's loop ends with the complete
\* buffer, although it counts recv calls and not bytes, unless the writer went away
\* in the middle.
THEOREM DoneIsComplete == Spec => []CompleteWhenDone
  <1>1. Inv => CompleteWhenDone
    <2> SUFFICES ASSUME Inv, whole, rounds = Packets(size), ~closed \/ curptr = size
                 PROVE  populated >= size
      BY DEF CompleteWhenDone, Done
    <2>1. size < Packets(size) * BUCKET /\ Packets(size) * BUCKET \in Nat
      BY Types, AllBuckets
    <2>2. populated >= curptr
      BY <2>1, Types DEF Inv, Aligned, Lesser
    <2>3. ASSUME ~closed PROVE curptr = size
      <3>1. sent = Packets(size)
        BY <2>3, Types DEF Inv, InOrder, Paced
      <3> QED BY <2>1, <3>1, Types DEF Inv, Cut, Lesser
    <2> QED BY <2>2, <2>3, Types
  <1> QED BY InitInv, NextInv, <1>1, PTL DEF Spec

\* For every bucket size, a buffer whose size is a multiple of it gets through only
\* when the writer goes away or, a client, sends something else: the reader asks for
\* one bucket more than there is.
THEOREM MultiplesNeedMore == Spec => []MultiplesWait
  <1>1. Inv => MultiplesWait
    <2> SUFFICES ASSUME Inv, whole, size % BUCKET = 0, rounds = Packets(size),
                        ~closed, ~(followed > 0)
                 PROVE  FALSE
      BY DEF MultiplesWait, Done
    <2>1. (Packets(size) - 1) * BUCKET = size /\ size < Packets(size) * BUCKET
      BY Types, AllBuckets
    <2>2. Packets(size) # 0
      BY <2>1, Types
    <2>3. followed = 0
      BY Types
    <2> QED BY <2>1, <2>2, <2>3, Types DEF Inv, Paced
  <1> QED BY InitInv, NextInv, <1>1, PTL DEF Spec
=============================================================================
