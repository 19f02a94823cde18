---------------------------- MODULE BulkTransfer ----------------------------
(***************************************************************************)
(* The raw transfer of a buffer over one connection: a writer that cuts it *)
(* into buckets (server_send_large_buffer_to, HandleFileTransmission) and  *)
(* a reader that counts recv calls, not bytes (WAITING_RAW_PACKETS,        *)
(* server_wait_large_buffer_from).  Bytes are counted, not represented.    *)
(*                                                                         *)
(* The stream does not end with the buffer.  A client is back at its       *)
(* prompt when its last bucket is sent, and what it asks next follows on   *)
(* the same connection; on a node's own connection nothing follows before  *)
(* the reader has answered.  Either writer may go away at any moment: what *)
(* it has sent stays readable, and then recv returns 0.                    *)
(***************************************************************************)
EXTENDS Integers

CONSTANTS
    BUCKET,       \* SERVER_BUCKET_SIZE
    Sizes,        \* buffer sizes announced before the transfer
    MaxFollowed   \* bound on the bytes a client sends behind the buffer

ASSUME BulkConstants ==
    BUCKET \in Nat \ {0} /\ Sizes \subseteq Nat /\ MaxFollowed \in Nat

VARIABLES
    line,         \* whose connection it is: "client", or "node" for a node's call
    size,         \* size of the buffer, known to both sides
    sent,         \* buckets the writer has sent (loop variable i)
    curptr,       \* bytes of the buffer the writer has handed to the socket
    followed,     \* bytes the client has sent behind the buffer
    closed,       \* the writer's end is closed
    wire,         \* bytes of the buffer queued at the reader
    behind,       \* bytes queued behind those
    rounds,       \* recv calls that returned (loop variable i of the reader)
    populated,    \* bytes the reader has copied to its buffer, or past its end
    whole         \* history: no recv has returned less than it could

vars == <<line, size, sent, curptr, followed, closed, wire, behind, rounds, populated, whole>>

Lesser(a, b) == IF a <= b THEN a ELSE b

\* Definitions named Mut_... are wrong on purpose: each takes the place of the
\* definition that follows it, to see that a property notices.
Mut_PacketsNoExtra(sz) == sz \div BUCKET
Mut_PacketsTwoExtra(sz) == (sz \div BUCKET) + 2

\* buffer_size / SERVER_BUCKET_SIZE + 1, computed by the writer and by the reader.
Packets(sz) == (sz \div BUCKET) + 1

Mut_BucketUnclamped(sz, i) == BUCKET
Mut_BucketLate(sz, i) == Lesser(i * BUCKET + BUCKET, sz) - (i + 1) * BUCKET

\* end - st of bucket i: zero for the last bucket of a multiple of BUCKET.
BucketLength(sz, i) == Lesser(i * BUCKET + BUCKET, sz) - i * BUCKET

Init ==
    /\ line \in {"client", "node"} /\ size \in Sizes
    /\ sent = 0 /\ curptr = 0 /\ followed = 0 /\ closed = FALSE
    /\ wire = 0 /\ behind = 0 /\ rounds = 0 /\ populated = 0
    /\ whole = TRUE

\* tcp_send writes nothing when the bucket is empty.
SendBucket ==
    /\ sent < Packets(size) /\ ~closed
    /\ sent'   = sent + 1
    /\ curptr' = curptr + BucketLength(size, sent)
    /\ wire'   = wire + BucketLength(size, sent)
    /\ UNCHANGED <<line, size, followed, closed, behind, rounds, populated, whole>>

\* The client's next command, or a part of it.
SendNext ==
    /\ line = "client" /\ sent = Packets(size) /\ ~closed
    /\ \E m \in 1 .. MaxFollowed - followed :
         /\ followed' = followed + m
         /\ behind'   = behind + m
    /\ UNCHANGED <<line, size, sent, curptr, closed, wire, rounds, populated, whole>>

\* The client leaves its prompt or is ended, or the writing node dies.
Close ==
    /\ ~closed /\ closed' = TRUE
    /\ UNCHANGED <<line, size, sent, curptr, followed, wire, behind, rounds, populated, whole>>

\* What recv(fd, raw, 4096) may return: any part of what is queued, 0 at the end of
\* the stream; it blocks while nothing is queued.
RecvLengths ==
    IF wire + behind = 0 THEN (IF closed THEN {0} ELSE {})
    ELSE 1 .. Lesser(BUCKET, wire + behind)

\* Each recv is a round, also one of 0 bytes, and all it returned is copied, whether
\* it belongs to the buffer or not.
RecvBucket ==
    /\ rounds < Packets(size)
    /\ \E k \in RecvLengths :
         /\ whole'     = (whole /\ k = Lesser(BUCKET, wire + behind))
         /\ populated' = populated + k
         /\ wire'      = wire - Lesser(k, wire)
         /\ behind'    = behind - (k - Lesser(k, wire))
    /\ rounds' = rounds + 1
    /\ UNCHANGED <<line, size, sent, curptr, followed, closed>>

Next == SendBucket \/ SendNext \/ Close \/ RecvBucket

Spec     == Init /\ [][Next]_vars
FairSpec == Spec /\ WF_vars(SendBucket) /\ WF_vars(RecvBucket)

Done == rounds = Packets(size)

-----------------------------------------------------------------------------
(* Properties *)

\* Type correctness.
TypeOK ==
    /\ line \in {"client", "node"} /\ size \in Sizes
    /\ sent \in Nat /\ curptr \in Nat /\ followed \in Nat /\ closed \in BOOLEAN
    /\ wire \in Nat /\ behind \in Nat
    /\ rounds \in Nat /\ populated \in Nat /\ whole \in BOOLEAN

\* The reader's buffer was allocated with the announced size, and memcpy is bounded
\* by what recv returned, not by what is left of it.  Between nodes it never runs past
\* the end, however the network cuts the stream.  On a client's connection it does
\* when the client asks its next thing too early: what is copied past the end is a
\* part of that command, and never more than fills the last bucket.
OverrunIsNextCommand ==
    populated > size =>
        /\ line = "client" /\ populated <= curptr + followed
        /\ populated <= Packets(size) * BUCKET

\* When no recv came back short, a reader that leaves its loop has the complete
\* buffer, unless the writer went away before it had sent it: the loop does not tell
\* the end of the stream from a bucket.
CompleteWhenDone ==
    whole /\ Done /\ (~closed \/ curptr = size) => populated >= size

\* A buffer whose size is a multiple of the bucket size does not get through by
\* itself: the last recv waits for a bucket that is empty and never sent.  What ends
\* it is the client's next command, taken for contents, or the end of the stream.
MultiplesWait ==
    whole /\ Done /\ size % BUCKET = 0 => closed \/ followed > 0

\* Every other transfer ends, and every transfer whose writer goes away, however the
\* network cuts the stream.
OthersEnd == (size % BUCKET # 0 \/ closed) ~> Done
=============================================================================
