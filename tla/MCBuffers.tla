----------------------------- MODULE MCBuffers ------------------------------
(***************************************************************************)
(* The two buffers under the calls the channels make.                      *)
(*                                                                         *)
(* The send buffer belongs to one stream channel: chunks are pushed,       *)
(* written from the front in any amount the iovec array offers, discarded. *)
(* The receive buffer is the host's and serves every channel: a stream     *)
(* channel limits it, reads, lifts the limit and detaches what it read, a  *)
(* datagram channel reads into all of it, in any order.                    *)
(***************************************************************************)
EXTENDS SendBuffer, RecvBuffer

CONSTANTS MaxBytes,    \* bytes pushed at most
          ChunkSizes,  \* sizes pushed
          MaxGranula   \* largest granula tried

ASSUME MCBuffersAssumption ==
    MaxBytes \in Nat /\ ChunkSizes \subseteq Nat \ {0} /\ MaxGranula \in Nat

VARIABLES sb,          \* a send buffer
          rb,          \* the receive buffer
          phase,       \* what the channel reading has called so far
          limit, got   \* its granula; what readv returned

recvVars == <<rb, phase, limit, got>>
vars == <<sb, recvVars>>

TypeOK ==
    /\ sb \in [head : 0..MaxBytes, tail : 0..MaxBytes,
               ends : SUBSET (1..MaxBytes), bufs : SUBSET (1..MaxBytes)]
    /\ rb \in RecvBuffers
    /\ phase \in {"free", "limited", "read", "unlimited"}
    /\ limit \in 0..MaxGranula /\ got \in 0..MaxDataSize

Init ==
    /\ sb = NewSendBuffer
    /\ rb = NewRecvBuffer /\ phase = "free" /\ limit = 0 /\ got = 0

-----------------------------------------------------------------------------
PushChunk == \E len \in ChunkSizes :
    /\ sb.tail + len <= MaxBytes
    /\ sb' = Push(sb, len) /\ UNCHANGED recvVars

DropWritten == \E n \in 1..MaxBytes :
    /\ WithinBufs(n, sb)
    /\ sb' = Drop(sb, n) /\ UNCHANGED recvVars

ClearAll == sb' = Clear(sb) /\ UNCHANGED recvVars

-----------------------------------------------------------------------------
\* What the first n elements of an iovec array can store, and readv now.
RoomOf(lens) ==
    LET upTo[n \in 0..MaxRecvBufs] == IF n = 0 THEN 0 ELSE upTo[n - 1] + lens[n - 1]
    IN  upTo
Room == RoomOf(rb.lens)[rb.amount]

LimitFor == \E g \in 1..MaxGranula :
    /\ phase = "free"
    /\ rb' = LimitDataSize(rb, g) /\ limit' = g
    /\ phase' = "limited" /\ UNCHANGED <<sb, got>>

Read ==
    /\ phase = "limited"
    /\ got' \in 0..Room
    /\ phase' = "read" /\ UNCHANGED <<sb, rb, limit>>

Unlimit ==
    /\ phase = "read"
    /\ rb' = UnlimitDataSize(rb)
    /\ phase' = "unlimited" /\ UNCHANGED <<sb, limit, got>>

\* An error or an empty read leaves the buffer alone.
DetachRead ==
    /\ phase = "unlimited"
    /\ rb' = IF got > 0 THEN Detach(rb, got) ELSE rb
    /\ phase' = "free" /\ limit' = 0 /\ got' = 0 /\ UNCHANGED sb

ReadDatagram ==
    /\ phase = "free"
    /\ got' \in 1..Room
    /\ phase' = "unlimited" /\ UNCHANGED <<sb, rb, limit>>

Next == \/ PushChunk \/ DropWritten \/ ClearAll
        \/ LimitFor \/ Read \/ Unlimit \/ DetachRead \/ ReadDatagram
Spec == Init /\ [][Next]_vars

-----------------------------------------------------------------------------
\* What sendmsg is given is a gapless prefix of the unsent data, in at most
\* MaxBufs chunks: no chunk is skipped by a push that finds the array long
\* enough, and none stays in it once it is written.  The chunks themselves cover
\* the unsent data and no more, whatever drop cut in two.
IovecIsPrefix ==
    /\ Cardinality(sb.bufs) <= MaxBufs
    /\ \A e \in sb.bufs : {x \in sb.ends : x <= e} \subseteq sb.bufs
    /\ sb.bufs \subseteq sb.ends
    /\ \A e \in sb.ends : sb.head < e /\ e <= sb.tail
    /\ sb.head < sb.tail => sb.tail \in sb.ends

\* empty(), which looks at the iovec array, is true only without data: drop
\* refills the array before it can run out.
EmptyMeansSent == IsEmpty(sb) <=> DataSize(sb) = 0

\* detach computes where n bytes are from n alone, as if every iovec element
\* before the last one used were a whole chunk.  That holds whatever limits
\* earlier reads, of this or another channel, have left in the array.
DetachFindsTheData ==
    phase = "read" => \A i \in 0..(ChunksFor(got) - 2) : rb.lens[i] = BufSize

\* A limited read can return exactly Capacity(limit) bytes, and never more
\* than the granula; without a limit less may fit after a cut last element.
LimitIsExact ==
    phase = "limited" => /\ Room <= Capacity(limit)
                         /\ limit < MaxDataSize => Room = Capacity(limit) /\ Room <= limit
=============================================================================
