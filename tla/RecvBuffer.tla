----------------------------- MODULE RecvBuffer -----------------------------
(***************************************************************************)
(* utils::RecvBuffer: an array of MaxRecvBufs chunks of BufSize bytes that *)
(* every channel of a host reads into.  A channel limits it to its receive *)
(* granula before a read, lifts the limit after it and detaches the chunks *)
(* that were filled; new ones take their place.                            *)
(*                                                                         *)
(* A buffer is a record: amount (_bufsAmount), size (_dataSize) and lens   *)
(* (the len() of the iovec elements _bufs).                                *)
(***************************************************************************)
EXTENDS Integers

CONSTANTS BufSize,       \* bytes::Chunk::bufferSize()
          MaxRecvBufs    \* Buf::_maxBufs

ASSUME RecvBufferAssumption ==
    /\ BufSize \in Nat \ {0}
    /\ MaxRecvBufs \in Nat \ {0}

MaxDataSize == BufSize * MaxRecvBufs
RecvSlots == 0..(MaxRecvBufs - 1)

RecvBuffers == [amount : 1..MaxRecvBufs, size : 1..MaxDataSize,
                lens : [RecvSlots -> 0..BufSize]]

NewRecvBuffer == [amount |-> MaxRecvBufs, size |-> MaxDataSize,
                  lens |-> [i \in RecvSlots |-> BufSize]]

\* Whole chunks and the one cut short, for g bytes.
ChunksFor(g) == (g + BufSize - 1) \div BufSize

\* Faulty variants of LimitDataSize: the element shortened last stays short, or
\* the elements are counted rounding down.
LimitKeepsShort(b, g) ==
    IF g = 0 \/ g >= MaxDataSize
    THEN [b EXCEPT !.amount = MaxRecvBufs, !.size = MaxDataSize]
    ELSE [b EXCEPT !.amount = ChunksFor(g), !.size = g,
                   !.lens = [b.lens EXCEPT ![ChunksFor(g) - 1] = g % BufSize]]

LimitRoundsDown(b, g) ==
    IF g < BufSize \/ g >= MaxDataSize
    THEN [b EXCEPT !.amount = MaxRecvBufs, !.size = MaxDataSize]
    ELSE [b EXCEPT !.amount = g \div BufSize, !.size = g,
                   !.lens = [b.lens EXCEPT ![g \div BufSize - 1] = g % BufSize]]

\* limitDataSize: the element shortened by the last limit is made whole again
\* only if it was not the last of the array.
LimitDataSize(b, g) ==
    LET whole == IF b.amount < MaxRecvBufs
                 THEN [b.lens EXCEPT ![b.amount - 1] = BufSize] ELSE b.lens
    IN  IF g = 0 \/ g >= MaxDataSize
        THEN [b EXCEPT !.amount = MaxRecvBufs, !.size = MaxDataSize, !.lens = whole]
        ELSE [b EXCEPT !.amount = ChunksFor(g), !.size = g,
                       !.lens = [whole EXCEPT ![ChunksFor(g) - 1] = g % BufSize]]

UnlimitDataSize(b) == LimitDataSize(b, MaxDataSize)

\* renewFront(n): new chunks in the first n slots, linked to the ones kept.
\* (Every caller has lifted the limit, so the branch that resets a limited
\* buffer is not taken.)
RenewFront(b, n) ==
    [b EXCEPT !.lens = [i \in RecvSlots |-> IF i < n THEN BufSize ELSE @[i]]]

\* detach(n): the chunks that n bytes fill leave, cut off from the rest.
Detach(b, n) == RenewFront(b, IF n >= MaxDataSize THEN b.amount ELSE ChunksFor(n))

\* What one readv into a buffer limited to g can return: the elements before
\* the last one are whole.
LastLength(g) == IF g = 0 \/ g >= MaxDataSize THEN BufSize ELSE g % BufSize
LimitedAmount(g) == IF g = 0 \/ g >= MaxDataSize THEN MaxRecvBufs ELSE ChunksFor(g)
Capacity(g) == (LimitedAmount(g) - 1) * BufSize + LastLength(g)
=============================================================================
