----------------------------- MODULE SendBuffer -----------------------------
(***************************************************************************)
(* stream::SendBuffer: the bytes a channel still has to put on the wire,   *)
(* held as a list of chunks, with an iovec array over the first MaxBufs    *)
(* of them.  A byte is identified with its position in the stream of all   *)
(* bytes ever pushed, so a chunk is known by the position it ends at:      *)
(*   head  position before the first byte still in _data                   *)
(*   tail  position of the last byte pushed                                *)
(*   ends  end positions of the chunks of _data                            *)
(*   bufs  those of them the iovec array _bufs[0 .. _bufsAmount-1] covers  *)
(***************************************************************************)
EXTENDS Integers, FiniteSets

CONSTANTS MaxBufs,          \* _bufsAmountMax
          MinBufs4Enfill    \* _bufsAmountMin4Enfill

ASSUME SendBufferAssumption ==
    /\ MaxBufs \in Nat \ {0}
    /\ MinBufs4Enfill \in Nat

SendBuffers == [head : Nat, tail : Nat, ends : SUBSET Nat, bufs : SUBSET Nat]

NewSendBuffer == [head |-> 0, tail |-> 0, ends |-> {}, bufs |-> {}]

FirstChunks(ends) == {e \in ends : Cardinality({x \in ends : x <= e}) <= MaxBufs}

\* Faulty variant of EnfillBufs: the newest chunks are taken.
EnfillLast(head, tail, ends) ==
    [head |-> head, tail |-> tail, ends |-> ends,
     bufs |-> {e \in ends : Cardinality({x \in ends : x >= e}) <= MaxBufs}]

\* The buffer with the given data after enfillBufs().
EnfillBufs(head, tail, ends) ==
    [head |-> head, tail |-> tail, ends |-> ends, bufs |-> FirstChunks(ends)]

\* A push fills the iovec array unless it is already long enough.
Push(b, len) ==
    LET end == b.tail + len
        ends == b.ends \cup {end}
    IN  IF Cardinality(b.bufs) <= MinBufs4Enfill
        THEN EnfillBufs(b.head, end, ends)
        ELSE [head |-> b.head, tail |-> end, ends |-> ends, bufs |-> b.bufs]

\* Faulty variant of Drop: the iovec array is emptied and not filled again.
DropWithoutEnfill(b, n) ==
    [head |-> b.head + n, tail |-> b.tail,
     ends |-> {e \in b.ends : e > b.head + n}, bufs |-> {}]

Drop(b, n) == EnfillBufs(b.head + n, b.tail, {e \in b.ends : e > b.head + n})

Clear(b) == [head |-> b.tail, tail |-> b.tail, ends |-> {}, bufs |-> {}]

IsEmpty(b) == b.bufs = {}

DataSize(b) == b.tail - b.head

\* n < bufsSize() and n <= bufsSize(): some covered chunk ends (not) beyond n.
LessThanBufs(n, b)  == \E e \in b.bufs : b.head + n < e
WithinBufs(n, b)    == \E e \in b.bufs : b.head + n <= e
=============================================================================
