---------------------------- MODULE BufferProofs ----------------------------
(***************************************************************************)
(* Facts about the operations of SendBuffer and RecvBuffer, for all sizes, *)
(* on which the proofs about the buffers and about the channels rest.      *)
(***************************************************************************)
EXTENDS SendBuffer, RecvBuffer, FiniteSetTheorems, WellFoundedInduction, TLAPS

-----------------------------------------------------------------------------
(* Least and greatest elements of sets of naturals.  (Proofs by induction  *)
(* take the least counterexample.)                                         *)

Smaller == {p \in Nat \X Nat : p[1] < p[2]}

LEMMA Least ==
    ASSUME NEW S \in SUBSET Nat, S # {}
    PROVE  \E x \in S : \A y \in S : x <= y
<1>1. OpToRel(<, Nat) = Smaller
  BY DEF OpToRel, Smaller
<1>2. IsWellFoundedOn(Smaller, Nat)
  BY <1>1, NatLessThanWellFounded
<1>3. PICK x \in S : \A y \in S : <<y, x>> \notin Smaller
  BY <1>2, WFMin
<1>4. ASSUME NEW y \in S PROVE x <= y
  <2>1. <<y, x>> \in Nat \X Nat /\ ~(<<y, x>>[1] < <<y, x>>[2])
    BY <1>3, <1>4 DEF Smaller
  <2> QED  BY <2>1
<1> QED  BY <1>4

LEMMA Greatest ==
    ASSUME NEW S \in SUBSET Nat, S # {}, NEW top \in Nat, \A y \in S : y <= top
    PROVE  \E x \in S : \A y \in S : y <= x
<1> DEFINE Above == {n \in Nat : \A y \in S : y <= n}
<1>1. PICK n \in Above : \A m \in Above : n <= m
  <2>1. top \in Above
    OBVIOUS
  <2> QED  BY <2>1, Least
<1>2. CASE n \in S
  BY <1>1, <1>2
<1>3. CASE n \notin S
  <2>1. \A y \in S : y <= n - 1
    BY <1>1, <1>3
  <2>2. PICK y \in S : y <= n - 1
    BY <2>1
  <2>3. y \in Nat /\ n - 1 \in Nat
    BY <2>2
  <2>4. n - 1 \in Above
    BY <2>1, <2>3
  <2> QED  BY <1>1, <2>4
<1> QED  BY <1>2, <1>3

-----------------------------------------------------------------------------
(* The iovec array of a send buffer.                                       *)

\* The first MaxBufs chunks: some if there are any, no more than MaxBufs, and
\* with a chunk every chunk before it.
LEMMA FirstChunksCover ==
    ASSUME NEW ends \in SUBSET Nat, NEW top \in Nat, \A e \in ends : e <= top
    PROVE  /\ FirstChunks(ends) \subseteq ends
           /\ Cardinality(FirstChunks(ends)) \in Nat
           /\ Cardinality(FirstChunks(ends)) <= MaxBufs
           /\ \A e \in FirstChunks(ends) : {x \in ends : x <= e} \subseteq FirstChunks(ends)
           /\ ends # {} => FirstChunks(ends) # {}
<1> DEFINE UpTo(e) == {x \in ends : x <= e}
<1>0. MaxBufs \in Nat \ {0} /\ FirstChunks(ends) \subseteq ends
  BY SendBufferAssumption DEF FirstChunks
<1>1. IsFiniteSet(ends)
  BY FS_BoundedSetOfNaturals
<1>2. \A S \in SUBSET ends : IsFiniteSet(S) /\ Cardinality(S) \in Nat
  BY <1>1, FS_Subset, FS_CardinalityType
<1>3. \A S, T \in SUBSET ends : S \subseteq T => Cardinality(S) <= Cardinality(T)
  BY <1>2, FS_Subset
<1>4. \A e \in ends : e \in FirstChunks(ends) <=> Cardinality(UpTo(e)) <= MaxBufs
  BY DEF FirstChunks
<1>5. Cardinality(FirstChunks(ends)) <= MaxBufs
  <2>1. CASE FirstChunks(ends) = {}
    BY <1>0, <2>1, FS_EmptySet
  <2>2. CASE FirstChunks(ends) # {}
    <3>1. PICK m \in FirstChunks(ends) : \A y \in FirstChunks(ends) : y <= m
      BY <1>0, <2>2, Greatest
    <3>2. FirstChunks(ends) \subseteq UpTo(m) /\ UpTo(m) \subseteq ends
      BY <1>0, <3>1
    <3>3. Cardinality(FirstChunks(ends)) <= Cardinality(UpTo(m))
      BY <1>0, <1>3, <3>2
    <3>4. Cardinality(UpTo(m)) <= MaxBufs
      BY <1>0, <1>4, <3>1
    <3> QED  BY <1>0, <1>2, <3>2, <3>3, <3>4
  <2> QED  BY <2>1, <2>2
<1>6. ASSUME NEW e \in FirstChunks(ends) PROVE UpTo(e) \subseteq FirstChunks(ends)
  <2> SUFFICES ASSUME NEW x \in UpTo(e) PROVE x \in FirstChunks(ends)
    OBVIOUS
  <2>0. e \in ends /\ x \in ends /\ x <= e
    BY <1>0, <1>6
  <2>1. e \in ends /\ x \in ends /\ UpTo(x) \subseteq UpTo(e)
    <3>1. \A y \in ends : y <= x => y <= e
      BY <2>0
    <3> QED  BY <2>0, <3>1
  <2>2. Cardinality(UpTo(x)) <= Cardinality(UpTo(e))
    BY <1>3, <2>1
  <2>3. Cardinality(UpTo(e)) <= MaxBufs
    BY <1>4, <1>6, <2>1
  <2>4. UpTo(x) \in SUBSET ends /\ UpTo(e) \in SUBSET ends
    OBVIOUS
  <2> QED  BY <1>0, <1>2, <1>4, <2>1, <2>2, <2>3, <2>4
<1>7. ASSUME ends # {} PROVE FirstChunks(ends) # {}
  <2>1. PICK e \in ends : \A y \in ends : e <= y
    BY <1>7, Least
  <2>2. UpTo(e) = {e}
    <3>1. \A y \in ends : y <= e <=> y = e
      BY <2>1
    <3> QED  BY <3>1
  <2>3. Cardinality(UpTo(e)) = 1
    BY <2>2, FS_Singleton
  <2> QED  BY <1>0, <1>4, <2>3
<1> QED  BY <1>0, <1>2, <1>5, <1>6, <1>7

-----------------------------------------------------------------------------
(* Every operation leaves a send buffer sound.                             *)

\* The chunks cover the unsent data and no more; the iovec array holds a prefix
\* of them, not longer than it can be and not empty unless there is nothing.
Sound(b) ==
    /\ b \in SendBuffers /\ b.head <= b.tail
    /\ \A e \in b.ends : b.head < e /\ e <= b.tail
    /\ b.head < b.tail => b.tail \in b.ends
    /\ b.bufs \subseteq b.ends
    /\ Cardinality(b.bufs) \in Nat /\ Cardinality(b.bufs) <= MaxBufs
    /\ \A e \in b.bufs : {x \in b.ends : x <= e} \subseteq b.bufs
    /\ b.ends # {} => b.bufs # {}

LEMMA EnfilledIsSound ==
    ASSUME NEW head \in Nat, NEW tail \in Nat, head <= tail,
           NEW ends \in SUBSET Nat, \A e \in ends : head < e /\ e <= tail,
           head < tail => tail \in ends
    PROVE  Sound(EnfillBufs(head, tail, ends))
<1>1. FirstChunks(ends) \in SUBSET Nat
  BY FirstChunksCover
<1>2. EnfillBufs(head, tail, ends) \in SendBuffers
  BY <1>1 DEF EnfillBufs, SendBuffers
<1> QED  BY <1>2, FirstChunksCover DEF EnfillBufs, Sound

LEMMA NewIsSound == Sound(NewSendBuffer)
  BY FS_EmptySet, SendBufferAssumption DEF Sound, NewSendBuffer, SendBuffers

LEMMA ClearIsSound == ASSUME NEW b, Sound(b) PROVE Sound(Clear(b))
  BY FS_EmptySet, SendBufferAssumption DEF Sound, Clear, SendBuffers

\* A push that finds the array long enough leaves it alone: the new chunk comes
\* after those it covers.
LEMMA PushIsSound ==
    ASSUME NEW b, Sound(b), NEW len \in Nat \ {0} PROVE Sound(Push(b, len))
<1> DEFINE end == b.tail + len
           ends == b.ends \cup {end}
<1>0. b.head \in Nat /\ b.tail \in Nat /\ end \in Nat /\ ends \in SUBSET Nat
  BY DEF Sound, SendBuffers
<1>1. /\ b.head <= end /\ end \in ends
      /\ \A e \in ends : b.head < e /\ e <= end
  BY <1>0 DEF Sound
<1>2. CASE Cardinality(b.bufs) <= MinBufs4Enfill
  BY <1>0, <1>1, <1>2, EnfilledIsSound DEF Push
<1>3. CASE ~(Cardinality(b.bufs) <= MinBufs4Enfill)
  <2>1. Push(b, len) = [head |-> b.head, tail |-> end, ends |-> ends, bufs |-> b.bufs]
    BY <1>3 DEF Push
  <2>2. b.bufs # {}
    BY <1>3, FS_EmptySet, SendBufferAssumption DEF Sound
  <2>3. \A e \in b.bufs : {x \in ends : x <= e} \subseteq b.bufs
    BY <1>0 DEF Sound
  <2>4. Push(b, len) \in SendBuffers
    BY <1>0, <2>1 DEF Sound, SendBuffers
  <2> QED  BY <1>1, <2>1, <2>2, <2>3, <2>4 DEF Sound
<1> QED  BY <1>2, <1>3

\* What is dropped was covered by the array, so not all of it is beyond the
\* data that is there.
LEMMA DropIsSound ==
    ASSUME NEW b, Sound(b), NEW n \in Nat, WithinBufs(n, b) PROVE Sound(Drop(b, n))
<1> DEFINE ends == {e \in b.ends : e > b.head + n}
<1>0. b.head \in Nat /\ b.tail \in Nat /\ b.head + n \in Nat /\ ends \in SUBSET Nat
  BY DEF Sound, SendBuffers
<1>1. b.head + n <= b.tail
  <2>1. PICK e \in b.bufs : b.head + n <= e
    BY DEF WithinBufs
  <2>2. e \in Nat /\ e <= b.tail
    BY DEF Sound, SendBuffers
  <2> QED  BY <1>0, <2>1, <2>2
<1>2. b.head + n < b.tail => b.tail \in ends
  BY <1>0 DEF Sound
<1>3. \A e \in ends : b.head + n < e /\ e <= b.tail
  BY DEF Sound
<1> QED  BY <1>0, <1>1, <1>2, <1>3, EnfilledIsSound DEF Drop

\* empty() looks at the array and means the data.
LEMMA EmptyMeansNoData ==
    ASSUME NEW b, Sound(b) PROVE IsEmpty(b) <=> DataSize(b) = 0
  BY DEF Sound, SendBuffers, IsEmpty, DataSize
-----------------------------------------------------------------------------
(* The receive buffer: division into chunks.                               *)

\* Multiples of a positive number are ordered as their factors are.
LEMMA FactorsOrdered ==
    ASSUME NEW b \in Nat \ {0}, NEW k \in Nat, NEW m \in Nat, b * k < b * m + b
    PROVE  k <= m
<1> SUFFICES ASSUME k >= m + 1 PROVE FALSE
  OBVIOUS
<1>1. PICK d \in Nat : k = m + 1 + d
  <2>1. k - m - 1 \in Nat
    OBVIOUS
  <2> QED  BY <2>1
<1>2. b * k = b * m + b + b * d
  BY <1>1
<1>3. b * d \in Nat /\ b * m \in Nat
  OBVIOUS
<1> QED  BY <1>2, <1>3

\* The whole chunks and the rest of g bytes.
LEMMA ChunksBound ==
    ASSUME NEW g \in Nat \ {0}
    PROVE  /\ ChunksFor(g) \in Nat \ {0} /\ g % BufSize \in 0..BufSize
           /\ g <= BufSize * ChunksFor(g)
           /\ BufSize * ChunksFor(g) < g + BufSize
           /\ BufSize * (ChunksFor(g) - 1) + (g % BufSize) <= g
<1> DEFINE c == ChunksFor(g)
           q == g \div BufSize
<1>0. BufSize \in Nat \ {0}
  BY RecvBufferAssumption
<1>1. /\ c \in Nat
      /\ \E r \in 0 .. (BufSize - 1) : g + BufSize - 1 = BufSize * c + r
  <2>1. \A a \in Nat : /\ a \div BufSize \in Nat /\ a % BufSize \in 0 .. (BufSize - 1)
                       /\ a = BufSize * (a \div BufSize) + (a % BufSize)
    BY <1>0
  <2>2. g + BufSize - 1 \in Nat
    BY <1>0
  <2> QED  BY <2>1, <2>2 DEF ChunksFor
<1>2. q \in Nat /\ g % BufSize \in 0 .. (BufSize - 1) /\ g = BufSize * q + (g % BufSize)
  BY <1>0
<1>3. BufSize * c \in Nat /\ g <= BufSize * c /\ BufSize * c < g + BufSize
  BY <1>0, <1>1
<1>4. c # 0
  <2> SUFFICES ASSUME c = 0 PROVE FALSE
    OBVIOUS
  <2>1. BufSize * c = 0
    BY <1>0
  <2> QED  BY <1>3, <2>1
<1>5. c - 1 \in Nat /\ BufSize * c = BufSize * (c - 1) + BufSize
  BY <1>0, <1>1, <1>4
<1>6. BufSize * (c - 1) < BufSize * q + BufSize
  <2>1. BufSize * q \in Nat /\ BufSize * (c - 1) \in Nat
    BY <1>0, <1>2, <1>5
  <2> QED  BY <1>0, <1>2, <1>3, <1>5, <2>1
<1>7. c - 1 <= q
  BY <1>0, <1>2, <1>5, <1>6, FactorsOrdered
<1>8. BufSize * (c - 1) <= BufSize * q
  <2>1. PICK d \in Nat : q = (c - 1) + d
    <3>1. q - (c - 1) \in Nat
      BY <1>2, <1>5, <1>7
    <3> QED  BY <1>2, <1>5, <3>1
  <2>2. BufSize * q = BufSize * (c - 1) + BufSize * d
    BY <1>0, <1>5, <2>1
  <2>3. BufSize * d \in Nat /\ BufSize * (c - 1) \in Nat
    BY <1>0, <1>5, <2>1
  <2> QED  BY <2>2, <2>3
<1> QED
  <2>1. BufSize * q \in Nat /\ BufSize * (c - 1) \in Nat
    BY <1>0, <1>2, <1>5
  <2> QED  BY <1>0, <1>1, <1>2, <1>3, <1>4, <1>8, <2>1

\* Bytes that fit n chunks need no more than n.
LEMMA ChunksFit ==
    ASSUME NEW g \in Nat \ {0}, NEW n \in Nat, g <= BufSize * n
    PROVE  ChunksFor(g) <= n
<1>0. BufSize \in Nat \ {0} /\ ChunksFor(g) \in Nat \ {0}
  BY RecvBufferAssumption, ChunksBound
<1>1. BufSize * ChunksFor(g) < BufSize * n + BufSize
  <2>1. BufSize * ChunksFor(g) \in Nat /\ BufSize * n \in Nat
    BY <1>0
  <2> QED  BY <1>0, <2>1, ChunksBound
<1> QED  BY <1>0, <1>1, FactorsOrdered

\* A limited read can store something unless the granula is one whole chunk.
LEMMA RoomForGranulas ==
    ASSUME NEW g \in Nat \ {0}, g # BufSize PROVE Capacity(g) > 0
<1>0. BufSize \in Nat \ {0} /\ MaxRecvBufs \in Nat \ {0} /\ MaxDataSize \in Nat
  BY RecvBufferAssumption DEF MaxDataSize
<1>1. CASE g >= MaxDataSize
  <2>1. (MaxRecvBufs - 1) * BufSize \in Nat
    BY <1>0
  <2> QED  BY <1>0, <1>1, <2>1 DEF Capacity, LimitedAmount, LastLength
<1>2. CASE g < MaxDataSize
  <2> DEFINE c == ChunksFor(g)
  <2>0. Capacity(g) = (c - 1) * BufSize + (g % BufSize)
    BY <1>0, <1>2 DEF Capacity, LimitedAmount, LastLength
  <2>1. c \in Nat \ {0} /\ g % BufSize \in 0..BufSize /\ g <= BufSize * c
    BY ChunksBound
  <2> HIDE DEF c
  <2>2. CASE c = 1
    <3>1. g < BufSize
      BY <1>0, <2>1, <2>2
    <3>2. g % BufSize = g
      BY <1>0, <3>1
    <3> QED  BY <1>0, <2>0, <2>2, <3>2
  <2>3. CASE c # 1
    <3>1. PICK d \in Nat : c - 1 = d + 1
      <4>1. c - 2 \in Nat
        BY <2>1, <2>3
      <4> QED  BY <2>1, <4>1
    <3>2. (c - 1) * BufSize = d * BufSize + BufSize /\ d * BufSize \in Nat
      BY <1>0, <3>1
    <3> QED  BY <1>0, <2>0, <2>1, <3>2
  <2> QED  BY <2>2, <2>3
<1> QED  BY <1>0, <1>1, <1>2

-----------------------------------------------------------------------------
(* The receive buffer: what its operations leave in the iovec elements.    *)

\* Every element is whole except the last one used and the last of the array,
\* which keeps the length of an earlier limit.
RecvTidy(b) ==
    /\ b \in RecvBuffers
    /\ \A i \in RecvSlots :
          i # b.amount - 1 /\ i # MaxRecvBufs - 1 => b.lens[i] = BufSize

LEMMA NewIsTidy == RecvTidy(NewRecvBuffer)
<1>1. MaxDataSize \in Nat /\ 1 <= MaxDataSize
  BY RecvBufferAssumption DEF MaxDataSize
<1> QED
  BY <1>1, RecvBufferAssumption DEF RecvTidy, NewRecvBuffer, RecvBuffers, RecvSlots

\* A limit uses the elements that g bytes need and cuts the last of them.
LEMMA LimitIsTidy ==
    ASSUME NEW b, RecvTidy(b), NEW g \in Nat
    PROVE  /\ RecvTidy(LimitDataSize(b, g))
           /\ LimitDataSize(b, g).amount = LimitedAmount(g)
           /\ g # 0 /\ g < MaxDataSize
                => LimitDataSize(b, g).lens[LimitedAmount(g) - 1] = LastLength(g)
<1> DEFINE whole == IF b.amount < MaxRecvBufs
                    THEN [b.lens EXCEPT ![b.amount - 1] = BufSize] ELSE b.lens
<1>0. /\ BufSize \in Nat \ {0} /\ MaxRecvBufs \in Nat \ {0}
      /\ MaxDataSize \in Nat /\ 1 <= MaxDataSize
  BY RecvBufferAssumption DEF MaxDataSize
<1>1. b.amount \in 1..MaxRecvBufs /\ b.size \in 1..MaxDataSize
      /\ b.lens \in [RecvSlots -> 0..BufSize]
      /\ b = [amount |-> b.amount, size |-> b.size, lens |-> b.lens]
  BY DEF RecvTidy, RecvBuffers
<1>2. /\ whole \in [RecvSlots -> 0..BufSize]
      /\ \A i \in RecvSlots : i # MaxRecvBufs - 1 => whole[i] = BufSize
  BY <1>0, <1>1 DEF RecvTidy, RecvSlots
<1> HIDE DEF whole
<1>3. CASE g = 0 \/ g >= MaxDataSize
  <2>1. LimitDataSize(b, g)
          = [amount |-> MaxRecvBufs, size |-> MaxDataSize, lens |-> whole]
    BY <1>1, <1>3 DEF LimitDataSize, whole
  <2> QED  BY <1>0, <1>2, <1>3, <2>1 DEF RecvTidy, RecvBuffers, LimitedAmount
<1>4. CASE g # 0 /\ g < MaxDataSize
  <2> DEFINE c == ChunksFor(g)
             cut == [whole EXCEPT ![c - 1] = g % BufSize]
  <2>1. LimitDataSize(b, g) = [amount |-> c, size |-> g, lens |-> cut]
    <3>1. g \in Nat /\ ~(g = 0 \/ g >= MaxDataSize)
      BY <1>0, <1>4
    <3>2. LimitDataSize(b, g) = [b EXCEPT !.amount = c, !.size = g, !.lens = cut]
      BY <3>1, Zenon DEF LimitDataSize, whole
    <3> HIDE DEF c, cut
    <3> QED  BY <1>1, <3>2
  <2>2. c \in 1..MaxRecvBufs /\ g % BufSize \in 0..BufSize
    <3>1. g <= BufSize * MaxRecvBufs
      BY <1>0, <1>4 DEF MaxDataSize
    <3> QED  BY <1>0, <1>4, <3>1, ChunksBound, ChunksFit
  <2>3. c - 1 \in RecvSlots
    BY <1>0, <2>2 DEF RecvSlots
  <2>4. cut \in [RecvSlots -> 0..BufSize] /\ cut[c - 1] = g % BufSize
    BY <1>2, <2>2, <2>3
  <2>5. \A i \in RecvSlots : i # c - 1 => cut[i] = whole[i]
    BY <1>2
  <2>6. LimitedAmount(g) = c /\ LastLength(g) = g % BufSize
    BY <1>0, <1>4 DEF LimitedAmount, LastLength
  <2> HIDE DEF c, cut
  <2> QED
    BY <1>0, <1>2, <1>4, <2>1, <2>2, <2>4, <2>5, <2>6 DEF RecvTidy, RecvBuffers
<1> QED  BY <1>0, <1>3, <1>4

\* Detached chunks are replaced by whole ones.
LEMMA DetachIsTidy ==
    ASSUME NEW b, RecvTidy(b), NEW n
    PROVE  RecvTidy(Detach(b, n)) /\ Detach(b, n).amount = b.amount
<1> DEFINE k == IF n >= MaxDataSize THEN b.amount ELSE ChunksFor(n)
<1>1. b.amount \in 1..MaxRecvBufs /\ b.size \in 1..MaxDataSize
      /\ b.lens \in [RecvSlots -> 0..BufSize]
      /\ b = [amount |-> b.amount, size |-> b.size, lens |-> b.lens]
  BY DEF RecvTidy, RecvBuffers
<1>2. Detach(b, n) = [b EXCEPT !.lens = [i \in RecvSlots |-> IF i < k THEN BufSize
                                                              ELSE b.lens[i]]]
  BY DEF Detach, RenewFront
<1> HIDE DEF k
<1>3. [i \in RecvSlots |-> IF i < k THEN BufSize ELSE b.lens[i]] \in [RecvSlots -> 0..BufSize]
  BY <1>1, RecvBufferAssumption
<1> QED  BY <1>1, <1>2, <1>3 DEF RecvTidy, RecvBuffers
=============================================================================
