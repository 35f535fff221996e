--------------------------- MODULE MCBuffersProofs ---------------------------
(***************************************************************************)
(* Proofs about the two buffers under any sequence of the calls the        *)
(* channels make, for all sizes of buffers, chunks and granulas.           *)
(***************************************************************************)
EXTENDS MCBuffers, BufferProofs

-----------------------------------------------------------------------------
(* What an iovec array can store.                                          *)

\* The recursion that RoomOf is defined by has a solution, on every initial
\* segment of the array.
LEMMA SumsExist ==
    ASSUME NEW lens \in [RecvSlots -> 0..BufSize]
    PROVE  \A k \in 0..MaxRecvBufs : \E s \in [0..k -> Nat] :
              s = [n \in 0..k |-> IF n = 0 THEN 0 ELSE s[n - 1] + lens[n - 1]]
<1> DEFINE Solves(s, k) ==
             s = [n \in 0..k |-> IF n = 0 THEN 0 ELSE s[n - 1] + lens[n - 1]]
           Bad == {k \in 0..MaxRecvBufs : ~ \E s \in [0..k -> Nat] : Solves(s, k)}
<1>0. MaxRecvBufs \in Nat /\ BufSize \in Nat
  BY RecvBufferAssumption
<1> SUFFICES ASSUME Bad # {} PROVE FALSE
  OBVIOUS
<1>1. PICK k \in Bad : \A j \in Bad : k <= j
  <2>1. Bad \in SUBSET Nat
    BY <1>0
  <2> HIDE DEF Bad
  <2> QED  BY <2>1, Least
<1>2. k # 0
  <2> SUFFICES ASSUME k = 0 PROVE FALSE
    OBVIOUS
  <2>1. [n \in 0..0 |-> 0] \in [0..0 -> Nat]
    OBVIOUS
  <2>2. Solves([n \in 0..0 |-> 0], 0)
    BY <2>1
  <2> QED  BY <1>1, <2>1, <2>2
<1>3. k \in Nat /\ k - 1 \in 0..MaxRecvBufs /\ k - 1 \notin Bad
  <2>1. k \in 0..MaxRecvBufs
    BY <1>1
  <2>2. ~(k <= k - 1)
    BY <1>0, <2>1
  <2> HIDE DEF Bad
  <2> QED  BY <1>0, <1>1, <1>2, <2>1, <2>2
<1>4. PICK s \in [0..(k - 1) -> Nat] : Solves(s, k - 1)
  BY <1>3
<1> DEFINE t == [n \in 0..k |-> IF n = k THEN s[k - 1] + lens[k - 1] ELSE s[n]]
<1>5. s[k - 1] \in Nat /\ lens[k - 1] \in Nat
  BY <1>0, <1>3 DEF RecvSlots
<1>6. \A n \in 0..k : n # k => n \in 0..(k - 1) /\ s[n] \in Nat
  BY <1>3
<1>7. t \in [0..k -> Nat]
  BY <1>5, <1>6
<1>8. \A n \in 0..k : n # 0 => t[n - 1] = s[n - 1]
  BY <1>3
<1>9. \A n \in 0..(k - 1) : s[n] = IF n = 0 THEN 0 ELSE s[n - 1] + lens[n - 1]
  BY <1>4
<1>10. \A n \in 0..k : t[n] = IF n = 0 THEN 0 ELSE t[n - 1] + lens[n - 1]
  <2> SUFFICES ASSUME NEW n \in 0..k
               PROVE  t[n] = IF n = 0 THEN 0 ELSE t[n - 1] + lens[n - 1]
    OBVIOUS
  <2>1. CASE n = k
    BY <1>2, <1>8, <2>1
  <2>2. CASE n # k
    BY <1>6, <1>8, <1>9, <2>2
  <2> QED  BY <2>1, <2>2
<1>11. Solves(t, k)
  BY <1>7, <1>10
<1> QED  BY <1>1, <1>7, <1>11

\* The room of n elements is at most that of n whole ones, and theirs if they
\* are whole.
LEMMA RoomBound ==
    ASSUME NEW lens \in [RecvSlots -> 0..BufSize]
    PROVE  /\ RoomOf(lens)[0] = 0
           /\ \A n \in 1..MaxRecvBufs :
                 RoomOf(lens)[n] = RoomOf(lens)[n - 1] + lens[n - 1]
           /\ \A n \in 0..MaxRecvBufs :
                 /\ RoomOf(lens)[n] \in Nat /\ RoomOf(lens)[n] <= BufSize * n
                 /\ (\A i \in 0..(n - 1) : lens[i] = BufSize)
                       => RoomOf(lens)[n] = BufSize * n
<1> DEFINE f == RoomOf(lens)
           Good(n) == /\ f[n] \in Nat /\ f[n] <= BufSize * n
                      /\ (\A i \in 0..(n - 1) : lens[i] = BufSize) => f[n] = BufSize * n
           Bad == {n \in 0..MaxRecvBufs : ~Good(n)}
<1>0. MaxRecvBufs \in Nat /\ BufSize \in Nat
  BY RecvBufferAssumption
<1>1. f = [n \in 0..MaxRecvBufs |-> IF n = 0 THEN 0 ELSE f[n - 1] + lens[n - 1]]
  <2>1. PICK s \in [0..MaxRecvBufs -> Nat] :
          s = [n \in 0..MaxRecvBufs |-> IF n = 0 THEN 0 ELSE s[n - 1] + lens[n - 1]]
    BY <1>0, SumsExist
  <2>2. f = CHOOSE u :
          u = [n \in 0..MaxRecvBufs |-> IF n = 0 THEN 0 ELSE u[n - 1] + lens[n - 1]]
    BY DEF RoomOf
  <2> QED  BY <2>1, <2>2
<1>2. f[0] = 0 /\ \A n \in 1..MaxRecvBufs : f[n] = f[n - 1] + lens[n - 1]
  <2> HIDE DEF f
  <2>1. \A n \in 0..MaxRecvBufs : f[n] = IF n = 0 THEN 0 ELSE f[n - 1] + lens[n - 1]
    BY <1>1
  <2> QED  BY <1>0, <2>1
<1> HIDE DEF f
<1>3. Bad = {}
  <2> SUFFICES ASSUME Bad # {} PROVE FALSE
    OBVIOUS
  <2>1. PICK n \in Bad : \A m \in Bad : n <= m
    <3>1. Bad \in SUBSET Nat
      BY <1>0
    <3> HIDE DEF Bad
    <3> QED  BY <3>1, Least
  <2>2. n # 0
    <3>1. Good(0)
      BY <1>0, <1>2
    <3> QED  BY <2>1, <3>1
  <2>3. n \in 1..MaxRecvBufs /\ n - 1 \in 0..MaxRecvBufs /\ Good(n - 1)
    BY <1>0, <2>1, <2>2
  <2>4. lens[n - 1] \in 0..BufSize
    BY <1>0, <2>3 DEF RecvSlots
  <2>5. BufSize * n = BufSize * (n - 1) + BufSize /\ BufSize * (n - 1) \in Nat
    BY <1>0, <2>3
  <2>6. f[n] = f[n - 1] + lens[n - 1]
    BY <1>2, <2>3
  <2>7. f[n] \in Nat /\ f[n] <= BufSize * n
    BY <1>0, <2>3, <2>4, <2>5, <2>6
  <2>8. ASSUME \A i \in 0..(n - 1) : lens[i] = BufSize PROVE f[n] = BufSize * n
    <3>1. lens[n - 1] = BufSize /\ \A i \in 0..((n - 1) - 1) : lens[i] = BufSize
      BY <2>3, <2>8
    <3> QED  BY <2>3, <2>5, <2>6, <3>1
  <2> QED  BY <2>1, <2>7, <2>8
<1> QED  BY <1>2, <1>3 DEF f

-----------------------------------------------------------------------------
(* The inductive invariant.                                                *)

\* The limit is on while a channel reads, the array has the elements it leaves,
\* and readv returned no more than these can store.
Reading ==
    /\ RecvTidy(rb) /\ limit \in Nat /\ got \in Nat
    /\ phase \in {"free", "limited", "read", "unlimited"}
    /\ phase \in {"free", "unlimited"} => rb.amount = MaxRecvBufs
    /\ phase = "limited" =>
          /\ limit # 0 /\ rb.amount = LimitedAmount(limit)
          /\ limit < MaxDataSize => rb.lens[rb.amount - 1] = LastLength(limit)
    /\ phase = "read" => got <= BufSize * rb.amount

BInv == Sound(sb) /\ Reading

LEMMA InitBInv == Init => BInv
  BY NewIsSound, NewIsTidy, RecvBufferAssumption
  DEF Init, BInv, Reading, NewRecvBuffer

LEMMA SendStepsKeep ==
    BInv /\ (PushChunk \/ DropWritten \/ ClearAll) => BInv'
<1> SUFFICES ASSUME BInv, PushChunk \/ DropWritten \/ ClearAll PROVE Sound(sb')
  BY DEF BInv, Reading, PushChunk, DropWritten, ClearAll, recvVars
<1>1. CASE PushChunk
  BY <1>1, PushIsSound, MCBuffersAssumption DEF BInv, PushChunk
<1>2. CASE DropWritten
  <2>1. PICK n \in 1..MaxBytes : WithinBufs(n, sb) /\ sb' = Drop(sb, n)
    BY <1>2 DEF DropWritten
  <2>2. n \in Nat
    BY MCBuffersAssumption
  <2> QED  BY <2>1, <2>2, DropIsSound DEF BInv
<1>3. CASE ClearAll
  BY <1>3, ClearIsSound DEF BInv, ClearAll
<1> QED  BY <1>1, <1>2, <1>3

\* What readv can store of the array is known in all phases.
LEMMA RoomInArray == RecvTidy(rb) => Room \in Nat /\ Room <= BufSize * rb.amount
<1> SUFFICES ASSUME RecvTidy(rb) PROVE Room \in Nat /\ Room <= BufSize * rb.amount
  OBVIOUS
<1>1. rb.lens \in [RecvSlots -> 0..BufSize] /\ rb.amount \in 0..MaxRecvBufs
  BY RecvBufferAssumption DEF RecvTidy, RecvBuffers
<1> QED  BY <1>1, RoomBound DEF Room

LEMMA ReadStepsKeep ==
    BInv /\ (LimitFor \/ Read \/ Unlimit \/ DetachRead \/ ReadDatagram) => BInv'
<1> SUFFICES ASSUME BInv, LimitFor \/ Read \/ Unlimit \/ DetachRead \/ ReadDatagram
             PROVE  Reading'
  BY DEF BInv, LimitFor, Read, Unlimit, DetachRead, ReadDatagram
<1>0. RecvTidy(rb) /\ limit \in Nat /\ got \in Nat
  BY DEF BInv, Reading
<1>1. CASE LimitFor
  <2>1. PICK g \in 1..MaxGranula : rb' = LimitDataSize(rb, g) /\ limit' = g
    BY <1>1 DEF LimitFor
  <2>2. g \in Nat /\ g # 0
    BY MCBuffersAssumption
  <2> QED  BY <1>0, <1>1, <2>1, <2>2, LimitIsTidy DEF LimitFor, Reading
<1>2. CASE Read
  <2>1. got' \in Nat /\ got' <= BufSize * rb.amount
    <3>1. rb.amount \in Nat /\ BufSize * rb.amount \in Nat
      BY <1>0, RecvBufferAssumption DEF RecvTidy, RecvBuffers
    <3> QED  BY <1>0, <1>2, <3>1, RoomInArray DEF Read
  <2> QED  BY <1>0, <1>2, <2>1 DEF Read, Reading
<1>3. CASE Unlimit
  <2>1. MaxDataSize \in Nat
    BY RecvBufferAssumption DEF MaxDataSize
  <2>2. LimitedAmount(MaxDataSize) = MaxRecvBufs
    BY <2>1 DEF LimitedAmount
  <2>3. RecvTidy(rb') /\ rb'.amount = MaxRecvBufs
    BY <1>0, <1>3, <2>1, <2>2, LimitIsTidy DEF Unlimit, UnlimitDataSize
  <2> QED  BY <1>0, <1>3, <2>3 DEF Unlimit, Reading
<1>4. CASE DetachRead
  <2>1. RecvTidy(rb') /\ rb'.amount = MaxRecvBufs
    BY <1>0, <1>4, DetachIsTidy DEF DetachRead, BInv, Reading
  <2> QED  BY <1>4, <2>1 DEF DetachRead, Reading
<1>5. CASE ReadDatagram
  <2>1. got' \in Nat
    BY <1>5 DEF ReadDatagram
  <2> QED  BY <1>0, <1>5, <2>1 DEF ReadDatagram, BInv, Reading
<1> QED  BY <1>1, <1>2, <1>3, <1>4, <1>5

LEMMA NextBInv == BInv /\ [Next]_vars => BInv'
<1>1. BInv /\ UNCHANGED vars => BInv'
  BY DEF vars, recvVars, BInv, Reading
<1> QED  BY <1>1, SendStepsKeep, ReadStepsKeep DEF Next

LEMMA AlwaysBInv == Spec => []BInv
  BY InitBInv, NextBInv, PTL DEF Spec

-----------------------------------------------------------------------------
(* The theorems.                                                           *)

\* sendmsg is given a gapless prefix of the unsent data whatever was pushed and
\* however drop cut the chunks.
THEOREM IovecStaysPrefix == Spec => []IovecIsPrefix
<1>1. BInv => IovecIsPrefix
  BY DEF BInv, Sound, IovecIsPrefix
<1> QED  BY <1>1, AlwaysBInv, PTL

\* A send buffer is never empty by its iovec array with data left.
THEOREM EmptyIsSent == Spec => []EmptyMeansSent
<1>1. BInv => EmptyMeansSent
  BY EmptyMeansNoData DEF BInv, EmptyMeansSent
<1> QED  BY <1>1, AlwaysBInv, PTL

\* The chunks that detach takes bytes for whole are whole, whatever limits were
\* set before.
THEOREM DetachFinds == Spec => []DetachFindsTheData
<1>1. BInv => DetachFindsTheData
  <2> SUFFICES ASSUME BInv, phase = "read", NEW i \in 0..(ChunksFor(got) - 2)
               PROVE  rb.lens[i] = BufSize
    BY DEF DetachFindsTheData
  <2>0. RecvTidy(rb) /\ got \in Nat /\ got <= BufSize * rb.amount
    BY DEF BInv, Reading
  <2>1. rb.amount \in 1..MaxRecvBufs /\ BufSize \in Nat \ {0} /\ MaxRecvBufs \in Nat
    BY <2>0, RecvBufferAssumption DEF RecvTidy, RecvBuffers
  <2>2. CASE got = 0
    <3>1. (BufSize - 1) \div BufSize = 0
      BY <2>1
    <3>2. ChunksFor(got) = 0
      BY <2>1, <2>2, <3>1 DEF ChunksFor
    <3> QED  BY <3>2
  <2>3. CASE got # 0
    <3>1. ChunksFor(got) \in Nat /\ ChunksFor(got) <= rb.amount
      BY <2>0, <2>1, <2>3, ChunksBound, ChunksFit
    <3>2. i \in RecvSlots /\ i # rb.amount - 1 /\ i # MaxRecvBufs - 1
      BY <2>1, <3>1 DEF RecvSlots
    <3> QED  BY <2>0, <3>2 DEF RecvTidy
  <2> QED  BY <2>2, <2>3
<1> QED  BY <1>1, AlwaysBInv, PTL

\* A limited read returns what Capacity says, which the model of the channel
\* reads by, and never more than the granula.
THEOREM LimitStaysExact == Spec => []LimitIsExact
<1>1. BInv => LimitIsExact
  <2> SUFFICES ASSUME BInv, phase = "limited"
               PROVE  /\ Room <= Capacity(limit)
                      /\ limit < MaxDataSize => Room = Capacity(limit) /\ Room <= limit
    BY DEF LimitIsExact
  <2> DEFINE a == rb.amount
             f == RoomOf(rb.lens)
  <2>0. /\ RecvTidy(rb) /\ limit \in Nat \ {0} /\ a = LimitedAmount(limit)
        /\ limit < MaxDataSize => rb.lens[a - 1] = LastLength(limit)
    BY DEF BInv, Reading
  <2>1. /\ a \in 1..MaxRecvBufs /\ BufSize \in Nat \ {0} /\ MaxRecvBufs \in Nat \ {0}
        /\ rb.lens \in [RecvSlots -> 0..BufSize] /\ MaxDataSize \in Nat
    BY <2>0, RecvBufferAssumption DEF RecvTidy, RecvBuffers, MaxDataSize
  <2>2. \A i \in 0..((a - 1) - 1) : rb.lens[i] = BufSize
    BY <2>0, <2>1 DEF RecvTidy, RecvSlots
  <2>3. f[a] = f[a - 1] + rb.lens[a - 1] /\ f[a - 1] = BufSize * (a - 1)
    <3>1. a \in 1..MaxRecvBufs /\ a - 1 \in 0..MaxRecvBufs
      BY <2>1
    <3>2. /\ \A n \in 1..MaxRecvBufs : f[n] = f[n - 1] + rb.lens[n - 1]
          /\ \A n \in 0..MaxRecvBufs :
                (\A i \in 0..(n - 1) : rb.lens[i] = BufSize) => f[n] = BufSize * n
      BY <2>1, RoomBound
    <3> HIDE DEF a, f
    <3> QED  BY <2>2, <3>1, <3>2
  <2>4. Room = f[a]
    BY DEF Room
  <2>5. rb.lens[a - 1] \in 0..BufSize /\ BufSize * (a - 1) \in Nat
    BY <2>1 DEF RecvSlots
  <2>6. Capacity(limit) = BufSize * (a - 1) + LastLength(limit)
    BY <2>0, <2>1 DEF Capacity
  <2> HIDE DEF a, f
  <2>7. CASE limit < MaxDataSize
    <3>1. a = ChunksFor(limit) /\ LastLength(limit) = limit % BufSize
      BY <2>0, <2>1, <2>7 DEF LimitedAmount, LastLength
    <3>2. BufSize * (a - 1) + LastLength(limit) <= limit
      BY <2>0, <3>1, ChunksBound
    <3> QED  BY <2>0, <2>3, <2>4, <2>5, <2>6, <2>7, <3>2
  <2>8. CASE ~(limit < MaxDataSize)
    <3>1. LastLength(limit) = BufSize
      BY <2>0, <2>1, <2>8 DEF LastLength
    <3> QED  BY <2>1, <2>3, <2>4, <2>5, <2>6, <2>8, <3>1
  <2> QED  BY <2>7, <2>8
<1> QED  BY <1>1, AlwaysBInv, PTL
=============================================================================
